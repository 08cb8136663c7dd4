---------------------------- MODULE WafEventSync ----------------------------
(***************************************************************************)
(* Copying CrowdSec's alerts into the panel's database                     *)
(* (WafEventSyncService): a window reaching a little behind the last       *)
(* successful sync is read page by page, newest first, a hole CrowdSec     *)
(* left by deleting alerts is looked for, the WAF hits are stored one by   *)
(* one and only then the sync point moves.  Meanwhile alerts arrive, the   *)
(* clock goes on, and CrowdSec deletes its oldest alerts, by age or        *)
(* because there are too many.                                             *)
(*                                                                         *)
(* Time is counted in whole seconds of the one clock panel and LAPI share. *)
(* The LAPI understands `since` and `until` as ages, counted back from the *)
(* moment a request reaches it, which may be later than the panel thinks.  *)
(***************************************************************************)
EXTENDS Integers, FiniteSets

CONSTANTS
    Alerts,         \* alerts of any kind
    Waf,            \* those that are WAF hits
    Overlap,        \* OVERLAP_MS
    GapCheckAfter,  \* GAP_CHECK_AFTER_MS
    MaxAge,         \* CROWDSEC_MAX_AGE_MS
    PageSize, MaxPages,
    Retentions,     \* retention periods an admin may choose
    Slack,          \* how long a sync may take
    None,           \* a setting that is not there
    MaxTime         \* bound: the clock

ASSUME SyncAssumption ==
    /\ Waf \subseteq Alerts /\ IsFiniteSet(Alerts)
    /\ {Overlap, GapCheckAfter, MaxAge, Slack, MaxTime} \subseteq Nat
    /\ Retentions \subseteq Nat \ {0}
    /\ PageSize \in Nat \ {0} /\ MaxPages \in Nat \ {0}
    /\ None \notin Int

VARIABLES
    clock,
    at,             \* alerts so far: alert -> when it was created
    kept,           \* those CrowdSec still has
    stored,         \* WAF hits in the panel's database
    retention, syncedUntil, lastAlertAt, gap,   \* settings
    running, pc,    \* the flag of sync() and where it stands
    now, from,      \* sync(): its start and the start of its window
    boundary, until, page,              \* fetch(): where it turns back, page
    hits, oldest, newest, truncated,    \* fetch(): its outcome
    told            \* history: hits that lay in a recorded gap, were older than
                    \* the retention, or are lost where detectGap does not look

lapiVars == <<at, kept>>
settings == <<retention, syncedUntil, lastAlertAt>>
window == <<now, from, boundary, until, page>>
outcome == <<hits, oldest, newest, truncated>>
vars == <<clock, lapiVars, stored, settings, gap, running, pc, window,
          outcome, told>>

Created == DOMAIN at
Gone == Created \ kept
NoGap == [from |-> None, to |-> None]
Larger(a, b) == IF a >= b THEN a ELSE b
TimeOrNone == Int \cup {None}

IdleWindow == /\ now' = 0 /\ from' = 0 /\ page' = 1
              /\ boundary' = None /\ until' = None
IdleOutcome == /\ hits' = {} /\ truncated' = FALSE
               /\ oldest' = None /\ newest' = None

Init ==
    /\ clock = 0 /\ at = <<>> /\ kept = {} /\ stored = {}
    /\ retention \in Retentions
    /\ syncedUntil = None /\ lastAlertAt = None
    /\ gap = NoGap /\ told = {}
    /\ running = FALSE /\ pc = "idle"
    /\ now = 0 /\ from = 0 /\ page = 1 /\ boundary = None /\ until = None
    /\ hits = {} /\ truncated = FALSE /\ oldest = None /\ newest = None

-----------------------------------------------------------------------------
(* The LAPI and the clock.                                                 *)

syncRest == UNCHANGED <<stored, syncedUntil, lastAlertAt, gap, running, pc,
                        window, outcome>>

Expired(time, days) == {a \in Created \cap Waf : at[a] < time - days}

Tick ==
    /\ clock < MaxTime
    /\ pc # "idle" => clock < now + Slack
    /\ clock' = clock + 1
    /\ told' = told \cup Expired(clock + 1 + Slack, retention)
    /\ UNCHANGED <<lapiVars, retention>> /\ syncRest

Arrive(a) ==
    /\ a \notin Created
    /\ at' = [b \in Created \cup {a} |-> IF b = a THEN clock ELSE at[b]]
    /\ kept' = kept \cup {a}
    /\ UNCHANGED <<clock, retention, told>> /\ syncRest

\* CrowdSec deletes its oldest alerts: all that are older than MaxAge, or as
\* many as exceed flush.max_items.  The newest stay then, and fifty thousand
\* do not come together within the time after which a sync looks for a gap.
Flush(time) ==
    /\ \E a \in kept : at[a] <= time
    /\ \/ time < clock - MaxAge
       \/ /\ time < clock - (GapCheckAfter + Slack)
          /\ \E a \in kept : at[a] > time
    /\ kept' = {a \in kept : at[a] > time}
    /\ UNCHANGED <<clock, at, retention, told>> /\ syncRest

SetRetentionDays(days) ==
    /\ retention' = days
    /\ told' = told \cup Expired(clock + Slack, days)
    /\ UNCHANGED <<clock, lapiVars>> /\ syncRest

\* GET /v1/alerts: the newest ones whose age lies between the two.
Matching(since, youngest) ==
    {a \in kept : at[a] >= clock - since
                  /\ (youngest # None => at[a] <= clock - youngest)}

Answers(since, youngest, limit) ==
    LET all == Matching(since, youngest)
    IN  {p \in SUBSET all :
           /\ \/ Cardinality(p) = limit
              \/ p = all /\ Cardinality(all) <= limit
           /\ \A a \in p, b \in all \ p : at[a] >= at[b]}

-----------------------------------------------------------------------------
(* sync().                                                                 *)

lapiRest == UNCHANGED <<clock, lapiVars, retention>>

\* Mutant: no overlap.
WindowStartExact(time) ==
    IF syncedUntil = None THEN time - retention
    ELSE Larger(time - retention, syncedUntil)

WindowStart(time) ==
    IF syncedUntil = None THEN time - retention
    ELSE Larger(time - retention, syncedUntil - Overlap)

\* Whoever comes while a sync runs is told so and changes nothing.
Start ==
    /\ ~running /\ running' = TRUE
    /\ now' = clock /\ from' = WindowStart(clock)
    /\ pc' = "fetch"
    /\ UNCHANGED <<stored, syncedUntil, lastAlertAt, gap, told, boundary, until,
                   page, outcome>>
    /\ lapiRest

\* Mutant: alerts of other kinds are stored too.
HitsOfAll(answer) == answer
HitsOf(answer) == answer \cap Waf

TimesOf(answer) == {at[a] : a \in answer}
Earliest(times) == IF times = {} THEN None
                   ELSE CHOOSE t \in times : \A u \in times : t <= u
Latest(times) == IF times = {} THEN None
                 ELSE CHOOSE t \in times : \A u \in times : t >= u

\* A full page of alerts of one second: turning back would not get any further.
SameSecond(answer) ==
    boundary # None /\ Earliest(TimesOf(answer)) >= boundary

FetchPage(answer) ==
    /\ pc = "fetch"
    /\ answer \in Answers(Larger(1, now - from), until, PageSize)
    /\ hits' = hits \cup HitsOf(answer)
    /\ oldest' = Earliest(TimesOf(answer) \cup ({oldest} \ {None}))
    /\ newest' = Latest(TimesOf(answer) \cup ({newest} \ {None}))
    /\ \/ /\ Cardinality(answer) < PageSize
          /\ pc' = "gap"
          /\ UNCHANGED <<truncated, boundary, until, page>>
       \/ /\ Cardinality(answer) = PageSize
          /\ SameSecond(answer) \/ page = MaxPages
          /\ pc' = "gap" /\ truncated' = TRUE
          /\ UNCHANGED <<boundary, until, page>>
       \/ /\ Cardinality(answer) = PageSize
          /\ ~SameSecond(answer) /\ page < MaxPages
          /\ boundary' = Earliest(TimesOf(answer)) /\ page' = page + 1
          /\ until' = Larger(1, clock - boundary')
          /\ UNCHANGED <<pc, truncated>>
    /\ UNCHANGED <<stored, syncedUntil, lastAlertAt, gap, told, running, now,
                   from>>
    /\ lapiRest

RecordGap(start, end) == gap' = [from |-> start, to |-> end]

\* Alerts that are gone and of which detectGap says nothing: no alert had been
\* seen before, the last one seen has aged out itself, they went early although
\* the outage was longer than CrowdSec keeps alerts (the javadoc says so), they
\* came in the very second of the last success, after its fetch, or they aged
\* out while the sync ran, which then looks at an empty window.
Unseen(a) ==
    \/ syncedUntil = None \/ lastAlertAt = None \/ at[a] = syncedUntil
    \/ now - syncedUntil > MaxAge /\ at[a] >= now - MaxAge
    \/ now - syncedUntil <= MaxAge /\ lastAlertAt <= now - MaxAge
    \/ oldest = None /\ at[a] < clock - MaxAge

\* One alert at or before the sync point shows that none after it is gone.
ProbeAge == Larger(1, now - syncedUntil)
ProbeFinds(answer) == \E a \in answer : at[a] <= syncedUntil

\* detectGap, once the last success is longer ago than GapCheckAfter.
DetectGap ==
    \/ /\ now - syncedUntil > MaxAge
       /\ RecordGap(syncedUntil, now - MaxAge)
    \/ /\ now - syncedUntil <= MaxAge
       /\ \/ lastAlertAt <= now - MaxAge \/ oldest = None
          \/ oldest # None /\ oldest <= syncedUntil
       /\ UNCHANGED gap
    \/ /\ now - syncedUntil <= MaxAge
       /\ lastAlertAt > now - MaxAge /\ oldest # None /\ oldest > syncedUntil
       /\ \E answer \in Answers(ProbeAge + MaxAge, ProbeAge, 1) :
            IF ProbeFinds(answer) THEN UNCHANGED gap
            ELSE RecordGap(syncedUntil, oldest)

\* Mutants: a pull that stopped early leaves no gap; no probe for a gap.
CheckGapIgnoringPages ==
    IF syncedUntil # None /\ lastAlertAt # None
       /\ now - syncedUntil > GapCheckAfter
    THEN DetectGap ELSE UNCHANGED gap
CheckGapOnlyPages ==
    IF truncated THEN RecordGap(from, oldest) ELSE UNCHANGED gap

CheckGap ==
    IF truncated THEN RecordGap(from, oldest)
    ELSE IF syncedUntil # None /\ lastAlertAt # None
            /\ now - syncedUntil > GapCheckAfter
    THEN DetectGap
    ELSE UNCHANGED gap

InGap(g, a) == g # NoGap /\ g.from <= at[a] /\ at[a] <= g.to
Told(a) == InGap(gap', a) \/ (~truncated /\ a \in Gone /\ Unseen(a))

FindGap ==
    /\ pc = "gap"
    /\ CheckGap
    /\ told' = told \cup {a \in Created \cap Waf : Told(a)}
    /\ pc' = "store"
    /\ UNCHANGED <<stored, syncedUntil, lastAlertAt, running, window, outcome>>
    /\ lapiRest

\* WafEventService.store: known alerts are skipped, the others go in by time.
StoreHit(a) ==
    /\ pc = "store"
    /\ a \in hits /\ \A b \in hits : at[a] <= at[b]
    /\ stored' = stored \cup {a} /\ hits' = hits \ {a}
    /\ UNCHANGED <<syncedUntil, lastAlertAt, gap, told, running, pc, window,
                   oldest, newest, truncated>>
    /\ lapiRest

SetLastAlert ==
    /\ pc = "store" /\ hits = {}
    /\ lastAlertAt' = Latest({newest, lastAlertAt} \ {None})
    /\ pc' = "advance"
    /\ UNCHANGED <<stored, syncedUntil, gap, told, running, window, outcome>>
    /\ lapiRest

Advance ==
    /\ pc = "advance"
    /\ syncedUntil' = now
    /\ running' = FALSE /\ pc' = "idle" /\ IdleWindow /\ IdleOutcome
    /\ UNCHANGED <<stored, lastAlertAt, gap, told>>
    /\ lapiRest

\* Mutant: the flag is not reset when a sync fails.
ReleaseNever == UNCHANGED running
Release == running' = FALSE

\* The LAPI does not answer, a database write fails, or the panel stops; what
\* was stored stays, the sync point does not move.
Fail ==
    /\ pc # "idle"
    /\ Release /\ pc' = "idle" /\ IdleWindow /\ IdleOutcome
    /\ UNCHANGED <<stored, syncedUntil, lastAlertAt, gap, told>>
    /\ lapiRest

\* cleanup: what is older than the retention goes.
Cleanup ==
    /\ stored' = stored \ Expired(clock, retention)
    /\ UNCHANGED <<syncedUntil, lastAlertAt, gap, told, running, pc, window,
                   outcome>>
    /\ lapiRest

Sync == \/ \E answer \in SUBSET kept : FetchPage(answer)
        \/ FindGap \/ SetLastAlert \/ Advance
        \/ \E a \in Alerts : StoreHit(a)

Next ==
    \/ Tick
    \/ \E a \in Alerts : Arrive(a)
    \/ \E time \in 0 .. MaxTime : Flush(time)
    \/ \E days \in Retentions : SetRetentionDays(days)
    \/ Start \/ Sync \/ Fail \/ Cleanup

Spec == Init /\ [][Next]_vars
FairSpec == Spec /\ WF_vars(Sync)
-----------------------------------------------------------------------------
(* Properties.                                                             *)

\* Every variable holds a value the code could hold; only WAF hits are stored.
TypeOK ==
    /\ clock \in Nat /\ retention \in Retentions
    /\ Created \subseteq Alerts /\ \A a \in Created : at[a] \in Nat
    /\ kept \subseteq Created
    /\ hits \subseteq Created \cap Waf /\ stored \subseteq Created \cap Waf
    /\ {syncedUntil, lastAlertAt, boundary, until, oldest, newest}
         \subseteq TimeOrNone
    /\ gap \in {NoGap} \cup [from : Int, to : Int]
    /\ told \subseteq Created \cap Waf
    /\ running \in BOOLEAN /\ truncated \in BOOLEAN
    /\ pc \in {"idle", "fetch", "gap", "store", "advance"}
    /\ now \in Nat /\ from \in Int /\ page \in 1 .. MaxPages

\* No WAF hit is lost in silence: whatever was created before the sync point is
\* in the database or within a gap that was recorded, unless it is beyond the
\* retention or in one of the blind spots of detectGap (Unseen), most of which
\* its javadoc names.
NoSilentLoss ==
    syncedUntil # None =>
        \A a \in Created \cap Waf :
            at[a] < syncedUntil => a \in stored \cup told

\* A sync that was started ends and lets the next one in, whatever the LAPI
\* answers: paging terminates and the flag is released.
SyncEnds == running ~> ~running

\* WafEventSyncService.java:147: a fetch that is not cut short has pulled every
\* alert from the start of its window on.
FetchesAll ==
    [][pc = "fetch" /\ pc' = "gap" /\ ~truncated' =>
         \A a \in kept \cap Waf :
            from <= at[a] /\ at[a] < now => a \in hits']_vars
=============================================================================
