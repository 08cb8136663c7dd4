------------------------- MODULE WafEventSyncProofs -------------------------
(***************************************************************************)
(* What holds of copying CrowdSec's alerts for any alerts, page sizes,     *)
(* limits of pages and periods.  No alert is lost in silence as long as a  *)
(* sync is over within the overlap of two windows (Timing).                *)
(***************************************************************************)
EXTENDS WafEventSync, FiniteSetTheorems, WellFoundedInduction, TLAPS

\* A sync takes no longer than the overlap and the shortest retention, and
\* CrowdSec keeps alerts for longer than a gap may stay unnoticed.
Timing ==
    /\ Slack <= Overlap /\ \A days \in Retentions : Slack <= days
    /\ GapCheckAfter + Slack <= MaxAge

-----------------------------------------------------------------------------
(* Inductive invariants.                                                   *)

TimesSeen == {oldest, newest, boundary, lastAlertAt, syncedUntil}

\* No time noted lies in the future, and a sync under way began not long ago.
ClockInv ==
    /\ \A a \in Created : at[a] <= clock
    /\ TimesSeen \subseteq (0..clock) \cup {None}
    /\ syncedUntil # None /\ pc # "idle" => syncedUntil <= now
    /\ pc # "idle" => now <= clock /\ clock <= now + Slack
    /\ pc = "idle" => oldest = None /\ newest = None /\ ~truncated /\ hits = {}
    /\ boundary = None \/ pc # "idle"
    /\ boundary = None <=> until = None
    /\ boundary # None \/ truncated => oldest # None
    /\ pc = "fetch" => ~truncated
    /\ pc = "idle" <=> running = FALSE

TypeInv == TypeOK /\ ClockInv

\* CrowdSec deletes its oldest alerts, of which the last goes by age only, and
\* none so early that it could go within the time a gap may stay unnoticed.
FlushInv ==
    /\ \A a \in Gone : \A b \in kept : at[a] < at[b]
    /\ \A a \in Gone : \/ at[a] < clock - MaxAge
                       \/ \E b \in kept : at[a] < at[b]
    /\ \A a \in Gone : at[a] < clock - (GapCheckAfter + Slack)

\* What is beyond the retention, or soon will be, is told of.
ToldInv ==
    \A a \in Created \cap Waf : at[a] < clock + Slack - retention => a \in told

Safe(a) == a \in stored \cup told

\* The window begins early enough: what lies before it is safe.
WindowInv ==
    pc \in {"fetch", "gap"} =>
        /\ from + Slack <= now
        /\ \A a \in Created \cap Waf : at[a] < from + Slack => Safe(a)

\* While pages are fetched, a hit not seen yet is older than all that was
\* seen, and the next page reaches it.
PagesInv ==
    pc = "fetch" =>
        /\ boundary # None => \/ boundary <= clock - until
                              \/ now - 1 <= clock - until
        /\ \A a \in Created \cap Waf :
              at[a] < now /\ ~Safe(a) /\ a \notin hits =>
                 /\ boundary # None => at[a] <= boundary
                 /\ oldest # None => at[a] <= oldest

\* What an unfinished fetch missed is older than what it found; what a finished
\* one missed is gone.
MissedInv ==
    pc = "gap" =>
        \A a \in Created \cap Waf :
            at[a] < now /\ ~Safe(a) /\ a \notin hits =>
               /\ oldest # None => at[a] <= oldest
               /\ ~truncated =>
                     a \in Gone /\ (oldest = None => at[a] < clock - MaxAge)

\* Once gaps have been looked for, what is not safe is about to be stored.
StoreInv ==
    /\ pc \in {"store", "advance"} =>
          \A a \in Created \cap Waf : at[a] < now => Safe(a) \/ a \in hits
    /\ pc = "advance" => hits = {}

LossInv == FlushInv /\ ToldInv /\ WindowInv /\ PagesInv /\ MissedInv /\ StoreInv
SyncInv == TypeInv /\ LossInv /\ NoSilentLoss

-----------------------------------------------------------------------------
(* Earliest and latest times.                                              *)

\* Of some times there is an earliest.
LEMMA EarliestIs ==
    ASSUME NEW S, S \subseteq Nat, S # {}
    PROVE  Earliest(S) \in S /\ \A t \in S : Earliest(S) <= t
<1> DEFINE R == OpToRel(<, Nat)
<1>1. \E t \in S : \A u \in S : ~(<<u, t>> \in R)
  BY NatLessThanWellFounded, WFMin
<1>2. \A t, u \in S : <<u, t>> \notin R => t <= u
  BY DEF OpToRel
<1>3. \E t \in S : \A u \in S : t <= u
  BY <1>1, <1>2
<1> QED BY <1>3 DEF Earliest

\* Of some times, none of them in the future, there is a latest.
LEMMA LatestIs ==
    ASSUME NEW n \in Nat, NEW S, S \subseteq 0..n, S # {}
    PROVE  Latest(S) \in S
<1> DEFINE ages == {n - t : t \in S}
<1>1. ages \subseteq Nat /\ ages # {}
  <2>1. \A t \in S : n - t \in Nat
    OBVIOUS
  <2> QED BY <2>1
<1>2. Earliest(ages) \in ages /\ \A g \in ages : Earliest(ages) <= g
  BY <1>1, EarliestIs
<1>3. PICK t \in S : n - t = Earliest(ages)
  BY <1>2
<1>4. \A u \in S : n - t <= n - u
  BY <1>2, <1>3
<1>5. \A u \in S : t >= u
  BY <1>4
<1> QED BY <1>5 DEF Latest

-----------------------------------------------------------------------------
(* Types and the clock.                                                    *)

\* What the type invariant says in numbers.
LEMMA Numbers ==
    ASSUME SyncAssumption, TypeInv
    PROVE  /\ clock \in Nat /\ now \in Nat /\ from \in Int
           /\ \A a \in Created : at[a] \in Nat /\ at[a] <= clock
           /\ retention \in Retentions /\ retention \in Nat
           /\ Overlap \in Nat /\ GapCheckAfter \in Nat
           /\ MaxAge \in Nat /\ Slack \in Nat
<1>1. /\ clock \in Nat /\ now \in Nat /\ from \in Int
      /\ \A a \in Created : at[a] \in Nat /\ at[a] <= clock
      /\ retention \in Retentions
  BY DEF TypeInv, TypeOK, ClockInv
<1> QED BY <1>1 DEF SyncAssumption

\* A time noted is absent or past.
LEMMA Times ==
    ASSUME SyncAssumption, TypeInv, NEW t \in TimesSeen, t # None
    PROVE  t \in Nat /\ t <= clock
<1>1. t \in 0..clock /\ clock \in Nat
  BY DEF TypeInv, TypeOK, ClockInv
<1> QED BY <1>1

LEMMA InitType ==
    ASSUME SyncAssumption, Init
    PROVE  TypeInv
<1>1. Created = {} /\ Gone = {}
  BY DEF Init, Created, Gone
<1>2. TypeOK
  <2>1. now \in Nat /\ from \in Int /\ page \in 1..MaxPages
    BY DEF Init, SyncAssumption
  <2> QED BY <1>1, <2>1 DEF Init, TypeOK, TimeOrNone, SyncAssumption
<1>3. ClockInv
  BY <1>1 DEF Init, ClockInv, TimesSeen
<1> QED BY <1>2, <1>3 DEF TypeInv

\* The LAPI and the clock.
LEMMA TickType ==
    ASSUME SyncAssumption, TypeInv, Tick
    PROVE  TypeInv'
<1>1. /\ clock' = clock + 1 /\ (pc # "idle" => clock < now + Slack)
      /\ told' = told \cup Expired(clock + 1 + Slack, retention)
      /\ UNCHANGED <<at, kept, retention, stored, syncedUntil, lastAlertAt, gap,
                     running, pc, now, from, boundary, until, page, hits,
                     oldest, newest, truncated>>
  BY DEF Tick, syncRest, lapiVars, window, outcome
<1>2. Created' = Created /\ clock \in Nat /\ \A a \in Created : at[a] \in Nat
  BY <1>1 DEF Created, TypeInv, TypeOK
<1>3. TypeOK'
  <2>1. told' \subseteq Created \cap Waf
    BY <1>1 DEF TypeInv, TypeOK, Expired
  <2>2. now' \in Nat /\ from' \in Int /\ page' \in 1..MaxPages
    BY <1>1 DEF TypeInv, TypeOK
  <2> QED BY <1>1, <1>2, <2>1, <2>2 DEF TypeInv, TypeOK
<1>4. ClockInv'
  <2>1. TimesSeen' = TimesSeen /\ 0..clock \subseteq 0..clock'
    BY <1>1, <1>2 DEF TimesSeen
  <2>2. TimesSeen' \subseteq (0..clock') \cup {None}
    BY <2>1 DEF TypeInv, ClockInv
  <2>3. pc' # "idle" => now' <= clock' /\ clock' <= now' + Slack
    BY <1>1, <1>2 DEF TypeInv, ClockInv, TypeOK, SyncAssumption
  <2>4. \A a \in Created' : at'[a] <= clock'
    BY <1>1, <1>2 DEF TypeInv, ClockInv
  <2> QED BY <1>1, <2>2, <2>3, <2>4 DEF TypeInv, ClockInv
<1> QED BY <1>3, <1>4 DEF TypeInv

LEMMA ArriveType ==
    ASSUME SyncAssumption, TypeInv, NEW new \in Alerts, Arrive(new)
    PROVE  TypeInv'
<1>1. /\ new \notin Created
      /\ at' = [b \in Created \cup {new} |-> IF b = new THEN clock ELSE at[b]]
      /\ kept' = kept \cup {new}
      /\ UNCHANGED <<clock, retention, told, stored, syncedUntil, lastAlertAt,
                     gap, running, pc, now, from, boundary, until, page, hits,
                     oldest, newest, truncated>>
  BY DEF Arrive, syncRest, window, outcome
<1>2. /\ Created' = Created \cup {new} /\ at'[new] = clock
      /\ \A a \in Created : at'[a] = at[a]
  BY <1>1 DEF Created
<1>3. TypeOK'
  <2>1. now' \in Nat /\ from' \in Int /\ page' \in 1..MaxPages
    BY <1>1 DEF TypeInv, TypeOK
  <2> QED BY <1>1, <1>2, <2>1 DEF TypeInv, TypeOK
<1>4. ClockInv'
  <2>1. TimesSeen' = TimesSeen
    BY <1>1 DEF TimesSeen
  <2>2. \A a \in Created' : at'[a] <= clock'
    BY <1>1, <1>2 DEF TypeInv, TypeOK, ClockInv
  <2> QED BY <1>1, <2>1, <2>2 DEF TypeInv, ClockInv
<1> QED BY <1>3, <1>4 DEF TypeInv

LEMMA FlushType ==
    ASSUME TypeInv, NEW time, Flush(time)
    PROVE  TypeInv'
<1>1. /\ kept' \subseteq kept
      /\ UNCHANGED <<clock, at, retention, told, stored, syncedUntil, lastAlertAt,
                     gap, running, pc, now, from, boundary, until, page, hits,
                     oldest, newest, truncated>>
  BY DEF Flush, syncRest, window, outcome
<1>2. Created' = Created
  BY <1>1 DEF Created
<1>3. TypeOK'
  BY <1>1, <1>2 DEF TypeInv, TypeOK
<1>4. ClockInv'
  BY <1>1, <1>2 DEF TypeInv, ClockInv, TimesSeen
<1> QED BY <1>3, <1>4 DEF TypeInv

LEMMA RetentionType ==
    ASSUME TypeInv, NEW days \in Retentions, SetRetentionDays(days)
    PROVE  TypeInv'
<1>1. /\ retention' = days /\ told' = told \cup Expired(clock + Slack, days)
      /\ UNCHANGED <<clock, at, kept, stored, syncedUntil, lastAlertAt,
                     gap, running, pc, now, from, boundary, until, page, hits,
                     oldest, newest, truncated>>
  BY DEF SetRetentionDays, syncRest, lapiVars, window, outcome
<1>2. Created' = Created
  BY <1>1 DEF Created
<1>3. told' \subseteq Created \cap Waf
  BY <1>1 DEF Expired, TypeInv, TypeOK
<1>4. TypeOK'
  BY <1>1, <1>2, <1>3 DEF TypeInv, TypeOK
<1>5. ClockInv'
  BY <1>1, <1>2 DEF TypeInv, ClockInv, TimesSeen
<1> QED BY <1>4, <1>5 DEF TypeInv

\* The steps of a sync.
LEMMA StartType ==
    ASSUME SyncAssumption, TypeInv, Start
    PROVE  TypeInv'
<1>1. /\ running = FALSE /\ running' = TRUE /\ now' = clock /\ pc' = "fetch"
      /\ from' = WindowStart(clock)
      /\ UNCHANGED <<clock, at, kept, retention, stored, syncedUntil, lastAlertAt,
                     gap, told, boundary, until, page, hits, oldest, newest,
                     truncated>>
  BY DEF Start, lapiRest, lapiVars, outcome, TypeInv, TypeOK
<1>2. Created' = Created /\ pc = "idle"
  BY <1>1 DEF Created, TypeInv, ClockInv
<1>3. from' \in Int /\ (syncedUntil # None => syncedUntil <= clock)
  <2>1. syncedUntil # None => syncedUntil \in Int /\ syncedUntil <= clock
    BY Times DEF TimesSeen
  <2>2. clock \in Int /\ retention \in Int /\ Overlap \in Int
    BY Numbers
  <2> QED BY <1>1, <2>1, <2>2 DEF WindowStart, Larger
<1>4. TypeOK'
  <2>1. now' \in Nat /\ page' \in 1..MaxPages
    BY <1>1 DEF TypeInv, TypeOK
  <2> QED BY <1>1, <1>2, <1>3, <2>1 DEF TypeInv, TypeOK
<1>5. ClockInv'
  <2>1. TimesSeen' = TimesSeen
    BY <1>1 DEF TimesSeen
  <2>2. clock <= clock /\ clock <= clock + Slack
    BY Numbers
  <2> QED BY <1>1, <1>2, <1>3, <2>1, <2>2 DEF TypeInv, ClockInv
<1> QED BY <1>4, <1>5 DEF TypeInv

\* What a page adds to the times noted.
LEMMA PageTimes ==
    ASSUME SyncAssumption, TypeInv, NEW answer \in SUBSET kept, NEW t \in TimesSeen
    PROVE  /\ TimesOf(answer) \cup ({t} \ {None}) \subseteq 0..clock
           /\ TimesOf(answer) \subseteq 0..clock
           /\ answer # {} <=> TimesOf(answer) # {}
<1>1. \A a \in answer : at[a] \in 0..clock
  BY Numbers DEF TypeInv, TypeOK
<1>2. t # None => t \in 0..clock
  BY Times, Numbers
<1> QED BY <1>1, <1>2 DEF TimesOf

LEMMA FetchType ==
    ASSUME SyncAssumption, TypeInv, NEW answer \in SUBSET kept, FetchPage(answer)
    PROVE  TypeInv'
<1> DEFINE Old == TimesOf(answer) \cup ({oldest} \ {None})
           New == TimesOf(answer) \cup ({newest} \ {None})
<1>1. /\ pc = "fetch" /\ hits' = hits \cup HitsOf(answer)
      /\ oldest' = Earliest(Old) /\ newest' = Latest(New)
      /\ UNCHANGED <<clock, at, kept, retention, stored, syncedUntil, lastAlertAt,
                     gap, told, running, now, from>>
  BY DEF FetchPage, lapiRest, lapiVars
<1>2. /\ Old \subseteq 0..clock /\ New \subseteq 0..clock
      /\ TimesOf(answer) \subseteq 0..clock
      /\ answer # {} <=> TimesOf(answer) # {}
  BY PageTimes DEF TimesSeen
<1>3. \A S \in SUBSET (0..clock) : S # {} => Earliest(S) \in S /\ Latest(S) \in S
  <2>1. clock \in Nat /\ 0..clock \subseteq Nat
    BY Numbers
  <2> QED BY <2>1, EarliestIs, LatestIs
<1>4. Earliest({}) = None /\ Latest({}) = None
  BY DEF Earliest, Latest
<1>5. /\ oldest' \in (0..clock) \cup {None} /\ newest' \in (0..clock) \cup {None}
      /\ answer # {} \/ oldest # None => oldest' \in 0..clock
  BY <1>1, <1>2, <1>3, <1>4
<1>6. None \notin 0..clock /\ PageSize # 0 /\ 0..clock \subseteq Int
  BY Numbers DEF SyncAssumption
<1>7. \/ /\ pc' = "gap"
         /\ UNCHANGED <<truncated, boundary, until, page>>
      \/ /\ pc' = "gap" /\ truncated' = TRUE /\ answer # {}
         /\ UNCHANGED <<boundary, until, page>>
      \/ /\ pc' = "fetch" /\ answer # {} /\ boundary' = Earliest(TimesOf(answer))
         /\ page < MaxPages /\ page' = page + 1
         /\ until' = Larger(1, clock - boundary') /\ truncated' = truncated
  BY <1>1, <1>6, FS_EmptySet DEF FetchPage
<1>8. /\ boundary' \in (0..clock) \cup {None} /\ until' \in Int \cup {None}
      /\ boundary' = None <=> until' = None
      /\ boundary' # None \/ truncated' => oldest' # None
      /\ page' \in 1..MaxPages
  <2>1. /\ boundary \in (0..clock) \cup {None} /\ until \in Int \cup {None}
        /\ boundary = None <=> until = None
        /\ boundary # None => oldest # None
        /\ truncated = FALSE /\ page \in 1..MaxPages /\ MaxPages \in Nat
    BY <1>1 DEF TypeInv, ClockInv, TypeOK, TimeOrNone, TimesSeen, SyncAssumption
  <2>2. CASE pc' = "gap" /\ UNCHANGED <<truncated, boundary, until, page>>
    BY <1>5, <1>6, <2>1, <2>2
  <2>3. CASE truncated' = TRUE /\ answer # {} /\ UNCHANGED <<boundary, until, page>>
    BY <1>5, <1>6, <2>1, <2>3
  <2>4. CASE /\ answer # {} /\ boundary' = Earliest(TimesOf(answer))
             /\ page < MaxPages /\ page' = page + 1
             /\ until' = Larger(1, clock - boundary') /\ truncated' = truncated
    <3>1. boundary' \in 0..clock
      BY <1>2, <1>3, <2>4
    <3>2. until' \in Int
      BY <2>4, <3>1, Numbers DEF Larger
    <3>3. None \notin Int
      BY DEF SyncAssumption
    <3>4. page' \in 1..MaxPages
      BY <2>1, <2>4
    <3> QED BY <1>5, <1>6, <2>4, <3>1, <3>2, <3>3, <3>4
  <2> QED BY <1>7, <2>2, <2>3, <2>4
<1>9. Created' = Created /\ hits' \subseteq Created \cap Waf
  BY <1>1 DEF Created, HitsOf, TypeInv, TypeOK
<1>10. TypeOK'
  <2>1. now' \in Nat /\ from' \in Int /\ clock' \in Nat
    BY <1>1, Numbers
  <2>2. {syncedUntil', lastAlertAt', boundary', until', oldest', newest'}
          \subseteq TimeOrNone
    BY <1>1, <1>5, <1>6, <1>8 DEF TypeInv, TypeOK, TimeOrNone
  <2>3. truncated' \in BOOLEAN /\ pc' \in {"gap", "fetch"}
    BY <1>7 DEF TypeInv, TypeOK
  <2> QED BY <1>1, <1>8, <1>9, <2>1, <2>2, <2>3 DEF TypeInv, TypeOK
<1>11. ClockInv'
  <2>1. TimesSeen' \subseteq (0..clock') \cup {None}
    BY <1>1, <1>5, <1>8 DEF TypeInv, ClockInv, TimesSeen
  <2>2. pc' \in {"gap", "fetch"} /\ (pc' = "fetch" => ~truncated')
    BY <1>1, <1>7 DEF TypeInv, ClockInv
  <2> QED BY <1>1, <1>8, <1>9, <2>1, <2>2 DEF TypeInv, ClockInv
<1> QED BY <1>10, <1>11 DEF TypeInv

LEMMA FindGapType ==
    ASSUME SyncAssumption, TypeInv, FindGap
    PROVE  TypeInv'
<1>1. /\ pc = "gap" /\ CheckGap /\ pc' = "store"
      /\ told' = told \cup {a \in Created \cap Waf : Told(a)}
      /\ UNCHANGED <<clock, at, kept, retention, stored, syncedUntil, lastAlertAt,
                     running, now, from, boundary, until, page, hits, oldest,
                     newest, truncated>>
  BY DEF FindGap, lapiRest, lapiVars, window, outcome
<1>2. Created' = Created
  BY <1>1 DEF Created
<1>3. gap' \in {NoGap} \cup [from : Int, to : Int]
  <2>1. /\ gap \in {NoGap} \cup [from : Int, to : Int] /\ from \in Int
        /\ now \in Int /\ MaxAge \in Int
    BY Numbers DEF TypeInv, TypeOK
  <2>2. syncedUntil # None => syncedUntil \in Int
    BY Times DEF TimesSeen
  <2>3. oldest # None => oldest \in Int
    BY Times DEF TimesSeen
  <2>4. CASE truncated
    <3>1. oldest # None
      BY <2>4 DEF TypeInv, ClockInv
    <3> QED BY <1>1, <2>1, <2>3, <2>4, <3>1 DEF CheckGap, RecordGap
  <2>5. CASE ~truncated
    BY <1>1, <2>1, <2>2, <2>3, <2>5 DEF CheckGap, DetectGap, RecordGap
  <2> QED BY <2>4, <2>5
<1>4. TypeOK'
  <2>1. told' \subseteq Created \cap Waf
    BY <1>1 DEF TypeInv, TypeOK
  <2>2. now' \in Nat /\ from' \in Int /\ page' \in 1..MaxPages
    BY <1>1 DEF TypeInv, TypeOK
  <2> QED BY <1>1, <1>2, <1>3, <2>1, <2>2 DEF TypeInv, TypeOK
<1>5. ClockInv'
  <2>1. TimesSeen' = TimesSeen
    BY <1>1 DEF TimesSeen
  <2> QED BY <1>1, <1>2, <2>1 DEF TypeInv, ClockInv
<1> QED BY <1>4, <1>5 DEF TypeInv

LEMMA StoreHitType ==
    ASSUME TypeInv, NEW a, StoreHit(a)
    PROVE  TypeInv'
<1>1. /\ pc = "store" /\ a \in hits /\ stored' = stored \cup {a} /\ hits' = hits \ {a}
      /\ UNCHANGED <<clock, at, kept, retention, syncedUntil, lastAlertAt, gap,
                     told, running, pc, now, from, boundary, until, page, oldest,
                     newest, truncated>>
  BY DEF StoreHit, lapiRest, lapiVars, window
<1>2. Created' = Created
  BY <1>1 DEF Created
<1>3. TypeOK'
  <2>1. hits' \subseteq Created \cap Waf /\ stored' \subseteq Created \cap Waf
    BY <1>1 DEF TypeInv, TypeOK
  <2>2. now' \in Nat /\ from' \in Int /\ page' \in 1..MaxPages
    BY <1>1 DEF TypeInv, TypeOK
  <2> QED BY <1>1, <1>2, <2>1, <2>2 DEF TypeInv, TypeOK
<1>4. ClockInv'
  <2>1. TimesSeen' = TimesSeen
    BY <1>1 DEF TimesSeen
  <2> QED BY <1>1, <1>2, <2>1 DEF TypeInv, ClockInv
<1> QED BY <1>3, <1>4 DEF TypeInv

LEMMA SetLastAlertType ==
    ASSUME SyncAssumption, TypeInv, SetLastAlert
    PROVE  TypeInv'
<1> DEFINE Seen == {newest, lastAlertAt} \ {None}
<1>1. /\ pc = "store" /\ pc' = "advance" /\ hits = {} /\ lastAlertAt' = Latest(Seen)
      /\ UNCHANGED <<clock, at, kept, retention, stored, syncedUntil, gap, told,
                     running, now, from, boundary, until, page, hits, oldest,
                     newest, truncated>>
  BY DEF SetLastAlert, lapiRest, lapiVars, window, outcome
<1>2. Created' = Created
  BY <1>1 DEF Created
<1>3. lastAlertAt' \in (0..clock) \cup {None}
  <2>1. Seen \subseteq 0..clock
    BY DEF TypeInv, ClockInv, TimesSeen
  <2>2. CASE Seen = {}
    BY <1>1, <2>2 DEF Latest
  <2>3. CASE Seen # {}
    BY <1>1, <2>1, <2>3, Numbers, LatestIs
  <2> QED BY <2>2, <2>3
<1>4. TypeOK'
  <2>1. lastAlertAt' \in TimeOrNone
    BY <1>3, Numbers DEF TimeOrNone
  <2>2. now' \in Nat /\ from' \in Int /\ page' \in 1..MaxPages
    BY <1>1 DEF TypeInv, TypeOK
  <2> QED BY <1>1, <1>2, <2>1, <2>2 DEF TypeInv, TypeOK
<1>5. ClockInv'
  <2>1. TimesSeen' \subseteq (0..clock') \cup {None}
    BY <1>1, <1>3 DEF TypeInv, ClockInv, TimesSeen
  <2> QED BY <1>1, <1>2, <2>1 DEF TypeInv, ClockInv
<1> QED BY <1>4, <1>5 DEF TypeInv

LEMMA EndType ==
    ASSUME SyncAssumption, TypeInv, Advance \/ Fail
    PROVE  TypeInv'
<1>1. /\ pc # "idle" /\ pc' = "idle" /\ running' = FALSE
      /\ now' = 0 /\ from' = 0 /\ page' = 1 /\ boundary' = None /\ until' = None
      /\ hits' = {} /\ truncated' = FALSE /\ oldest' = None /\ newest' = None
      /\ syncedUntil' \in {syncedUntil, now}
      /\ UNCHANGED <<clock, at, kept, retention, stored, lastAlertAt, gap, told>>
  BY DEF Advance, Fail, Release, IdleWindow, IdleOutcome, lapiRest, lapiVars
<1>2. Created' = Created
  BY <1>1 DEF Created
<1>3. now \in 0..clock
  <2>1. now <= clock
    BY <1>1 DEF TypeInv, ClockInv
  <2> QED BY <2>1, Numbers
<1>4. TypeOK'
  <2>1. now' \in Nat /\ from' \in Int /\ page' \in 1..MaxPages
    BY <1>1 DEF SyncAssumption
  <2>2. syncedUntil' \in TimeOrNone
    BY <1>1, Numbers DEF TypeInv, TypeOK, TimeOrNone
  <2> QED BY <1>1, <1>2, <2>1, <2>2 DEF TypeInv, TypeOK, TimeOrNone
<1>5. ClockInv'
  <2>1. TimesSeen' \subseteq (0..clock') \cup {None}
    BY <1>1, <1>3 DEF TypeInv, ClockInv, TimesSeen
  <2> QED BY <1>1, <1>2, <2>1 DEF TypeInv, ClockInv
<1> QED BY <1>4, <1>5 DEF TypeInv

LEMMA CleanupType ==
    ASSUME TypeInv, Cleanup
    PROVE  TypeInv'
<1>1. /\ stored' \subseteq stored
      /\ UNCHANGED <<clock, at, kept, retention, syncedUntil, lastAlertAt, gap,
                     told, running, pc, now, from, boundary, until, page, hits,
                     oldest, newest, truncated>>
  BY DEF Cleanup, lapiRest, lapiVars, window, outcome
<1>2. Created' = Created
  BY <1>1 DEF Created
<1>3. TypeOK'
  BY <1>1, <1>2 DEF TypeInv, TypeOK
<1>4. ClockInv'
  BY <1>1, <1>2 DEF TypeInv, ClockInv, TimesSeen
<1> QED BY <1>3, <1>4 DEF TypeInv

LEMMA StutterType == ASSUME TypeInv, UNCHANGED vars PROVE TypeInv'
<1>1. UNCHANGED <<clock, at, kept, stored, syncedUntil, lastAlertAt, retention,
                  gap, running, pc, now, from, boundary, until, page, hits,
                  oldest, newest, truncated, told>>
  BY DEF vars, lapiVars, settings, window, outcome
<1>2. Created' = Created
  BY <1>1 DEF Created
<1>3. TypeOK'
  BY <1>1, <1>2 DEF TypeInv, TypeOK
<1>4. ClockInv'
  BY <1>1, <1>2 DEF TypeInv, ClockInv, TimesSeen
<1> QED BY <1>3, <1>4 DEF TypeInv

\* Every variable holds a value the code could hold, for any alerts and periods.
THEOREM TypeCorrect == Spec => []TypeOK
<1>1. Init => TypeInv
  BY InitType, SyncAssumption
<1>2. TypeInv /\ [Next]_vars => TypeInv'
  <2> SUFFICES ASSUME TypeInv, [Next]_vars PROVE TypeInv'
    OBVIOUS
  <2> USE SyncAssumption
  <2>1. ASSUME NEW answer \in SUBSET kept, FetchPage(answer) PROVE TypeInv'
    BY <2>1, FetchType
  <2>2. CASE Sync
    BY <2>1, <2>2, FindGapType, SetLastAlertType, EndType, StoreHitType DEF Sync
  <2>3. CASE Start \/ Fail \/ Cleanup
    BY <2>3, StartType, EndType, CleanupType
  <2>4. CASE Tick \/ \E a \in Alerts : Arrive(a)
    BY <2>4, TickType, ArriveType
  <2>5. CASE \/ \E time \in 0..MaxTime : Flush(time)
             \/ \E days \in Retentions : SetRetentionDays(days)
    BY <2>5, FlushType, RetentionType
  <2>6. CASE UNCHANGED vars
    BY <2>6, StutterType
  <2> QED BY <2>2, <2>3, <2>4, <2>5, <2>6 DEF Next
<1>3. TypeInv => TypeOK
  BY DEF TypeInv
<1> QED BY <1>1, <1>2, <1>3, PTL DEF Spec

-----------------------------------------------------------------------------
(* The LAPI and the clock lose nothing in silence.                         *)

\* Before the first alert nothing can be lost.
LEMMA InitLoss == ASSUME Init PROVE LossInv /\ NoSilentLoss
<1>1. Created = {} /\ Gone = {}
  BY DEF Init, Created, Gone
<1>2. FlushInv /\ ToldInv /\ WindowInv /\ PagesInv /\ MissedInv /\ StoreInv
  BY <1>1 DEF Init, FlushInv, ToldInv, WindowInv, PagesInv, MissedInv, StoreInv
<1> QED BY <1>1, <1>2 DEF Init, LossInv, NoSilentLoss

LEMMA TickStep ==
    ASSUME SyncAssumption, SyncInv, Tick
    PROVE  SyncInv'
<1> USE DEF SyncInv, LossInv
<1>1. /\ clock' = clock + 1
      /\ told' = told \cup Expired(clock + 1 + Slack, retention)
      /\ UNCHANGED <<at, kept, retention, stored, syncedUntil, lastAlertAt, gap,
                     running, pc, now, from, boundary, until, page, hits,
                     oldest, newest, truncated>>
  BY DEF Tick, syncRest, lapiVars, window, outcome
<1>2. Created' = Created /\ Gone' = Gone
  BY <1>1 DEF Created, Gone
<1>3. \A a : Safe(a) => Safe(a)'
  BY <1>1 DEF Safe
<1>4. FlushInv'
  BY <1>1, <1>2, Numbers DEF FlushInv, Gone
<1>5. ToldInv'
  BY <1>1, <1>2, Numbers DEF ToldInv, Expired
<1>6. WindowInv'
  BY <1>1, <1>2, <1>3 DEF WindowInv
<1>7. PagesInv'
  <2>1. pc = "fetch" /\ boundary # None => boundary \in Int /\ until \in Int
    BY DEF TypeInv, TypeOK, ClockInv, TimeOrNone
  <2> QED BY <1>1, <1>2, <1>3, <2>1, Numbers DEF PagesInv
<1>8. MissedInv'
  <2> SUFFICES ASSUME NEW a \in Created \cap Waf, pc = "gap", at[a] < now,
                      ~Safe(a), a \notin hits
               PROVE  /\ oldest # None => at[a] <= oldest
                      /\ ~truncated => /\ a \in Gone
                                       /\ oldest = None => at[a] < clock' - MaxAge
    BY <1>1, <1>2, <1>3 DEF MissedInv
  <2>1. at[a] < clock - MaxAge => at[a] < clock' - MaxAge
    BY <1>1, Numbers
  <2> QED BY <2>1 DEF MissedInv
<1>9. StoreInv'
  BY <1>1, <1>2, <1>3 DEF StoreInv
<1>10. NoSilentLoss'
  BY <1>1, <1>2 DEF NoSilentLoss
<1> QED BY <1>4, <1>5, <1>6, <1>7, <1>8, <1>9, <1>10, TickType

\* An alert that arrives is as young as can be.
LEMMA ArriveStep ==
    ASSUME SyncAssumption, Timing, SyncInv, NEW new \in Alerts, Arrive(new)
    PROVE  SyncInv'
<1> USE DEF SyncInv, LossInv
<1>1. /\ new \notin Created
      /\ at' = [b \in Created \cup {new} |-> IF b = new THEN clock ELSE at[b]]
      /\ kept' = kept \cup {new}
      /\ UNCHANGED <<clock, retention, told, stored, syncedUntil, lastAlertAt,
                     gap, running, pc, now, from, boundary, until, page, hits,
                     oldest, newest, truncated>>
  BY DEF Arrive, syncRest, window, outcome
<1>2. /\ Created' = Created \cup {new} /\ at'[new] = clock
      /\ \A a \in Created : at'[a] = at[a]
  BY <1>1 DEF Created
<1>3. /\ Gone' = Gone /\ Gone \subseteq Created /\ kept \subseteq Created
      /\ new \notin Gone
  BY <1>1, <1>2 DEF Gone, TypeInv, TypeOK
<1>4. FlushInv'
  <2>1. \A a \in Gone : at[a] < clock
    BY <1>3, Numbers DEF FlushInv
  <2> QED BY <1>1, <1>2, <1>3, <2>1 DEF FlushInv
<1>5. ToldInv'
  <2>1. ~(clock < clock + Slack - retention)
    BY Numbers DEF Timing
  <2> QED BY <1>1, <1>2, <2>1 DEF ToldInv
<1>6. pc # "idle" => ~(clock < now)
  <2>1. pc # "idle" => now <= clock
    BY DEF TypeInv, ClockInv
  <2> QED BY <2>1, Numbers
<1>7. WindowInv'
  <2>1. pc \in {"fetch", "gap"} => ~(clock < from + Slack)
    BY <1>6, Numbers DEF WindowInv
  <2> QED BY <1>1, <1>2, <2>1 DEF WindowInv, Safe
<1>8. PagesInv'
  BY <1>1, <1>2, <1>6 DEF PagesInv, Safe
<1>9. MissedInv'
  BY <1>1, <1>2, <1>3, <1>6 DEF MissedInv, Safe
<1>10. StoreInv'
  BY <1>1, <1>2, <1>6 DEF StoreInv, Safe
<1>11. NoSilentLoss'
  <2>1. syncedUntil # None => syncedUntil \in Nat /\ syncedUntil <= clock
    BY Times DEF TimesSeen
  <2>2. syncedUntil # None => ~(clock < syncedUntil)
    BY <2>1, Numbers
  <2> QED BY <1>1, <1>2, <2>2 DEF NoSilentLoss
<1> QED BY <1>4, <1>5, <1>7, <1>8, <1>9, <1>10, <1>11, ArriveType

\* CrowdSec deletes its oldest alerts.
LEMMA FlushStep ==
    ASSUME SyncAssumption, Timing, SyncInv, NEW time \in Int, Flush(time)
    PROVE  SyncInv'
<1> USE DEF SyncInv, LossInv
<1>1. /\ kept' = {a \in kept : at[a] > time}
      /\ UNCHANGED <<clock, at, retention, told, stored, syncedUntil, lastAlertAt,
                     gap, running, pc, now, from, boundary, until, page, hits,
                     oldest, newest, truncated>>
  BY DEF Flush, syncRest, window, outcome
<1>2. /\ Created' = Created /\ Gone \subseteq Gone' /\ Gone' \subseteq Created
      /\ kept \subseteq Created /\ kept' \subseteq kept
  BY <1>1 DEF Created, Gone, TypeInv, TypeOK
<1>3. \A a \in Gone' : a \in Gone \/ at[a] <= time
  BY <1>1, <1>2, Numbers DEF Gone
<1>4. time < clock - (GapCheckAfter + Slack)
  <2>1. time < clock - MaxAge \/ time < clock - (GapCheckAfter + Slack)
    BY DEF Flush
  <2> QED BY <2>1, Numbers DEF Timing
<1>5. time < clock - MaxAge \/ \E b \in kept' : at[b] > time
  BY <1>1 DEF Flush
<1>6. FlushInv'
  <2>1. ASSUME NEW a \in Gone'
        PROVE  /\ \A b \in kept' : at[a] < at[b]
               /\ at[a] < clock - (GapCheckAfter + Slack)
    BY <1>1, <1>2, <1>3, <1>4, Numbers DEF FlushInv
  <2>2. ASSUME NEW a \in Gone', ~(at[a] < clock - MaxAge)
        PROVE  \E b \in kept' : at[a] < at[b]
    <3>1. CASE at[a] <= time
      BY <1>1, <1>2, <1>5, <2>2, <3>1, Numbers
    <3>2. CASE a \in Gone
      <4>1. PICK b \in kept : at[a] < at[b]
        BY <2>2, <3>2 DEF FlushInv
      <4>2. CASE at[b] <= time
        BY <1>1, <1>2, <1>5, <2>2, <4>1, <4>2, Numbers
      <4>3. CASE at[b] > time
        BY <1>1, <4>1, <4>3
      <4> QED BY <1>2, <4>2, <4>3, Numbers
    <3> QED BY <1>3, <3>1, <3>2
  <2> QED BY <1>1, <2>1, <2>2 DEF FlushInv
<1>7. ToldInv' /\ WindowInv'
  BY <1>1, <1>2 DEF ToldInv, WindowInv, Safe
<1>8. PagesInv'
  BY <1>1, <1>2 DEF PagesInv, Safe
<1>9. MissedInv'
  BY <1>1, <1>2 DEF MissedInv, Safe
<1>10. StoreInv' /\ NoSilentLoss'
  BY <1>1, <1>2 DEF StoreInv, Safe, NoSilentLoss
<1> QED BY <1>6, <1>7, <1>8, <1>9, <1>10, FlushType

\* A shorter retention is told of at once.
LEMMA RetentionStep ==
    ASSUME SyncAssumption, SyncInv, NEW days \in Retentions, SetRetentionDays(days)
    PROVE  SyncInv'
<1> USE DEF SyncInv, LossInv
<1>1. /\ retention' = days
      /\ told' = told \cup Expired(clock + Slack, days)
      /\ UNCHANGED <<clock, at, kept, stored, syncedUntil, lastAlertAt,
                     gap, running, pc, now, from, boundary, until, page, hits,
                     oldest, newest, truncated>>
  BY DEF SetRetentionDays, syncRest, lapiVars, window, outcome
<1>2. Created' = Created /\ Gone' = Gone /\ told \subseteq told'
  BY <1>1 DEF Created, Gone
<1>3. FlushInv'
  <2>1. UNCHANGED <<clock, at, kept>> /\ Gone' = Gone
    BY <1>1, <1>2
  <2> QED BY <2>1 DEF FlushInv
<1>4. ToldInv'
  <2>1. \A a \in Created \cap Waf : at[a] < (clock + Slack) - days => a \in told'
    BY <1>1 DEF Expired
  <2>2. UNCHANGED <<clock, at>> /\ Created' = Created /\ retention' = days
    BY <1>1, <1>2
  <2>3. (clock + Slack) - days = clock + Slack - days
    <3>1. days \in Nat
      BY DEF SyncAssumption
    <3>2. clock \in Nat /\ Slack \in Nat
      BY Numbers
    <3> QED BY <3>1, <3>2
  <2> QED BY <2>1, <2>2, <2>3 DEF ToldInv
<1>5. WindowInv'
  BY <1>1, <1>2 DEF WindowInv, Safe
<1>6. PagesInv'
  BY <1>1, <1>2 DEF PagesInv, Safe
<1>7. MissedInv'
  BY <1>1, <1>2 DEF MissedInv, Safe
<1>8. StoreInv' /\ NoSilentLoss'
  BY <1>1, <1>2 DEF StoreInv, Safe, NoSilentLoss
<1> QED BY <1>3, <1>4, <1>5, <1>6, <1>7, <1>8, RetentionType

\* A stutter keeps the invariant.
LEMMA StutterStep == ASSUME SyncInv, UNCHANGED vars PROVE SyncInv'
<1> USE DEF SyncInv, LossInv
<1>1. /\ UNCHANGED <<clock, at, kept, stored, syncedUntil, lastAlertAt, retention,
                     gap, running, pc, now, from, boundary, until, page, hits,
                     oldest, newest, truncated, told>>
      /\ Created' = Created /\ Gone' = Gone
  BY DEF vars, lapiVars, settings, window, outcome, Created, Gone
<1>2. FlushInv' /\ ToldInv'
  BY <1>1 DEF FlushInv, ToldInv
<1>3. WindowInv'
  BY <1>1 DEF WindowInv, Safe
<1>4. PagesInv'
  BY <1>1 DEF PagesInv, Safe
<1>5. MissedInv'
  BY <1>1 DEF MissedInv, Safe
<1>6. StoreInv' /\ NoSilentLoss'
  BY <1>1 DEF StoreInv, Safe, NoSilentLoss
<1> QED BY <1>2, <1>3, <1>4, <1>5, <1>6, StutterType

-----------------------------------------------------------------------------
(* The steps of a sync lose nothing in silence.                            *)

\* A step of the sync leaves the LAPI alone; what it has told of stays so.
LEMMA LapiKept ==
    ASSUME SyncInv, lapiRest, told \subseteq told'
    PROVE  /\ Created' = Created /\ Gone' = Gone
           /\ UNCHANGED <<clock, at, kept, retention>>
           /\ FlushInv' /\ ToldInv'
<1>1. /\ Created' = Created /\ Gone' = Gone
      /\ UNCHANGED <<clock, at, kept, retention>>
  BY DEF lapiRest, lapiVars, Created, Gone
<1>2. FlushInv'
  BY <1>1 DEF SyncInv, LossInv, FlushInv
<1>3. ToldInv'
  BY <1>1 DEF SyncInv, LossInv, ToldInv
<1> QED BY <1>1, <1>2, <1>3

\* What is safe stays safe while hits are stored, and as long as the sync
\* point stays where it is, nothing new must be safe.
LEMMA SafeKept ==
    ASSUME SyncInv, lapiRest, told \subseteq told', stored \subseteq stored',
           syncedUntil' = syncedUntil
    PROVE  NoSilentLoss' /\ \A a : Safe(a) => Safe(a)'
<1>1. Created' = Created /\ at' = at
  BY LapiKept
<1> QED BY <1>1 DEF SyncInv, NoSilentLoss, Safe

\* What lies before the window is safe: beyond the retention or before the last
\* sync point.
LEMMA StartStep ==
    ASSUME SyncAssumption, Timing, SyncInv, Start
    PROVE  SyncInv'
<1> USE DEF SyncInv, LossInv
<1>1. /\ running = FALSE /\ now' = clock /\ pc' = "fetch"
      /\ from' = WindowStart(clock)
      /\ lapiRest
      /\ UNCHANGED <<stored, syncedUntil, lastAlertAt, gap, told, boundary, until,
                     page, hits, oldest, newest, truncated>>
  BY DEF Start, outcome, TypeInv, TypeOK
<1>2. /\ Created' = Created /\ Gone' = Gone /\ UNCHANGED <<clock, at, kept, retention>>
      /\ FlushInv' /\ ToldInv'
  BY <1>1, LapiKept
<1>3. NoSilentLoss' /\ \A a : Safe(a)' = Safe(a)
  BY <1>1, SafeKept DEF Safe
<1>4. oldest = None /\ boundary = None
  BY <1>1 DEF TypeInv, ClockInv
<1>5. from' + Slack <= clock
      /\ \A a \in Created \cap Waf : at[a] < from' + Slack => Safe(a)
  <2>1. Slack <= retention /\ Slack <= Overlap
    BY Numbers DEF Timing
  <2>2. \A a \in Created \cap Waf : at[a] < clock + Slack - retention => Safe(a)
    BY DEF ToldInv, Safe
  <2>3. syncedUntil # None =>
           /\ syncedUntil \in Int /\ syncedUntil <= clock
           /\ \A a \in Created \cap Waf : at[a] < syncedUntil => Safe(a)
    BY Times DEF TimesSeen, NoSilentLoss, Safe
  <2>4. CASE from' = clock - retention
    BY <2>1, <2>2, <2>4, Numbers
  <2>5. CASE syncedUntil # None /\ from' = syncedUntil - Overlap
    BY <2>1, <2>3, <2>5, Numbers
  <2> QED BY <1>1, <2>4, <2>5 DEF WindowStart, Larger
<1>6. WindowInv'
  BY <1>1, <1>2, <1>3, <1>5 DEF WindowInv
<1>7. PagesInv'
  BY <1>1, <1>4 DEF PagesInv
<1>8. MissedInv' /\ StoreInv'
  BY <1>1 DEF MissedInv, StoreInv
<1> QED BY <1>2, <1>3, <1>6, <1>7, <1>8, StartType

\* A hit that is neither safe nor found yet is not younger than any alert of the
\* next page, and is on it, or on a later one, if CrowdSec still has it.
LEMMA PageReaches ==
    ASSUME SyncAssumption, SyncInv, pc = "fetch",
           NEW answer \in Answers(Larger(1, now - from), until, PageSize),
           NEW a \in Created \cap Waf, at[a] < now, ~Safe(a),
           a \notin hits, a \notin answer
    PROVE  /\ a \in kept => a \in Matching(Larger(1, now - from), until)
           /\ \A b \in answer : at[a] <= at[b]
           /\ \A b \in kept : at[a] < at[b] /\ boundary = None =>
                 b \in Matching(Larger(1, now - from), until)
<1> DEFINE since == Larger(1, now - from)
<1>1. /\ a \in Created /\ answer \subseteq kept /\ kept \subseteq Created
      /\ \A b \in kept : at[b] \in Nat
  BY Numbers DEF SyncInv, TypeInv, TypeOK, Answers, Matching
<1>2. at[a] >= from + Slack
  <2>1. ~(at[a] < from + Slack)
    BY DEF SyncInv, LossInv, WindowInv
  <2> QED BY <1>1, <2>1, Numbers DEF SyncInv
<1>3. since \in Int /\ now - from <= since
  BY Numbers DEF SyncInv, Larger
<1>4. clock - since <= at[a]
  <2>1. clock <= now + Slack
    BY DEF SyncInv, TypeInv, ClockInv
  <2> QED BY <1>1, <1>2, <1>3, <2>1, Numbers DEF SyncInv
<1>5. until # None => at[a] <= clock - until
  <2>1. SUFFICES ASSUME until # None PROVE at[a] <= clock - until
    OBVIOUS
  <2>2. boundary # None /\ boundary \in Nat /\ until \in Int
    BY <2>1, Times DEF SyncInv, TypeInv, ClockInv, TypeOK, TimeOrNone, TimesSeen
  <2>3. /\ at[a] <= boundary
        /\ boundary <= clock - until \/ now - 1 <= clock - until
    BY <2>2 DEF SyncInv, LossInv, PagesInv
  <2>4. at[a] \in Nat /\ now \in Nat /\ clock \in Nat
    BY <1>1, Numbers DEF SyncInv
  <2> QED BY <2>2, <2>3, <2>4
<1>6. a \in kept => a \in Matching(since, until)
  BY <1>1, <1>3, <1>4, <1>5, Numbers DEF SyncInv, Matching
<1>7. \A b \in answer : at[a] <= at[b]
  <2>1. CASE a \in kept
    <3>1. \A b \in answer : at[b] >= at[a]
      BY <1>6, <2>1 DEF Answers
    <3> QED BY <1>1, <2>1, <3>1
  <2>2. CASE a \in Gone
    <3>1. \A b \in answer : at[a] < at[b]
      BY <1>1, <2>2 DEF SyncInv, LossInv, FlushInv
    <3> QED BY <1>1, <3>1, Numbers DEF SyncInv
  <2> QED BY <1>1, <2>1, <2>2 DEF Gone
<1>8. ASSUME NEW b \in kept, at[a] < at[b], boundary = None
      PROVE  b \in Matching(since, until)
  <2>1. until = None
    BY <1>8 DEF SyncInv, TypeInv, ClockInv
  <2>2. at[b] >= clock - since
    BY <1>1, <1>3, <1>4, <1>8, Numbers DEF SyncInv
  <2> QED BY <2>1, <2>2 DEF Matching
<1> QED BY <1>6, <1>7, <1>8

\* A page leaves only hits older than what was found; the last one, only hits
\* that are gone.
LEMMA FetchStep ==
    ASSUME SyncAssumption, SyncInv, NEW answer \in SUBSET kept, FetchPage(answer)
    PROVE  SyncInv'
<1> USE DEF SyncInv, LossInv
<1> DEFINE since == Larger(1, now - from)
           Old == TimesOf(answer) \cup ({oldest} \ {None})
           Missed(a) == at[a] < now /\ ~Safe(a) /\ a \notin hits /\ a \notin answer
<1>1. /\ pc = "fetch" /\ hits' = hits \cup HitsOf(answer)
      /\ answer \in Answers(since, until, PageSize)
      /\ oldest' = Earliest(Old)
      /\ lapiRest /\ UNCHANGED <<stored, syncedUntil, told, now, from>>
  BY DEF FetchPage
<1>2. /\ Created' = Created /\ Gone' = Gone /\ UNCHANGED <<clock, at, kept, retention>>
      /\ FlushInv' /\ ToldInv' /\ NoSilentLoss'
      /\ \A a : Safe(a)' = Safe(a)
  BY <1>1, LapiKept, SafeKept DEF Safe
<1>3. /\ \A a \in Created : at[a] \in Nat
      /\ Old \subseteq Nat /\ TimesOf(answer) \subseteq Nat
      /\ clock \in Nat /\ now \in Nat
  BY Numbers, PageTimes DEF TimesSeen
<1>4. \A a \in Created \cap Waf : a \notin hits' => a \notin hits /\ a \notin answer
  BY <1>1 DEF HitsOf
<1>5. ASSUME NEW a \in Created \cap Waf, Missed(a)
      PROVE  /\ a \in kept => a \in Matching(since, until)
             /\ \A b \in answer : at[a] <= at[b]
             /\ \A b \in kept : at[a] < at[b] /\ boundary = None =>
                   b \in Matching(since, until)
  BY <1>1, <1>5, PageReaches
<1>6. ASSUME NEW a \in Created \cap Waf, Missed(a), oldest' # None
      PROVE  at[a] <= oldest'
  <2>1. oldest # None => at[a] <= oldest
    BY <1>1, <1>6 DEF PagesInv
  <2>2. \A t \in Old : at[a] <= t
    BY <1>5, <1>6, <2>1 DEF TimesOf
  <2>3. Old # {}
    BY <1>1, <1>6 DEF Earliest
  <2> QED BY <1>1, <1>3, <2>2, <2>3, EarliestIs
<1>7. WindowInv'
  BY <1>1, <1>2 DEF WindowInv
<1>8. CASE Cardinality(answer) < PageSize /\ pc' = "gap" /\ truncated' = truncated
  <2>1. answer = Matching(since, until)
    BY <1>1, <1>8 DEF Answers, SyncAssumption
  <2>2. ASSUME NEW a \in Created \cap Waf, Missed(a)
        PROVE  a \in Gone /\ (oldest' = None => at[a] < clock - MaxAge)
    <3>1. a \in Gone
      BY <1>5, <2>1, <2>2 DEF Gone
    <3>2. ASSUME oldest' = None PROVE at[a] < clock - MaxAge
      <4>1. Old = {}
        <5>1. None \notin Nat
          BY DEF SyncAssumption
        <5>2. Old # {} => Earliest(Old) \in Old
          BY <1>3, EarliestIs
        <5> QED BY <1>1, <1>3, <3>2, <5>1, <5>2
      <4>2. answer = {} /\ oldest = None
        BY <4>1 DEF TimesOf
      <4>3. boundary = None
        BY <4>2 DEF TypeInv, ClockInv
      <4> QED BY <1>5, <2>1, <2>2, <3>1, <4>2, <4>3 DEF FlushInv
    <3> QED BY <3>1, <3>2
  <2>3. MissedInv'
    BY <1>1, <1>2, <1>4, <1>6, <2>2 DEF MissedInv
  <2>4. PagesInv' /\ StoreInv'
    BY <1>8 DEF PagesInv, StoreInv
  <2> QED BY <1>2, <1>7, <2>3, <2>4, FetchType
<1>9. CASE pc' = "gap" /\ truncated' = TRUE
  <2>1. MissedInv'
    BY <1>1, <1>2, <1>4, <1>6, <1>9 DEF MissedInv
  <2>2. PagesInv' /\ StoreInv'
    BY <1>9 DEF PagesInv, StoreInv
  <2> QED BY <1>2, <1>7, <2>1, <2>2, FetchType
<1>10. CASE /\ Cardinality(answer) = PageSize /\ pc' = "fetch"
            /\ boundary' = Earliest(TimesOf(answer))
            /\ until' = Larger(1, clock - boundary')
  <2>1. answer # {}
    BY <1>10, FS_EmptySet DEF SyncAssumption
  <2>2. boundary' \in TimesOf(answer) /\ boundary' \in Nat
    <3>1. TimesOf(answer) # {}
      BY <2>1 DEF TimesOf
    <3> QED BY <1>3, <1>10, <3>1, EarliestIs
  <2>3. boundary' <= clock - until' \/ now - 1 <= clock - until'
    <3>1. now <= clock
      BY <1>1 DEF TypeInv, ClockInv
    <3> QED BY <1>3, <1>10, <2>2, <3>1 DEF Larger
  <2>4. ASSUME NEW a \in Created \cap Waf, Missed(a)
        PROVE  at[a] <= boundary'
    BY <1>5, <2>2, <2>4 DEF TimesOf
  <2>5. PagesInv'
    BY <1>1, <1>2, <1>4, <1>6, <2>3, <2>4 DEF PagesInv
  <2>6. MissedInv' /\ StoreInv'
    BY <1>10 DEF MissedInv, StoreInv
  <2> QED BY <1>2, <1>7, <2>5, <2>6, FetchType
<1>11. \/ Cardinality(answer) < PageSize /\ pc' = "gap" /\ truncated' = truncated
       \/ pc' = "gap" /\ truncated' = TRUE
       \/ /\ Cardinality(answer) = PageSize /\ pc' = "fetch"
          /\ boundary' = Earliest(TimesOf(answer))
          /\ until' = Larger(1, clock - boundary')
  BY <1>1 DEF FetchPage
<1> QED BY <1>8, <1>9, <1>10, <1>11

\* What an outage cost is in the gap or where detectGap does not look.
LEMMA FindGapStep ==
    ASSUME SyncAssumption, SyncInv, FindGap
    PROVE  SyncInv'
<1> USE DEF SyncInv, LossInv
<1>1. /\ pc = "gap" /\ CheckGap /\ pc' = "store" /\ lapiRest
      /\ told' = told \cup {a \in Created \cap Waf : Told(a)}
      /\ UNCHANGED <<stored, syncedUntil, now, hits>>
  BY DEF FindGap, window, outcome
<1>2. /\ Created' = Created /\ Gone' = Gone /\ UNCHANGED <<clock, at, kept, retention>>
      /\ FlushInv' /\ ToldInv' /\ NoSilentLoss'
      /\ \A a : Safe(a) => Safe(a)'
  BY <1>1, LapiKept, SafeKept
<1>3. ASSUME NEW a \in Created \cap Waf, at[a] < now, ~Safe(a), a \notin hits
      PROVE  Told(a)
  <2>1. /\ clock \in Nat /\ now \in Nat /\ from \in Int /\ at[a] \in Nat
        /\ MaxAge \in Nat /\ Slack \in Nat /\ GapCheckAfter \in Nat
        /\ None \notin Int
    BY Numbers DEF SyncAssumption
  <2>2. syncedUntil # None => syncedUntil \in Nat /\ syncedUntil <= at[a]
    <3>1. syncedUntil # None => syncedUntil \in Nat
      BY Times DEF TimesSeen
    <3>2. syncedUntil # None => ~(at[a] < syncedUntil)
      BY <1>3 DEF NoSilentLoss, Safe
    <3> QED BY <2>1, <3>1, <3>2
  <2>3. oldest # None => oldest \in Nat /\ at[a] <= oldest
    BY <1>1, <1>3, Times DEF TimesSeen, MissedInv
  <2>4. CASE truncated
    <3>1. oldest # None /\ gap' = [from |-> from, to |-> oldest]
      BY <1>1, <2>4 DEF CheckGap, RecordGap, TypeInv, ClockInv
    <3>2. ~(at[a] < from + Slack)
      BY <1>1, <1>3 DEF WindowInv
    <3>3. from <= at[a] /\ gap' # NoGap
      BY <2>1, <3>1, <3>2 DEF NoGap
    <3> QED BY <2>3, <3>1, <3>3 DEF Told, InGap
  <2>5. CASE ~truncated
    <3>1. a \in Gone /\ (oldest = None => at[a] < clock - MaxAge)
      BY <1>1, <1>3, <2>5 DEF MissedInv
    <3>2. CASE syncedUntil = None \/ lastAlertAt = None \/ at[a] = syncedUntil
      BY <2>5, <3>1, <3>2 DEF Told, Unseen
    <3>3. CASE ~(syncedUntil = None \/ lastAlertAt = None \/ at[a] = syncedUntil)
      <4>1. DetectGap
        <5>1. at[a] < clock - (GapCheckAfter + Slack) /\ clock <= now + Slack
          BY <1>1, <3>1 DEF FlushInv, TypeInv, ClockInv
        <5>2. now - syncedUntil > GapCheckAfter
          BY <2>1, <2>2, <3>3, <5>1
        <5> QED BY <1>1, <2>5, <3>3, <5>2 DEF CheckGap
      <4>2. CASE /\ now - syncedUntil > MaxAge
                 /\ gap' = [from |-> syncedUntil, to |-> now - MaxAge]
        <5>1. CASE at[a] <= now - MaxAge
          BY <2>1, <2>2, <3>3, <4>2, <5>1 DEF Told, InGap, NoGap
        <5>2. CASE at[a] >= now - MaxAge
          BY <2>5, <3>1, <4>2, <5>2 DEF Told, Unseen
        <5> QED BY <2>1, <5>1, <5>2
      <4>3. CASE now - syncedUntil <= MaxAge /\ lastAlertAt <= now - MaxAge
        BY <2>5, <3>1, <4>3 DEF Told, Unseen
      <4>4. CASE oldest = None
        BY <2>5, <3>1, <4>4 DEF Told, Unseen
      <4>5. ~(oldest # None /\ oldest <= syncedUntil)
        BY <2>1, <2>2, <2>3, <3>3
      <4>6. CASE gap' = [from |-> syncedUntil, to |-> oldest] /\ oldest # None
        BY <2>1, <2>2, <2>3, <3>3, <4>6 DEF Told, InGap, NoGap
      <4>7. ~(\E answer \in Answers(ProbeAge + MaxAge, ProbeAge, 1) :
                 ProbeFinds(answer))
        <5>1. SUFFICES ASSUME NEW b \in kept, at[b] <= syncedUntil PROVE FALSE
          BY DEF ProbeFinds, Answers, Matching
        <5>2. at[a] < at[b] /\ at[b] \in Nat
          BY <3>1, Numbers DEF FlushInv, TypeInv, TypeOK
        <5> QED BY <2>1, <2>2, <3>3, <5>1, <5>2
      <4> QED BY <4>1, <4>2, <4>3, <4>4, <4>5, <4>6, <4>7 DEF DetectGap, RecordGap
    <3> QED BY <3>2, <3>3
  <2> QED BY <2>4, <2>5
<1>4. StoreInv'
  <2>1. \A a \in Created \cap Waf : at[a] < now => Safe(a)' \/ a \in hits
    BY <1>1, <1>2, <1>3 DEF Safe
  <2> QED BY <1>1, <1>2, <2>1 DEF StoreInv
<1>5. WindowInv' /\ PagesInv' /\ MissedInv'
  BY <1>1 DEF WindowInv, PagesInv, MissedInv
<1> QED BY <1>2, <1>4, <1>5, FindGapType

\* A hit found is safe once it is stored.
LEMMA StoreStep ==
    ASSUME SyncAssumption, SyncInv, SetLastAlert \/ \E a \in Alerts : StoreHit(a)
    PROVE  SyncInv'
<1> USE DEF SyncInv, LossInv
<1>1. /\ pc = "store" /\ pc' \in {"store", "advance"} /\ lapiRest
      /\ stored \subseteq stored' /\ hits \subseteq hits' \cup stored'
      /\ pc' = "advance" => hits' = {}
      /\ UNCHANGED <<syncedUntil, told, now>>
  BY DEF SetLastAlert, StoreHit, window, outcome
<1>2. /\ Created' = Created /\ at' = at
      /\ FlushInv' /\ ToldInv' /\ NoSilentLoss'
      /\ \A a : Safe(a) => Safe(a)'
  BY <1>1, LapiKept, SafeKept
<1>3. StoreInv'
  <2>1. \A a \in Created \cap Waf : at[a] < now => Safe(a)' \/ a \in hits'
    BY <1>1, <1>2 DEF StoreInv, Safe
  <2> QED BY <1>1, <1>2, <2>1 DEF StoreInv
<1>4. WindowInv' /\ PagesInv' /\ MissedInv'
  BY <1>1 DEF WindowInv, PagesInv, MissedInv
<1> QED BY <1>2, <1>3, <1>4, SetLastAlertType, StoreHitType

\* The sync point moves over what is safe, or does not move.
LEMMA EndStep ==
    ASSUME SyncAssumption, SyncInv, Advance \/ Fail
    PROVE  SyncInv'
<1> USE DEF SyncInv, LossInv
<1>1. /\ pc' = "idle" /\ lapiRest /\ UNCHANGED <<stored, told>>
      /\ \/ syncedUntil' = syncedUntil
         \/ pc = "advance" /\ syncedUntil' = now
  BY DEF Advance, Fail
<1>2. Created' = Created /\ at' = at /\ FlushInv' /\ ToldInv'
  BY <1>1, LapiKept
<1>3. NoSilentLoss'
  <2>1. CASE syncedUntil' = syncedUntil
    BY <1>1, <2>1, SafeKept
  <2>2. CASE pc = "advance" /\ syncedUntil' = now
    BY <1>1, <1>2, <2>2 DEF StoreInv, Safe, NoSilentLoss
  <2> QED BY <1>1, <2>1, <2>2
<1>4. WindowInv' /\ PagesInv' /\ MissedInv' /\ StoreInv'
  BY <1>1 DEF WindowInv, PagesInv, MissedInv, StoreInv
<1> QED BY <1>2, <1>3, <1>4, EndType

\* The cleanup deletes only what is beyond the retention.
LEMMA CleanupStep ==
    ASSUME SyncAssumption, SyncInv, Cleanup
    PROVE  SyncInv'
<1> USE DEF SyncInv, LossInv
<1>1. /\ stored' = stored \ Expired(clock, retention) /\ lapiRest
      /\ UNCHANGED <<syncedUntil, told, pc, now, from, boundary, until, page, hits,
                     oldest, newest, truncated>>
  BY DEF Cleanup, window, outcome
<1>2. /\ Created' = Created /\ Gone' = Gone /\ UNCHANGED <<clock, at, kept, retention>>
      /\ FlushInv' /\ ToldInv'
  BY <1>1, LapiKept
<1>3. \A a \in Created \cap Waf : Safe(a)' = Safe(a)
  <2>1. \A a \in Expired(clock, retention) : a \in told
    <3>1. SUFFICES ASSUME NEW a \in Created \cap Waf, at[a] < clock - retention
                   PROVE  a \in told
      BY DEF Expired
    <3>2. at[a] < clock + Slack - retention
      BY <3>1, Numbers
    <3> QED BY <3>2 DEF ToldInv
  <2> QED BY <1>1, <2>1 DEF Safe
<1>4. WindowInv'
  BY <1>1, <1>2, <1>3 DEF WindowInv
<1>5. PagesInv'
  BY <1>1, <1>2, <1>3 DEF PagesInv
<1>6. MissedInv'
  BY <1>1, <1>2, <1>3 DEF MissedInv
<1>7. StoreInv'
  BY <1>1, <1>2, <1>3 DEF StoreInv
<1>8. NoSilentLoss'
  BY <1>1, <1>2, <1>3 DEF NoSilentLoss, Safe
<1> QED BY <1>2, <1>4, <1>5, <1>6, <1>7, <1>8, CleanupType

\* No WAF hit is lost in silence, whatever the alerts, page sizes and periods,
\* as long as a sync takes no longer than the overlap.
THEOREM NoSilentLossCorrect == Timing => (Spec => []NoSilentLoss)
<1> SUFFICES ASSUME Timing PROVE Spec => []NoSilentLoss
  OBVIOUS
<1> USE SyncAssumption
<1>1. Init => SyncInv
  BY InitType, InitLoss DEF SyncInv
<1>2. SyncInv /\ [Next]_vars => SyncInv'
  <2> SUFFICES ASSUME SyncInv, [Next]_vars PROVE SyncInv'
    OBVIOUS
  <2>1. CASE Sync
    <3>1. ASSUME NEW answer \in SUBSET kept, FetchPage(answer) PROVE SyncInv'
      BY <3>1, FetchStep
    <3> QED BY <2>1, <3>1, FindGapStep, StoreStep, EndStep DEF Sync
  <2>2. CASE Start \/ Fail \/ Cleanup
    BY <2>2, StartStep, EndStep, CleanupStep
  <2>3. CASE Tick \/ \E a \in Alerts : Arrive(a)
    BY <2>3, TickStep, ArriveStep
  <2>4. ASSUME NEW time \in 0..MaxTime, Flush(time) PROVE SyncInv'
    BY <2>4, FlushStep
  <2>5. ASSUME NEW days \in Retentions, SetRetentionDays(days) PROVE SyncInv'
    BY <2>5, RetentionStep
  <2>6. CASE UNCHANGED vars
    BY <2>6, StutterStep
  <2> QED BY <2>1, <2>2, <2>3, <2>4, <2>5, <2>6 DEF Next
<1>3. SyncInv => NoSilentLoss
  BY DEF SyncInv
<1> QED BY <1>1, <1>2, <1>3, PTL DEF Spec
=============================================================================
