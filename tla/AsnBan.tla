------------------------------- MODULE AsnBan -------------------------------
(***************************************************************************)
(* Banning the address ranges of an autonomous system (AsnBlockService,    *)
(* AsnController): an intent is a row, pushing it posts one CrowdSec       *)
(* decision for each range, revoking it deletes the decisions that carry   *)
(* its reason tag, and the switch to the light profile may revoke them     *)
(* all.  Nothing is locked: every read, every write of a row and every     *)
(* call of the LAPI is a step, and requests of several admins interleave.  *)
(*                                                                         *)
(* The reason tag of an intent is its AS number and is not kept apart.     *)
(***************************************************************************)
EXTENDS Integers, FiniteSets

CONSTANTS
    Threads,        \* request threads of the panel
    Ids,            \* ids of rows
    Asns, Ranges,   \* AS numbers, ranges an AS may announce
    PageSize, MaxPages,     \* LIST_PAGE_SIZE, LIST_MAX_PAGES
    MaxRequests, MaxBans,   \* bounds: requests, decisions ever made
    MaxFaults               \* bound: failed calls, expiries, stops

ASSUME AsnAssumption ==
    /\ IsFiniteSet(Ranges)
    /\ {MaxRequests, MaxBans, MaxFaults} \subseteq Nat
    /\ {PageSize, MaxPages} \subseteq Nat \ {0}

VARIABLES
    profile,        \* setting: protection profile
    rows,           \* table AsBlockIntent: id -> row
    bans,           \* decisions of the LAPI that carry a tag of the panel
    req,            \* what each thread is doing, with its locals
    requests, lastBan, faults,   \* counters of the bounds
    excused         \* history: AS numbers whose rows and bans may disagree

counters == <<requests, lastBan, faults>>
vars == <<profile, rows, bans, req, counters, excused>>

Profiles == {"light", "manual", "strict"}
Statuses == {"candidate", "pending", "active", "failed", "revoked"}
\* lastError: never set, cleared, some ranges failed, or a code of failure.
Errors == {"null", "", "partial", "code"}
\* `fed` is history: the ranges of the push that made the row active.
Rows == [asn : Asns, status : Statuses, err : Errors, fed : SUBSET Ranges]
Bans == [id : 1..MaxBans, asn : Asns, range : Ranges]

CanCreate == profile \in {"manual", "strict"}

\* pc of a request; `rows` are the rows it read, `todo` what is left of its
\* loop (ranges, ids of decisions or ids of rows).
Idle == [pc |-> "idle", asns |-> {}, rows |-> <<>>, todo |-> {},
         feed |-> {}, ok |-> FALSE, fail |-> FALSE, page |-> 0]

Quiet == \A t \in Threads : req[t] = Idle
Pushing(a) == \E t \in Threads :
    req[t].pc \in {"pend", "fetch", "ban"} /\ a \in req[t].asns
Revokers == {t \in Threads : req[t].pc \in {"delete", "list", "sweep",
                                            "select", "mark", "light"}}
\* Deleting while another request pages through the list shifts its pages.
Listing == \E t \in Threads : req[t].pc = "list"

Init ==
    /\ profile \in Profiles /\ rows = <<>> /\ bans = {}
    /\ req = [t \in Threads |-> Idle]
    /\ requests = 0 /\ lastBan = 0 /\ faults = 0
    /\ excused = {}

Begin(t, r) ==
    /\ req[t] = Idle /\ requests < MaxRequests
    /\ requests' = requests + 1
    /\ req' = [req EXCEPT ![t] = r]
    /\ UNCHANGED <<lastBan, faults>>

Goto(t, r) == req' = [req EXCEPT ![t] = r] /\ UNCHANGED requests
End(t) == Goto(t, Idle)
Fault == faults < MaxFaults /\ faults' = faults + 1
Save(i, r) == rows' = [rows EXCEPT ![i] = r]

-----------------------------------------------------------------------------
(* Intents.                                                                *)

\* addIntent, which checks the profile, and suggestCandidates, which also
\* looks whether the AS has a row; both insert afterwards.
AddIntent(t, a) ==
    /\ CanCreate
    /\ Begin(t, [Idle EXCEPT !.pc = "add", !.asns = {a}])
    /\ UNCHANGED <<profile, rows, bans, excused>>

SuggestCandidate(t, a) ==
    /\ profile = "strict" /\ \A i \in DOMAIN rows : rows[i].asn # a
    /\ Begin(t, [Idle EXCEPT !.pc = "suggest", !.asns = {a}])
    /\ UNCHANGED <<profile, rows, bans, excused>>

Insert(t) ==
    /\ req[t].pc \in {"add", "suggest"}
    /\ \E i \in Ids \ DOMAIN rows, a \in req[t].asns :
          rows' = [j \in DOMAIN rows \cup {i} |->
                     IF j # i THEN rows[j]
                     ELSE [asn |-> a, err |-> "null", fed |-> {},
                           status |-> IF req[t].pc = "add" THEN "pending"
                                      ELSE "candidate"]]
    /\ End(t)
    /\ UNCHANGED <<profile, bans, lastBan, faults, excused>>

-----------------------------------------------------------------------------
(* pushIntent.                                                             *)

PushStart(t, i) ==
    /\ CanCreate /\ i \in DOMAIN rows
    /\ Begin(t, [Idle EXCEPT !.pc = "pend", !.asns = {rows[i].asn},
                             !.rows = [j \in {i} |-> rows[i]]])
    /\ excused' = IF Revokers # {} THEN excused \cup {rows[i].asn}
                  ELSE excused
    /\ UNCHANGED <<profile, rows, bans>>

PushPend(t) ==
    /\ req[t].pc = "pend"
    /\ \E i \in DOMAIN req[t].rows :
          LET row == [req[t].rows[i] EXCEPT !.status = "pending", !.err = ""]
          IN  /\ Save(i, row)
              /\ Goto(t, [req[t] EXCEPT !.pc = "fetch", !.rows[i] = row])
    /\ UNCHANGED <<profile, bans, lastBan, faults, excused>>

\* The final write of every path: all columns of the row read at the start.
Conclude(t, status, err, fed) ==
    \E i \in DOMAIN req[t].rows :
       /\ Save(i, [req[t].rows[i] EXCEPT !.status = status, !.err = err,
                                          !.fed = fed])
       /\ End(t)

\* The feeds of an AS, of which either may fail, give any set of ranges.
PushFetch(t) ==
    /\ req[t].pc = "fetch"
    /\ \E feed \in SUBSET Ranges :
          \/ /\ feed = {} /\ Conclude(t, "failed", "code", {})
          \/ /\ feed # {}
             /\ Goto(t, [req[t] EXCEPT !.pc = "ban", !.todo = feed,
                                       !.feed = feed])
             /\ UNCHANGED rows
    /\ UNCHANGED <<profile, bans, lastBan, faults, excused>>

Posted(a, r) ==
    /\ lastBan < MaxBans /\ lastBan' = lastBan + 1
    /\ bans' = bans \cup {[id |-> lastBan + 1, asn |-> a, range |-> r]}

\* Mutant: a range that failed is not counted.
BanNextUncounted(t, r, okay) ==
    Goto(t, [req[t] EXCEPT !.todo = @ \ {r}, !.ok = @ \/ okay])
BanNext(t, r, okay) ==
    Goto(t, [req[t] EXCEPT !.todo = @ \ {r}, !.ok = @ \/ okay,
                           !.fail = @ \/ ~okay])

\* banRange.  The answer of a ban that was made may be lost.
PushBan(t) ==
    /\ req[t].pc = "ban"
    /\ \E r \in req[t].todo, a \in req[t].asns :
          \/ Posted(a, r) /\ BanNext(t, r, TRUE) /\ UNCHANGED faults
          \/ Posted(a, r) /\ BanNext(t, r, FALSE) /\ Fault
          \/ /\ BanNext(t, r, FALSE) /\ Fault
             /\ UNCHANGED <<bans, lastBan>>
    /\ UNCHANGED <<profile, rows, excused>>

\* The login is refused or the LAPI cannot be reached: the push stops.
\* Mutant: without writing the row.
StopSilently(t) == End(t) /\ UNCHANGED rows
StopFailed(t) == Conclude(t, "failed", "code", {})

PushStop(t) ==
    /\ req[t].pc = "ban" /\ req[t].todo # {} /\ Fault
    /\ StopFailed(t)
    /\ UNCHANGED <<profile, bans, lastBan, excused>>

PushDone(t) ==
    /\ req[t].pc = "ban" /\ req[t].todo = {}
    /\ IF ~req[t].ok THEN Conclude(t, "failed", "code", {})
       ELSE Conclude(t, "active", IF req[t].fail THEN "partial" ELSE "",
                     req[t].feed)
    /\ UNCHANGED <<profile, bans, lastBan, faults, excused>>

-----------------------------------------------------------------------------
(* Revoking the intents of one AS: revokeIntent, revokeByReasonTag.        *)

RevokeStart(t, i) ==
    /\ i \in DOMAIN rows
    /\ LET a == rows[i].asn
       IN  /\ Begin(t, [Idle EXCEPT !.pc = "delete", !.asns = {a}])
           /\ excused' = IF Listing THEN Asns
                         ELSE IF Pushing(a) \/ Revokers # {}
                              THEN excused \cup {a} ELSE excused \ {a}
    /\ UNCHANGED <<profile, rows, bans>>

\* Mutant: the decisions stay.
DeletedNone(as) == {}
Deleted(as) == {b \in bans : b.asn \in as}

\* DELETE /v1/decisions?scenario=..., one call.
RevokeDelete(t) ==
    /\ req[t].pc = "delete"
    /\ bans' = bans \ Deleted(req[t].asns)
    /\ Goto(t, [req[t] EXCEPT !.pc = "select"])
    /\ UNCHANGED <<profile, rows, lastBan, faults, excused>>

\* It fails, after the LAPI has deleted or not.
RevokeFails(t) ==
    /\ req[t].pc = "delete" /\ Fault
    /\ bans' \in {bans, bans \ Deleted(req[t].asns)}
    /\ excused' = excused \cup req[t].asns
    /\ End(t)
    /\ UNCHANGED <<profile, rows, lastBan>>

-----------------------------------------------------------------------------
(* Switching the profile: setProfile, revokeAllWebuiAsnBans.               *)

SetProfile(p) ==
    /\ requests < MaxRequests /\ requests' = requests + 1
    /\ p # profile /\ profile' = p
    /\ UNCHANGED <<rows, bans, req, lastBan, faults, excused>>

RevokeAllStart(t) ==
    /\ profile # "light"
    /\ Begin(t, [Idle EXCEPT !.pc = "list", !.asns = Asns])
    /\ excused' = IF Revokers # {} THEN Asns ELSE {a \in Asns : Pushing(a)}
    /\ UNCHANGED <<profile, rows, bans>>

\* The decisions at positions offset + 1 to offset + PageSize, oldest first.
Position(b) == Cardinality({c \in bans : c.id <= b.id})
PageAt(n) ==
    {b \in bans : Position(b) > n * PageSize
                  /\ Position(b) <= (n + 1) * PageSize}

\* Mutant: the number of pages is not limited.
LastPageShort(t) == Cardinality(PageAt(req[t].page)) < PageSize
LastPage(t) ==
    \/ Cardinality(PageAt(req[t].page)) < PageSize
    \/ req[t].page + 1 = MaxPages

\* listDecisions, one page.  What lies beyond the last page is missed.
ListPage(t) ==
    /\ req[t].pc = "list"
    /\ LET found == req[t].todo \cup PageAt(req[t].page)
       IN  IF LastPage(t)
           THEN /\ Goto(t, [req[t] EXCEPT !.pc = "sweep", !.todo = found])
                /\ excused' = IF req[t].page + 1 = MaxPages
                              THEN excused \cup {b.asn : b \in bans \ found}
                              ELSE excused
           ELSE /\ Goto(t, [req[t] EXCEPT !.todo = found, !.page = @ + 1])
                /\ UNCHANGED excused
    /\ UNCHANGED <<profile, rows, bans, lastBan, faults>>

ListFails(t) ==
    /\ req[t].pc = "list" /\ Fault /\ End(t)
    /\ excused' = Asns
    /\ UNCHANGED <<profile, rows, bans, lastBan>>

\* deleteDecision.  A decision that is gone is refused and passed over.
Sweep(t) ==
    /\ req[t].pc = "sweep"
    /\ \E b \in req[t].todo :
          /\ bans' = bans \ {b}
          /\ Goto(t, [req[t] EXCEPT !.todo = @ \ {b}])
    /\ excused' = IF Listing THEN Asns ELSE excused
    /\ UNCHANGED <<profile, rows, lastBan, faults>>

\* The LAPI refuses for a reason of its own: passed over as well.
SweepRefused(t) ==
    /\ req[t].pc = "sweep" /\ Fault
    /\ \E b \in req[t].todo \cap bans :
          /\ Goto(t, [req[t] EXCEPT !.todo = @ \ {b}])
          /\ excused' = excused \cup {b.asn}
    /\ UNCHANGED <<profile, rows, bans, lastBan>>

\* No login, no connection or no answer: the whole request fails.
SweepFails(t) ==
    /\ req[t].pc = "sweep" /\ Fault
    /\ \E b \in req[t].todo : bans' \in {bans, bans \ {b}}
    /\ excused' = Asns
    /\ End(t)
    /\ UNCHANGED <<profile, rows, lastBan>>

\* Both revocations then read the rows they concern ...
Select(t) ==
    /\ \/ req[t].pc = "select"
       \/ req[t].pc = "sweep" /\ req[t].todo = {}
    /\ LET chosen == {i \in DOMAIN rows : rows[i].asn \in req[t].asns}
       IN  Goto(t, [req[t] EXCEPT
                      !.pc = IF req[t].pc = "select" THEN "mark" ELSE "light",
                      !.rows = [i \in chosen |-> rows[i]], !.todo = chosen])
    /\ UNCHANGED <<profile, rows, bans, lastBan, faults, excused>>

\* ... and write each back whole, but for columns that are null.
Mark(t) ==
    /\ req[t].pc \in {"mark", "light"}
    /\ \E i \in req[t].todo :
          LET row == req[t].rows[i]
          IN  /\ Save(i, [row EXCEPT
                            !.status = "revoked",
                            !.err = IF @ = "null" THEN rows[i].err ELSE @])
              /\ Goto(t, [req[t] EXCEPT !.todo = @ \ {i}])
    /\ UNCHANGED <<profile, bans, lastBan, faults, excused>>

RevokeDone(t) ==
    /\ req[t].pc = "mark" /\ req[t].todo = {}
    /\ End(t)
    /\ UNCHANGED <<profile, rows, bans, lastBan, faults, excused>>

SwitchToLight(t) ==
    /\ req[t].pc = "light" /\ req[t].todo = {}
    /\ profile' = "light"
    /\ End(t)
    /\ UNCHANGED <<rows, bans, lastBan, faults, excused>>

-----------------------------------------------------------------------------
(* What happens besides.                                                   *)

\* A decision runs out; its row stays as it is.
Expire(b) ==
    /\ Fault /\ bans' = bans \ {b}
    /\ excused' = IF Listing THEN Asns ELSE excused \cup {b.asn}
    /\ UNCHANGED <<profile, rows, req, requests, lastBan>>

\* The panel stops and starts again: requests under way are gone.
Restart ==
    /\ ~Quiet /\ Fault
    /\ req' = [t \in Threads |-> Idle]
    /\ excused' = Asns
    /\ UNCHANGED <<profile, rows, bans, requests, lastBan>>

Push(t) ==
    \/ PushPend(t) \/ PushFetch(t) \/ PushBan(t) \/ PushStop(t) \/ PushDone(t)
Revoke(t) ==
    \/ RevokeDelete(t) \/ RevokeFails(t) \/ Select(t) \/ Mark(t)
    \/ RevokeDone(t)
RevokeAll(t) ==
    \/ ListPage(t) \/ ListFails(t) \/ Sweep(t) \/ SweepRefused(t)
    \/ SweepFails(t) \/ SwitchToLight(t)

Next ==
    \/ \E t \in Threads :
          \/ \E a \in Asns : AddIntent(t, a) \/ SuggestCandidate(t, a)
          \/ \E i \in Ids : PushStart(t, i) \/ RevokeStart(t, i)
          \/ RevokeAllStart(t)
          \/ Insert(t) \/ Push(t) \/ Revoke(t) \/ RevokeAll(t)
    \/ \E p \in Profiles : SetProfile(p)
    \/ \E b \in bans : Expire(b)
    \/ Restart

Spec == Init /\ [][Next]_vars

-----------------------------------------------------------------------------
(* Properties.                                                             *)

Pcs == {"idle", "add", "suggest", "pend", "fetch", "ban", "delete", "list",
        "sweep", "select", "mark", "light"}
IsTable(table) == /\ DOMAIN table \subseteq Ids
                  /\ \A i \in DOMAIN table : table[i] \in Rows
IsRequest(r) ==
    /\ DOMAIN r = DOMAIN Idle
    /\ r.pc \in Pcs /\ r.asns \subseteq Asns /\ IsTable(r.rows)
    /\ r.todo \subseteq Ranges \cup Ids \cup Bans /\ r.feed \subseteq Ranges
    /\ {r.ok, r.fail} \subseteq BOOLEAN /\ r.page \in 0..MaxPages - 1

\* Every row, decision and request is well formed.
TypeOK ==
    /\ profile \in Profiles
    /\ IsTable(rows) /\ bans \subseteq Bans
    /\ DOMAIN req = Threads /\ \A t \in Threads : IsRequest(req[t])
    /\ requests \in 0..MaxRequests /\ lastBan \in 0..MaxBans
    /\ faults \in 0..MaxFaults /\ excused \subseteq Asns

\* When nothing is under way, an AS all of whose intents the page shows as
\* revoked has no bans left, unless a push, a failed or refused call, a
\* second revocation or the end of the list came in between (excused); one
\* more revocation that nothing disturbs repairs even that.
\* (revokeByReasonTag, revokeAllWebuiAsnBans, CrowdSecClient.deleteMatching)
RevokedMeansGone ==
    Quiet => \A a \in Asns \ excused :
        (\A i \in DOMAIN rows : rows[i].asn = a => rows[i].status = "revoked")
          => \A b \in bans : b.asn # a

\* When nothing is under way, an active intent without an error has a ban
\* for every range of its push, with the same exceptions.  (pushIntent
\* against a revocation by another request, which marks rows it read before)
ActiveMeansBanned ==
    Quiet => \A i \in DOMAIN rows :
        rows[i].status = "active" /\ rows[i].err = ""
        /\ rows[i].asn \notin excused
          => \A r \in rows[i].fed :
               \E b \in bans : b.asn = rows[i].asn /\ b.range = r

\* A row is pending only until its first push or during one: whatever fails,
\* a push leaves another status.  (the catch blocks of pushIntent)
PushIsConcluded ==
    Quiet => \A i \in DOMAIN rows :
        rows[i].status = "pending" /\ rows[i].asn \notin excused
          => rows[i].err = "null"
=============================================================================
