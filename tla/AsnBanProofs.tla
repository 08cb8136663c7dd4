---------------------------- MODULE AsnBanProofs ----------------------------
(***************************************************************************)
(* What holds of banning autonomous systems for any AS numbers, ranges,    *)
(* rows, page sizes and any number of requests at once.                    *)
(***************************************************************************)
EXTENDS AsnBan, FiniteSetTheorems, TLAPS

-----------------------------------------------------------------------------
(* Inductive invariants.                                                   *)

Tables == UNION {[ids -> Rows] : ids \in SUBSET Ids}
Requests == [pc : Pcs, asns : SUBSET Asns, rows : Tables,
             todo : SUBSET (Ranges \cup Ids \cup Bans), feed : SUBSET Ranges,
             ok : BOOLEAN, fail : BOOLEAN, page : 0..MaxPages - 1]

\* The type invariant with requests as records of one set.
StateType ==
    /\ profile \in Profiles /\ rows \in Tables /\ bans \subseteq Bans
    /\ req \in [Threads -> Requests]
    /\ requests \in 0..MaxRequests /\ lastBan \in 0..MaxBans
    /\ faults \in 0..MaxFaults /\ excused \subseteq Asns

\* What a request holds at each of its steps: a push one row and the ranges
\* still to ban, a revocation decisions to delete or rows to mark.
Holds(r) ==
    /\ r.pc \in {"pend", "fetch", "ban"} => \E i \in Ids : DOMAIN r.rows = {i}
    /\ r.pc = "ban" => r.todo \subseteq Ranges
    /\ r.pc \in {"list", "sweep"} => r.todo \subseteq Bans
    /\ r.pc \in {"mark", "light"} => r.todo \subseteq DOMAIN r.rows

LocalsInv == \A t \in Threads : Holds(req[t])

\* Request r will write another status to row i: it is pushing that row, or
\* revoking its AS a and has not yet come to the row.
WillConclude(r, i, a) ==
    \/ r.pc \in {"fetch", "ban"} /\ i \in DOMAIN r.rows
    \/ r.pc \in {"delete", "list", "sweep", "select"} /\ a \in r.asns
    \/ r.pc \in {"mark", "light"} /\ i \in r.todo

\* A row is left pending by a push only while somebody will conclude it.
PendingInv ==
    \A i \in DOMAIN rows :
        rows[i].status = "pending" /\ rows[i].err # "null"
        /\ rows[i].asn \notin excused
          => \E t \in Threads : WillConclude(req[t], i, rows[i].asn)

PushInv == StateType /\ LocalsInv /\ PendingInv

-----------------------------------------------------------------------------
(* Lemmas about tables and requests.                                       *)

\* A table in the sense of the type invariant.
LEMMA TableType ==
    ASSUME NEW table \in Tables
    PROVE  IsTable(table)
BY DEF Tables, IsTable

\* Writing a row, or reading some rows, gives a table again.
LEMMA TableWrite ==
    ASSUME NEW table \in Tables, NEW i, NEW row \in Rows
    PROVE  /\ [table EXCEPT ![i] = row] \in Tables
           /\ DOMAIN [table EXCEPT ![i] = row] = DOMAIN table
<1>1. PICK ids \in SUBSET Ids : table \in [ids -> Rows]
  BY DEF Tables
<1>2. [table EXCEPT ![i] = row] \in [ids -> Rows]
  BY <1>1
<1> QED BY <1>1, <1>2 DEF Tables

LEMMA TableRead ==
    ASSUME NEW table \in Tables, NEW ids \in SUBSET (DOMAIN table)
    PROVE  /\ [i \in ids |-> table[i]] \in Tables
           /\ DOMAIN [i \in ids |-> table[i]] = ids
<1>1. ids \in SUBSET Ids /\ \A i \in ids : table[i] \in Rows
  BY TableType DEF IsTable
<1>2. [i \in ids |-> table[i]] \in [ids -> Rows]
  BY <1>1
<1> QED BY <1>1, <1>2 DEF Tables

\* A request that does nothing.
LEMMA IdleType == ASSUME AsnAssumption PROVE Idle \in Requests /\ Holds(Idle)
<1>1. <<>> \in Tables
  <2>1. <<>> \in [{} -> Rows]
    OBVIOUS
  <2> QED BY <2>1 DEF Tables
<1>2. 0 \in 0..MaxPages - 1
  BY DEF AsnAssumption
<1> QED BY <1>1, <1>2 DEF Idle, Requests, Pcs, Holds

\* The step of one request leaves the locals of the others alone.
LEMMA Moved ==
    ASSUME PushInv, NEW t \in Threads, NEW r \in Requests, Holds(r),
           req' = [req EXCEPT ![t] = r]
    PROVE  req' \in [Threads -> Requests] /\ LocalsInv'
<1>1. req' \in [Threads -> Requests]
  BY DEF PushInv, StateType
<1>2. \A u \in Threads : req'[u] = IF u = t THEN r ELSE req[u]
  BY DEF PushInv, StateType
<1> QED BY <1>1, <1>2 DEF PushInv, LocalsInv

\* It leaves a pending row to a request that still concludes it, if it
\* does not write the row and was not that request itself.
LEMMA PendingKept ==
    ASSUME PushInv, NEW t \in Threads, NEW r, req' = [req EXCEPT ![t] = r],
           \A i \in DOMAIN rows' :
               rows'[i].status = "pending" /\ rows'[i].err # "null"
               /\ rows'[i].asn \notin excused'
                 => \/ WillConclude(r, i, rows'[i].asn)
                    \/ /\ i \in DOMAIN rows /\ rows'[i] = rows[i]
                       /\ rows[i].asn \notin excused
                       /\ ~WillConclude(req[t], i, rows[i].asn)
    PROVE  PendingInv'
<1>1. \A u \in Threads : req'[u] = IF u = t THEN r ELSE req[u]
  BY DEF PushInv, StateType
<1> SUFFICES ASSUME NEW i \in DOMAIN rows', rows'[i].status = "pending",
                    rows'[i].err # "null", rows'[i].asn \notin excused'
             PROVE  \E u \in Threads : WillConclude(req'[u], i, rows'[i].asn)
  BY DEF PendingInv, WillConclude
<1>2. CASE WillConclude(r, i, rows'[i].asn)
  BY <1>1, <1>2
<1>3. CASE /\ i \in DOMAIN rows /\ rows'[i] = rows[i]
           /\ rows[i].asn \notin excused
           /\ ~WillConclude(req[t], i, rows[i].asn)
  <2>1. PICK u \in Threads : WillConclude(req[u], i, rows[i].asn)
    BY <1>3 DEF PushInv, PendingInv
  <2>2. u # t
    BY <1>3, <2>1
  <2> QED BY <1>1, <1>3, <2>1, <2>2
<1> QED BY <1>2, <1>3

-----------------------------------------------------------------------------
(* The start and the first steps of requests.                              *)

\* Nothing is under way at the start.
LEMMA InitInv == ASSUME AsnAssumption, Init PROVE PushInv
<1>1. <<>> \in Tables /\ DOMAIN <<>> = {}
  BY IdleType DEF Idle, Requests
<1>2. StateType
  BY <1>1, IdleType DEF Init, StateType, AsnAssumption
<1>3. LocalsInv /\ PendingInv
  BY <1>1, IdleType DEF Init, LocalsInv, PendingInv
<1> QED BY <1>2, <1>3 DEF PushInv

\* An idle request concludes nothing, so one that starts loses nothing.
LEMMA StartStep ==
    ASSUME AsnAssumption, PushInv, NEW t \in Threads,
           \/ \E a \in Asns : AddIntent(t, a) \/ SuggestCandidate(t, a)
           \/ \E i \in Ids : PushStart(t, i) \/ RevokeStart(t, i)
           \/ RevokeAllStart(t)
    PROVE  PushInv'
<1> USE DEF PushInv
<1>1. /\ req[t] = Idle /\ requests < MaxRequests /\ requests' = requests + 1
      /\ UNCHANGED <<profile, rows, bans, lastBan, faults>>
  BY DEF AddIntent, SuggestCandidate, PushStart, RevokeStart, RevokeAllStart,
     Begin
<1>2. \A i, a : ~WillConclude(req[t], i, a)
  BY <1>1 DEF WillConclude, Idle
<1>3. \E r \in Requests :
        /\ req' = [req EXCEPT ![t] = r] /\ Holds(r)
        /\ \/ excused \subseteq excused'
           \/ r.pc = "delete" /\ \E a \in r.asns : excused \ {a} \subseteq excused'
           \/ r.pc = "list" /\ r.asns = Asns
  <2>1. ASSUME NEW a \in Asns, AddIntent(t, a) \/ SuggestCandidate(t, a)
        PROVE  <1>3!:
    <3> DEFINE r(pc) == [Idle EXCEPT !.pc = pc, !.asns = {a}]
    <3>1. \A pc \in {"add", "suggest"} : r(pc) \in Requests /\ Holds(r(pc))
      BY IdleType DEF Idle, Requests, Holds, Pcs
    <3> QED BY <2>1, <3>1 DEF AddIntent, SuggestCandidate, Begin
  <2>2. ASSUME NEW i \in Ids, PushStart(t, i)
        PROVE  <1>3!:
    <3> DEFINE table == [j \in {i} |-> rows[i]]
               r == [Idle EXCEPT !.pc = "pend", !.asns = {rows[i].asn},
                                 !.rows = table]
    <3>1. i \in DOMAIN rows /\ rows[i] \in Rows
      BY <2>2, TableType DEF PushStart, StateType, IsTable
    <3>2. table \in Tables /\ DOMAIN table = {i}
      <4>1. table \in [{i} -> Rows]
        BY <3>1
      <4> QED BY <4>1 DEF Tables
    <3>3. req' = [req EXCEPT ![t] = r] /\ excused \subseteq excused'
      BY <2>2 DEF PushStart, Begin
    <3> HIDE DEF table
    <3>4. r \in Requests /\ Holds(r)
      BY <3>1, <3>2, IdleType DEF Idle, Requests, Holds, Pcs, Rows
    <3> QED BY <3>3, <3>4
  <2>3. ASSUME NEW i \in Ids, RevokeStart(t, i)
        PROVE  <1>3!:
    <3> DEFINE a == rows[i].asn
               r == [Idle EXCEPT !.pc = "delete", !.asns = {a}]
    <3>1. a \in Asns
      BY <2>3, TableType DEF RevokeStart, StateType, IsTable, Rows
    <3>2. req' = [req EXCEPT ![t] = r] /\ excused \ {a} \subseteq excused'
      BY <2>3 DEF RevokeStart, Begin, StateType
    <3> HIDE DEF a
    <3>3. r \in Requests /\ Holds(r) /\ r.pc = "delete" /\ a \in r.asns
      BY <3>1, IdleType DEF Idle, Requests, Holds, Pcs
    <3> QED BY <3>2, <3>3
  <2>4. CASE RevokeAllStart(t)
    <3> DEFINE r == [Idle EXCEPT !.pc = "list", !.asns = Asns]
    <3>1. r \in Requests /\ Holds(r) /\ r.pc = "list" /\ r.asns = Asns
      BY IdleType DEF Idle, Requests, Holds, Pcs
    <3> QED BY <2>4, <3>1 DEF RevokeAllStart, Begin
  <2> QED BY <2>1, <2>2, <2>3, <2>4
<1>4. PICK r \in Requests : <1>3!(r)
  BY <1>3
<1>5. req' \in [Threads -> Requests] /\ LocalsInv'
  BY <1>4, Moved
<1>6. excused' \subseteq Asns
  <2>1. \A i \in DOMAIN rows : rows[i].asn \in Asns
    BY TableType DEF StateType, IsTable, Rows
  <2>2. excused \subseteq Asns
    BY DEF StateType
  <2>3. ASSUME NEW a \in Asns, AddIntent(t, a) \/ SuggestCandidate(t, a)
        PROVE  excused' = excused
    BY <2>3 DEF AddIntent, SuggestCandidate
  <2>4. ASSUME NEW i \in Ids, PushStart(t, i)
        PROVE  excused' \subseteq Asns
    BY <2>1, <2>2, <2>4 DEF PushStart
  <2>5. ASSUME NEW i \in Ids, RevokeStart(t, i)
        PROVE  excused' \subseteq Asns
    BY <2>1, <2>2, <2>5 DEF RevokeStart
  <2>6. ASSUME RevokeAllStart(t)
        PROVE  excused' \subseteq Asns
    BY <2>6 DEF RevokeAllStart
  <2> QED BY <2>2, <2>3, <2>4, <2>5, <2>6
<1>values. StateType'
  BY <1>1, <1>5, <1>6 DEF StateType, AsnAssumption
<1>8. PendingInv'
  <2>1. ASSUME NEW i \in DOMAIN rows, rows[i].asn \notin excused'
        PROVE  \/ WillConclude(r, i, rows[i].asn)
               \/ rows[i].asn \notin excused
    <3>1. rows[i].asn \in Asns
      BY TableType DEF StateType, IsTable, Rows
    <3> QED BY <2>1, <3>1, <1>4 DEF WillConclude
  <2> QED BY <1>1, <1>2, <1>4, <2>1, PendingKept
<1> QED BY <1>5, <1>values, <1>8

\* Insert: a new row is pending without an error, or a candidate.
LEMMA InsertStep ==
    ASSUME AsnAssumption, PushInv, NEW t \in Threads, Insert(t)
    PROVE  PushInv'
<1> USE DEF PushInv
<1>1. PICK i \in Ids \ DOMAIN rows, row \in Rows :
        /\ row.err = "null"
        /\ rows' = [j \in DOMAIN rows \cup {i} |-> IF j # i THEN rows[j] ELSE row]
  <2>1. PICK i \in Ids \ DOMAIN rows, a \in req[t].asns :
          rows' = [j \in DOMAIN rows \cup {i} |->
                     IF j # i THEN rows[j]
                     ELSE [asn |-> a, err |-> "null", fed |-> {},
                           status |-> IF req[t].pc = "add" THEN "pending"
                                      ELSE "candidate"]]
    BY DEF Insert
  <2>2. a \in Asns
    BY DEF StateType, Requests
  <2>3. \A st \in Statuses :
          [asn |-> a, err |-> "null", fed |-> {}, status |-> st] \in Rows
    BY <2>2 DEF Rows, Errors
  <2> DEFINE st == IF req[t].pc = "add" THEN "pending" ELSE "candidate"
  <2>4. st \in Statuses
    BY DEF Statuses
  <2> HIDE DEF st
  <2> QED BY <2>1, <2>3, <2>4 DEF st
<1>2. /\ req' = [req EXCEPT ![t] = Idle] /\ req[t].pc \in {"add", "suggest"}
      /\ UNCHANGED <<profile, bans, requests, lastBan, faults, excused>>
  BY DEF Insert, End, Goto
<1>3. req' \in [Threads -> Requests] /\ LocalsInv'
  BY <1>2, IdleType, Moved
<1>4. rows' \in Tables
  <2>1. rows \in Tables /\ DOMAIN rows \subseteq Ids
        /\ \A j \in DOMAIN rows : rows[j] \in Rows
    BY TableType DEF StateType, IsTable
  <2>2. rows' \in [DOMAIN rows \cup {i} -> Rows]
    BY <1>1, <2>1
  <2>3. DOMAIN rows \cup {i} \in SUBSET Ids
    BY <2>1
  <2> QED BY <2>2, <2>3 DEF Tables
<1>5. StateType'
  BY <1>2, <1>3, <1>4 DEF StateType
<1>6. PendingInv'
  <2>1. \A j \in DOMAIN rows' : rows'[j].err # "null" =>
           j \in DOMAIN rows /\ rows'[j] = rows[j]
    BY <1>1
  <2>2. \A j, a : ~WillConclude(req[t], j, a)
    BY <1>2 DEF WillConclude
  <2>3. \A j \in DOMAIN rows' :
           rows'[j].status = "pending" /\ rows'[j].err # "null"
           /\ rows'[j].asn \notin excused'
             => \/ WillConclude(Idle, j, rows'[j].asn)
                \/ /\ j \in DOMAIN rows /\ rows'[j] = rows[j]
                   /\ rows[j].asn \notin excused
                   /\ ~WillConclude(req[t], j, rows[j].asn)
    BY <1>2, <2>1, <2>2
  <2> QED BY <1>2, <2>3, PendingKept
<1> QED BY <1>3, <1>5, <1>6

\* A step that writes no row and goes on as before, or ends with its AS excused.
LEMMA KeepStep ==
    ASSUME PushInv, NEW t \in Threads, NEW r \in Requests, Holds(r),
           req' = [req EXCEPT ![t] = r], UNCHANGED <<rows, requests>>,
           profile' \in Profiles, bans' \subseteq Bans, lastBan' \in 0..MaxBans,
           faults' \in 0..MaxFaults, excused \subseteq excused',
           excused' \subseteq Asns,
           \A i \in DOMAIN rows :
               WillConclude(req[t], i, rows[i].asn) /\ rows[i].asn \notin excused'
                 => WillConclude(r, i, rows[i].asn)
    PROVE  PushInv'
<1> USE DEF PushInv
<1>1. req' \in [Threads -> Requests] /\ LocalsInv'
  BY Moved
<1>2. StateType'
  BY <1>1 DEF StateType
<1>3. \A i \in DOMAIN rows' :
         rows'[i].asn \notin excused' =>
           \/ WillConclude(r, i, rows'[i].asn)
           \/ /\ i \in DOMAIN rows /\ rows'[i] = rows[i]
              /\ rows[i].asn \notin excused
              /\ ~WillConclude(req[t], i, rows[i].asn)
  OBVIOUS
<1>4. PendingInv'
  BY <1>3, PendingKept
<1> QED BY <1>1, <1>2, <1>4

-----------------------------------------------------------------------------
(* pushIntent.                                                             *)

\* The steps of a push that write its row.
LEMMA PushWrites ==
    ASSUME AsnAssumption, PushInv, NEW t \in Threads,
           req[t].pc \in {"pend", "fetch", "ban"},
           NEW i \in DOMAIN req[t].rows, NEW row \in Rows, Save(i, row),
           NEW r \in Requests, Holds(r), req' = [req EXCEPT ![t] = r],
           row.status # "pending" \/ WillConclude(r, i, row.asn),
           UNCHANGED <<profile, bans, requests, lastBan, excused>>,
           faults' \in 0..MaxFaults
    PROVE  PushInv'
<1> USE DEF PushInv
<1>1. req' \in [Threads -> Requests] /\ LocalsInv'
  BY Moved
<1>2. rows' \in Tables /\ DOMAIN rows' = DOMAIN rows
      /\ \A j \in DOMAIN rows : rows'[j] = IF j = i THEN row ELSE rows[j]
  BY TableWrite DEF Save, StateType
<1>3. StateType'
  BY <1>1, <1>2 DEF StateType
<1>4. DOMAIN req[t].rows = {i}
  BY DEF LocalsInv, Holds
<1>5. PendingInv'
  <2>1. \A j \in DOMAIN rows : j # i => ~WillConclude(req[t], j, rows[j].asn)
    BY <1>4 DEF WillConclude
  <2>2. \A j \in DOMAIN rows' : rows'[j].status = "pending" =>
          \/ WillConclude(r, j, rows'[j].asn)
          \/ /\ j \in DOMAIN rows /\ rows'[j] = rows[j]
             /\ ~WillConclude(req[t], j, rows[j].asn)
    BY <1>2, <2>1
  <2> QED BY <2>2, PendingKept
<1> QED BY <1>1, <1>3, <1>5

\* The end of a push.
LEMMA ConcludeStep ==
    ASSUME AsnAssumption, PushInv, NEW t \in Threads,
           req[t].pc \in {"pend", "fetch", "ban"},
           NEW status \in Statuses \ {"pending"}, NEW err \in Errors,
           NEW fed \in SUBSET Ranges, Conclude(t, status, err, fed),
           UNCHANGED <<profile, bans, lastBan, excused>>, faults' \in 0..MaxFaults
    PROVE  PushInv'
<1>1. PICK i \in DOMAIN req[t].rows :
        Save(i, [req[t].rows[i] EXCEPT !.status = status, !.err = err,
                                       !.fed = fed])
  BY DEF Conclude
<1>2. req[t].rows[i] \in Rows
  BY TableType DEF PushInv, StateType, Requests, IsTable
<1> DEFINE row == [req[t].rows[i] EXCEPT !.status = status, !.err = err,
                                         !.fed = fed]
<1>3. row \in Rows /\ row.status = status
  BY <1>2 DEF Rows
<1>4. Save(i, row)
  BY <1>1
<1>5. req' = [req EXCEPT ![t] = Idle] /\ requests' = requests
  BY DEF Conclude, End, Goto
<1> HIDE DEF row
<1> QED BY <1>3, <1>4, <1>5, IdleType, PushWrites

\* A push writes its row or goes on.
LEMMA PushStep ==
    ASSUME AsnAssumption, PushInv, NEW t \in Threads, Push(t)
    PROVE  PushInv'
<1> USE DEF PushInv
<1>1. /\ req[t] \in Requests /\ Holds(req[t])
      /\ faults' = faults => faults' \in 0..MaxFaults
      /\ Fault => faults' \in 0..MaxFaults
  BY DEF StateType, LocalsInv, Fault, AsnAssumption
<1>values. /\ {"failed", "active"} \subseteq Statuses \ {"pending"}
      /\ {"", "partial", "code"} \subseteq Errors /\ {} \in SUBSET Ranges
  BY DEF Statuses, Errors
<1>2. CASE PushPend(t)
  <2>1. PICK i \in DOMAIN req[t].rows :
          LET row == [req[t].rows[i] EXCEPT !.status = "pending", !.err = ""]
          IN  /\ Save(i, row)
              /\ Goto(t, [req[t] EXCEPT !.pc = "fetch", !.rows[i] = row])
    BY <1>2 DEF PushPend
  <2> DEFINE row == [req[t].rows[i] EXCEPT !.status = "pending", !.err = ""]
             table == [req[t].rows EXCEPT ![i] = row]
             r == [req[t] EXCEPT !.pc = "fetch", !.rows = table]
  <2>2. row \in Rows
    <3>1. req[t].rows[i] \in Rows
      BY <1>1, TableType DEF Requests, IsTable
    <3> QED BY <3>1 DEF Rows, Statuses, Errors
  <2>3. Save(i, row) /\ req' = [req EXCEPT ![t] = r] /\ requests' = requests
    BY <2>1 DEF Goto
  <2> HIDE DEF row
  <2>4. table \in Tables /\ DOMAIN table = DOMAIN req[t].rows
    BY <1>1, <2>2, TableWrite DEF Requests
  <2> HIDE DEF table
  <2>5. /\ r \in Requests /\ Holds(r)
        /\ r.pc = "fetch" /\ i \in DOMAIN r.rows
    BY <1>1, <1>2, <2>4 DEF Requests, Holds, Pcs, PushPend
  <2> HIDE DEF r
  <2>6. WillConclude(r, i, row.asn)
    BY <2>5 DEF WillConclude
  <2>7. req[t].pc = "pend" /\ faults' \in 0..MaxFaults
        /\ UNCHANGED <<profile, bans, lastBan, excused>>
    BY <1>1, <1>2 DEF PushPend
  <2> QED BY <2>2, <2>3, <2>5, <2>6, <2>7, PushWrites
<1>3. CASE PushFetch(t)
  <2>1. PICK feed \in SUBSET Ranges :
          \/ feed = {} /\ Conclude(t, "failed", "code", {})
          \/ /\ feed # {}
             /\ Goto(t, [req[t] EXCEPT !.pc = "ban", !.todo = feed,
                                       !.feed = feed])
             /\ UNCHANGED rows
    BY <1>3 DEF PushFetch
  <2>2. /\ req[t].pc = "fetch" /\ faults' = faults
        /\ UNCHANGED <<profile, bans, lastBan, excused>>
    BY <1>3 DEF PushFetch
  <2>3. CASE Conclude(t, "failed", "code", {})
    BY <1>1, <1>values, <2>2, <2>3, ConcludeStep
  <2>4. CASE /\ Goto(t, [req[t] EXCEPT !.pc = "ban", !.todo = feed,
                                       !.feed = feed])
             /\ UNCHANGED rows
    <3> DEFINE r == [req[t] EXCEPT !.pc = "ban", !.todo = feed, !.feed = feed]
    <3>1. /\ r \in Requests /\ Holds(r)
          /\ r.pc = "ban" /\ r.rows = req[t].rows
      BY <1>1, <2>2 DEF Requests, Holds, Pcs
    <3>2. req' = [req EXCEPT ![t] = r] /\ requests' = requests
      BY <2>4 DEF Goto
    <3> HIDE DEF r
    <3>3. \A i, a : WillConclude(req[t], i, a) => WillConclude(r, i, a)
      BY <2>2, <3>1 DEF WillConclude
    <3> QED BY <1>1, <2>2, <2>4, <3>1, <3>2, <3>3, KeepStep DEF StateType
  <2> QED BY <2>1, <2>3, <2>4
<1>4. CASE PushStop(t)
  <2>1. /\ req[t].pc = "ban" /\ Conclude(t, "failed", "code", {})
        /\ UNCHANGED <<profile, bans, lastBan, excused>> /\ Fault
    BY <1>4 DEF PushStop, StopFailed
  <2> QED BY <1>1, <1>values, <2>1, ConcludeStep
<1>5. CASE PushDone(t)
  <2>1. /\ req[t].pc = "ban" /\ faults' = faults
        /\ UNCHANGED <<profile, bans, lastBan, excused>>
    BY <1>5 DEF PushDone
  <2>2. CASE ~req[t].ok
    BY <1>1, <1>5, <1>values, <2>1, <2>2, ConcludeStep DEF PushDone
  <2>3. CASE req[t].ok
    <3> DEFINE err == IF req[t].fail THEN "partial" ELSE ""
    <3>1. Conclude(t, "active", err, req[t].feed)
      BY <1>5, <2>3 DEF PushDone
    <3>2. err \in Errors /\ req[t].feed \in SUBSET Ranges
      BY <1>1 DEF Errors, Requests
    <3> HIDE DEF err
    <3> QED BY <1>1, <1>values, <2>1, <3>1, <3>2, ConcludeStep
  <2> QED BY <2>2, <2>3
<1>6. CASE PushBan(t)
  <2>1. PICK rg \in req[t].todo, a \in req[t].asns, okay \in BOOLEAN :
          /\ BanNext(t, rg, okay)
          /\ Posted(a, rg) \/ UNCHANGED <<bans, lastBan>>
    BY <1>6 DEF PushBan
  <2> DEFINE r == [req[t] EXCEPT !.todo = @ \ {rg}, !.ok = @ \/ okay,
                                 !.fail = @ \/ ~okay]
  <2>2. /\ req[t].pc = "ban" /\ faults' \in 0..MaxFaults
        /\ UNCHANGED <<profile, rows, excused>>
    BY <1>1, <1>6 DEF PushBan
  <2>3. req' = [req EXCEPT ![t] = r] /\ requests' = requests
    BY <2>1 DEF BanNext, Goto
  <2>4. r \in Requests /\ Holds(r) /\ r.pc = "ban" /\ r.rows = req[t].rows
    BY <1>1, <2>2 DEF Requests, Holds
  <2> HIDE DEF r
  <2>5. rg \in Ranges /\ a \in Asns
    BY <1>1, <2>2 DEF Holds, Requests
  <2>6. bans' \subseteq Bans /\ lastBan' \in 0..MaxBans
    <3>1. CASE Posted(a, rg)
      <4>1. lastBan + 1 \in 1..MaxBans /\ lastBan' = lastBan + 1
        BY <3>1 DEF Posted, StateType, AsnAssumption
      <4>2. [id |-> lastBan + 1, asn |-> a, range |-> rg] \in Bans
        BY <4>1, <2>5 DEF Bans
      <4> QED BY <3>1, <4>1, <4>2 DEF Posted, StateType
    <3>2. CASE UNCHANGED <<bans, lastBan>>
      BY <3>2 DEF StateType
    <3> QED BY <2>1, <3>1, <3>2
  <2>7. \A i, b : WillConclude(req[t], i, b) => WillConclude(r, i, b)
    BY <2>2, <2>4 DEF WillConclude
  <2> QED BY <2>2, <2>3, <2>4, <2>6, <2>7, KeepStep DEF StateType
<1> QED BY <1>2, <1>3, <1>4, <1>5, <1>6 DEF Push

-----------------------------------------------------------------------------
(* Revocations.                                                            *)

\* A row marked as revoked is no longer pending.
LEMMA MarkStep ==
    ASSUME AsnAssumption, PushInv, NEW t \in Threads, Mark(t)
    PROVE  PushInv'
<1> USE DEF PushInv
<1>1. PICK i \in req[t].todo :
        LET row == req[t].rows[i]
        IN  /\ Save(i, [row EXCEPT
                          !.status = "revoked",
                          !.err = IF @ = "null" THEN rows[i].err ELSE @])
            /\ Goto(t, [req[t] EXCEPT !.todo = @ \ {i}])
  BY DEF Mark
<1> DEFINE old == req[t].rows[i]
           err == IF old.err = "null" THEN rows[i].err ELSE old.err
           row == [old EXCEPT !.status = "revoked", !.err = err]
           r == [req[t] EXCEPT !.todo = @ \ {i}]
<1>2. /\ req[t].pc \in {"mark", "light"} /\ req[t] \in Requests /\ Holds(req[t])
      /\ UNCHANGED <<profile, bans, lastBan, faults, excused>>
  BY DEF Mark, StateType, LocalsInv
<1>3. Save(i, row) /\ req' = [req EXCEPT ![t] = r] /\ requests' = requests
  BY <1>1 DEF Goto
<1>4. /\ r \in Requests /\ Holds(r) /\ r.pc = req[t].pc
      /\ r.todo = req[t].todo \ {i}
  BY <1>2 DEF Requests, Holds
<1> HIDE DEF r
<1>5. old \in Rows
  BY <1>2, TableType DEF Holds, Requests, IsTable
<1>6. i \in DOMAIN rows => row \in Rows /\ row.status = "revoked"
  <2>1. i \in DOMAIN rows => rows[i].err \in Errors
    BY TableType DEF StateType, IsTable, Rows
  <2>2. i \in DOMAIN rows => err \in Errors
    BY <1>5, <2>1 DEF Rows
  <2> HIDE DEF err
  <2> QED BY <1>5, <2>2 DEF Rows, Statuses
<1> HIDE DEF row
<1>7. /\ rows' \in Tables /\ DOMAIN rows' = DOMAIN rows
      /\ \A j \in DOMAIN rows : rows'[j] = IF j = i THEN row ELSE rows[j]
  <2>1. CASE i \in DOMAIN rows
    BY <1>3, <1>6, <2>1, TableWrite DEF Save, StateType
  <2>2. CASE i \notin DOMAIN rows
    <3>1. rows' = rows
      <4>1. PICK ids \in SUBSET Ids : rows \in [ids -> Rows]
        BY DEF StateType, Tables
      <4> QED BY <1>3, <2>2, <4>1 DEF Save
    <3> QED BY <2>2, <3>1 DEF StateType
  <2> QED BY <2>1, <2>2
<1>8. req' \in [Threads -> Requests] /\ LocalsInv'
  BY <1>3, <1>4, Moved
<1>9. StateType'
  BY <1>2, <1>3, <1>7, <1>8 DEF StateType
<1>10. \A j, a : j # i /\ WillConclude(req[t], j, a) => WillConclude(r, j, a)
  BY <1>2, <1>4 DEF WillConclude
<1>11. \A j \in DOMAIN rows' :
         rows'[j].status = "pending" /\ rows'[j].asn \notin excused' =>
           \/ WillConclude(r, j, rows'[j].asn)
           \/ /\ j \in DOMAIN rows /\ rows'[j] = rows[j]
              /\ rows[j].asn \notin excused
              /\ ~WillConclude(req[t], j, rows[j].asn)
  BY <1>2, <1>6, <1>7, <1>10
<1>12. PendingInv'
  BY <1>3, <1>11, PendingKept
<1> QED BY <1>8, <1>9, <1>12

\* A request that ends without writing a row concludes nothing, or excuses its AS.
LEMMA EndStep ==
    ASSUME AsnAssumption, PushInv, NEW t \in Threads,
           \/ RevokeFails(t) \/ RevokeDone(t) \/ ListFails(t) \/ SweepFails(t)
           \/ SwitchToLight(t)
    PROVE  PushInv'
<1> USE DEF PushInv
<1>1. req[t] \in Requests /\ Holds(req[t]) /\ (Fault => faults' \in 0..MaxFaults)
      /\ faults \in 0..MaxFaults /\ \A i \in DOMAIN rows : rows[i].asn \in Asns
  BY TableType DEF StateType, LocalsInv, Fault, AsnAssumption, IsTable, Rows
<1>2. /\ req' = [req EXCEPT ![t] = Idle] /\ UNCHANGED <<rows, requests, lastBan>>
      /\ faults' \in 0..MaxFaults /\ bans' \subseteq bans /\ profile' \in Profiles
  BY <1>1 DEF RevokeFails, RevokeDone, ListFails, SweepFails, SwitchToLight, End,
     Goto, Deleted, StateType, Profiles
<1>3. /\ excused \subseteq excused' /\ excused' \subseteq Asns
      /\ \A i, a : WillConclude(req[t], i, a) /\ a \in Asns => a \in excused'
  <2>1. CASE RevokeFails(t)
    BY <1>1, <2>1 DEF RevokeFails, WillConclude, StateType, Requests
  <2>2. CASE RevokeDone(t) \/ SwitchToLight(t)
    BY <2>2 DEF RevokeDone, SwitchToLight, WillConclude, StateType
  <2>3. CASE ListFails(t) \/ SweepFails(t)
    BY <2>3 DEF ListFails, SweepFails, StateType
  <2> QED BY <2>1, <2>2, <2>3
<1>4. bans' \subseteq Bans /\ lastBan' \in 0..MaxBans
  BY <1>2 DEF StateType
<1> QED BY <1>1, <1>2, <1>3, <1>4, IdleType, KeepStep

\* The rows it reads are all it has to conclude.
LEMMA SelectStep ==
    ASSUME AsnAssumption, PushInv, NEW t \in Threads, Select(t)
    PROVE  PushInv'
<1> USE DEF PushInv
<1> DEFINE chosen == {i \in DOMAIN rows : rows[i].asn \in req[t].asns}
           table == [i \in chosen |-> rows[i]]
           pc == IF req[t].pc = "select" THEN "mark" ELSE "light"
           r == [req[t] EXCEPT !.pc = pc, !.rows = table, !.todo = chosen]
<1>1. /\ req[t].pc \in {"select", "sweep"} /\ req[t] \in Requests
      /\ req[t].pc = "sweep" => req[t].todo = {}
      /\ UNCHANGED <<profile, rows, bans, lastBan, faults, excused>>
      /\ req' = [req EXCEPT ![t] = r] /\ requests' = requests
  BY DEF Select, Goto, StateType
<1>2. chosen \subseteq DOMAIN rows /\ chosen \subseteq Ids
  BY TableType DEF StateType, IsTable
<1>3. table \in Tables /\ DOMAIN table = chosen
  BY <1>2, TableRead DEF StateType
<1>4. \A i \in DOMAIN rows : rows[i].asn \in req[t].asns => i \in chosen
  OBVIOUS
<1>5. pc \in {"mark", "light"}
  OBVIOUS
<1> HIDE DEF chosen, table, pc
<1>6. /\ r \in Requests /\ Holds(r)
      /\ r.pc \in {"mark", "light"} /\ r.todo = chosen
  BY <1>1, <1>2, <1>3, <1>5 DEF Requests, Holds, Pcs
<1> HIDE DEF r
<1>7. \A i \in DOMAIN rows :
         WillConclude(req[t], i, rows[i].asn) => WillConclude(r, i, rows[i].asn)
  BY <1>1, <1>4, <1>6 DEF WillConclude
<1> QED BY <1>1, <1>6, <1>7, KeepStep DEF StateType

\* The other steps of a revocation leave it as many rows to conclude.
LEMMA SweepStep ==
    ASSUME AsnAssumption, PushInv, NEW t \in Threads,
           RevokeDelete(t) \/ ListPage(t) \/ Sweep(t) \/ SweepRefused(t)
    PROVE  PushInv'
<1> USE DEF PushInv
<1>1. req[t] \in Requests /\ Holds(req[t]) /\ (Fault => faults' \in 0..MaxFaults)
      /\ faults \in 0..MaxFaults
  BY DEF StateType, LocalsInv, Fault, AsnAssumption
<1>2. /\ req[t].pc \in {"delete", "list", "sweep"}
      /\ UNCHANGED <<profile, rows, requests, lastBan>>
      /\ bans' \subseteq bans /\ faults' \in 0..MaxFaults
  BY <1>1 DEF RevokeDelete, ListPage, Sweep, SweepRefused, Goto, Deleted
<1>3. excused \subseteq excused' /\ excused' \subseteq Asns
  <2>1. excused \subseteq Asns /\ \A b \in bans : b.asn \in Asns
    BY DEF StateType, Bans
  <2>2. CASE RevokeDelete(t)
    BY <2>1, <2>2 DEF RevokeDelete
  <2>3. CASE ListPage(t)
    BY <2>1, <2>3 DEF ListPage
  <2>4. CASE Sweep(t)
    BY <2>1, <2>4 DEF Sweep
  <2>5. CASE SweepRefused(t)
    BY <2>1, <2>5 DEF SweepRefused
  <2> QED BY <2>2, <2>3, <2>4, <2>5
<1>4. \E r \in Requests :
        /\ req' = [req EXCEPT ![t] = r] /\ Holds(r)
        /\ r.pc \in {"list", "sweep", "select"} /\ r.asns = req[t].asns
  <2>1. CASE RevokeDelete(t)
    <3> DEFINE r == [req[t] EXCEPT !.pc = "select"]
    <3>1. r \in Requests /\ Holds(r) /\ r.pc = "select" /\ r.asns = req[t].asns
      BY <1>1 DEF Requests, Holds, Pcs
    <3> QED BY <2>1, <3>1 DEF RevokeDelete, Goto
  <2>2. CASE ListPage(t)
    <3> DEFINE found == req[t].todo \cup PageAt(req[t].page)
               last == [req[t] EXCEPT !.pc = "sweep", !.todo = found]
               next == [req[t] EXCEPT !.todo = found, !.page = @ + 1]
    <3>1. found \subseteq Bans /\ req[t].pc = "list"
      BY <1>1, <2>2 DEF ListPage, Holds, PageAt, StateType
    <3>2. \/ req' = [req EXCEPT ![t] = last]
          \/ req' = [req EXCEPT ![t] = next] /\ req[t].page + 1 # MaxPages
      BY <2>2 DEF ListPage, Goto, LastPage
    <3> HIDE DEF found
    <3>3. last \in Requests /\ Holds(last) /\ last.pc = "sweep"
          /\ last.asns = req[t].asns
      BY <1>1, <3>1 DEF Requests, Holds, Pcs
    <3>4. ASSUME req[t].page + 1 # MaxPages
          PROVE  next \in Requests /\ Holds(next) /\ next.pc = "list"
                 /\ next.asns = req[t].asns
      <4>1. req[t].page + 1 \in 0..MaxPages - 1
        BY <1>1, <3>4 DEF Requests, AsnAssumption
      <4> QED BY <1>1, <3>1, <4>1 DEF Requests, Holds
    <3> QED BY <3>2, <3>3, <3>4
  <2>3. CASE Sweep(t) \/ SweepRefused(t)
    <3>1. PICK b \in req[t].todo :
            req' = [req EXCEPT ![t] = [req[t] EXCEPT !.todo = @ \ {b}]]
      BY <2>3 DEF Sweep, SweepRefused, Goto
    <3> DEFINE r == [req[t] EXCEPT !.todo = @ \ {b}]
    <3>2. req[t].pc = "sweep"
      BY <2>3 DEF Sweep, SweepRefused
    <3>3. r \in Requests /\ Holds(r) /\ r.pc = "sweep" /\ r.asns = req[t].asns
      BY <1>1, <3>2 DEF Requests, Holds
    <3> QED BY <3>1, <3>3
  <2> QED BY <2>1, <2>2, <2>3
<1>5. PICK r \in Requests : <1>4!(r)
  BY <1>4
<1>6. \A i, a : WillConclude(req[t], i, a) => WillConclude(r, i, a)
  BY <1>2, <1>5 DEF WillConclude
<1> QED BY <1>2, <1>3, <1>5, <1>6, KeepStep DEF StateType

-----------------------------------------------------------------------------
(* The theorems.                                                           *)

\* Every step keeps the invariant: a restart excuses every AS.
LEMMA StepInv ==
    ASSUME AsnAssumption, PushInv, [Next]_vars
    PROVE  PushInv'
<1> USE DEF PushInv
<1>1. ASSUME NEW t \in Threads,
             \/ \E a \in Asns : AddIntent(t, a) \/ SuggestCandidate(t, a)
             \/ \E i \in Ids : PushStart(t, i) \/ RevokeStart(t, i)
             \/ RevokeAllStart(t)
             \/ Insert(t) \/ Push(t) \/ Revoke(t) \/ RevokeAll(t)
      PROVE  PushInv'
  BY <1>1, StartStep, InsertStep, PushStep, MarkStep, EndStep, SelectStep,
     SweepStep DEF Revoke, RevokeAll
<1>2. CASE \/ UNCHANGED vars
           \/ \E p \in Profiles : SetProfile(p)
           \/ \E b \in bans : Expire(b)
  <2>1. /\ UNCHANGED <<rows, req, lastBan>> /\ bans' \subseteq bans
        /\ excused \subseteq excused'
    BY <1>2 DEF vars, counters, SetProfile, Expire, StateType
  <2>2. /\ profile' \in Profiles /\ requests' \in 0..MaxRequests
        /\ faults' \in 0..MaxFaults
    BY <1>2 DEF vars, counters, SetProfile, Expire, Fault, StateType,
       AsnAssumption
  <2>3. excused' \subseteq Asns
    BY <1>2 DEF vars, SetProfile, Expire, StateType, Bans
  <2>4. LocalsInv'
    BY <2>1 DEF LocalsInv
  <2>5. PendingInv'
    BY <2>1 DEF PendingInv
  <2> QED BY <2>1, <2>2, <2>3, <2>4, <2>5 DEF StateType
<1>3. CASE Restart
  <2>1. /\ UNCHANGED <<profile, rows, bans, requests, lastBan>>
        /\ req' = [t \in Threads |-> Idle] /\ excused' = Asns
        /\ faults' \in 0..MaxFaults
    BY <1>3 DEF Restart, Fault, StateType, AsnAssumption
  <2>2. StateType' /\ LocalsInv'
    BY <2>1, IdleType DEF StateType, LocalsInv
  <2>3. PendingInv'
    <3>1. \A i \in DOMAIN rows : rows[i].asn \in Asns
      BY TableType DEF StateType, IsTable, Rows
    <3> QED BY <2>1, <3>1 DEF PendingInv
  <2> QED BY <2>2, <2>3
<1> QED BY <1>1, <1>2, <1>3 DEF Next

\* Whatever requests interleave, every row, decision and request is well formed.
THEOREM TypeCorrect == Spec => []TypeOK
<1>1. Init => PushInv
  BY InitInv, AsnAssumption
<1>2. PushInv /\ [Next]_vars => PushInv'
  BY StepInv, AsnAssumption
<1>3. PushInv => TypeOK
  <2> SUFFICES ASSUME PushInv PROVE TypeOK
    OBVIOUS
  <2>1. \A r \in Requests : IsRequest(r)
    <3> SUFFICES ASSUME NEW r \in Requests PROVE IsRequest(r)
      OBVIOUS
    <3>1. DOMAIN r = DOMAIN Idle
      BY DEF Requests, Idle
    <3>2. IsTable(r.rows)
      BY TableType DEF Requests
    <3> QED BY <3>1, <3>2 DEF Requests, IsRequest
  <2> QED BY <2>1, TableType DEF PushInv, StateType, TypeOK
<1> QED BY <1>1, <1>2, <1>3, PTL DEF Spec

\* A push that failed, was overtaken or half done leaves no row pending, for
\* any number of requests at once (AsnBlockService.pushIntent).
THEOREM PushIsConcludedCorrect == Spec => []PushIsConcluded
<1>1. Init => PushInv
  BY InitInv, AsnAssumption
<1>2. PushInv /\ [Next]_vars => PushInv'
  BY StepInv, AsnAssumption
<1>3. PushInv => PushIsConcluded
  <2>1. \A i, a : ~WillConclude(Idle, i, a)
    BY DEF WillConclude, Idle
  <2> QED BY <2>1 DEF PushInv, PendingInv, PushIsConcluded, Quiet
<1> QED BY <1>1, <1>2, <1>3, PTL DEF Spec

-----------------------------------------------------------------------------
(* What requests owe to an AS whose rows and decisions shall agree.        *)

\* The parts a request plays for AS a.
RevokePcs == {"delete", "list", "sweep", "select", "mark", "light"}
PushPcs == {"pend", "fetch", "ban"}
Revokes(r, a) == r.pc \in RevokePcs /\ a \in r.asns
Pushes(r, a) == r.pc \in PushPcs /\ a \in r.asns

\* The rows a request has read are rows of its AS numbers, of which a push
\* has one and a switch to the light profile all.
Own(r) ==
    /\ r.pc \in PushPcs => \E a \in Asns : r.asns = {a}
    /\ r.pc \in {"list", "sweep", "light"} => r.asns = Asns
    /\ \A i \in DOMAIN r.rows : /\ i \in DOMAIN rows
                                /\ r.rows[i].asn = rows[i].asn
                                /\ rows[i].asn \in r.asns

\* The LAPI numbers its decisions.
Numbered ==
    /\ IsFiniteSet(bans) /\ \A b \in bans : b.id <= lastBan
    /\ \A b, c \in bans : b.id = c.id => b = c

\* Nobody pushes an AS while somebody revokes it, nor revokes it twice, and
\* nobody revokes anything while the decisions are listed.
Alone(a) == \A t, u \in Threads :
    Revokes(req[t], a) =>
        /\ ~Pushes(req[u], a)
        /\ Revokes(req[u], a) => u = t
        /\ req[t].pc = "list" /\ req[u].pc \in RevokePcs => u = t

\* What revocation r has yet to do about AS a: decisions on pages to come or
\* to delete, rows to mark.
Cleans(r, a) ==
    /\ r.pc = "list" =>
          \A b \in bans : b.asn = a => b \in r.todo
                                       \/ Position(b) > r.page * PageSize
    /\ r.pc = "sweep" => \A b \in bans : b.asn = a => b \in r.todo
    /\ r.pc \in {"select", "mark", "light"} => \A b \in bans : b.asn # a
    /\ r.pc \in {"mark", "light"} =>
          \A i \in DOMAIN rows :
              rows[i].asn = a /\ rows[i].status = "active" => i \in r.todo

Banned(a, ranges) == \A g \in ranges : \E b \in bans : b.asn = a /\ b.range = g

\* What push r has done: its row no longer shows as revoked, and what it has
\* posted without a failure is banned.
Feeds(r, a) ==
    /\ r.pc \in {"fetch", "ban"} =>
          \A i \in DOMAIN r.rows : rows[i].status # "revoked"
    /\ r.pc = "ban" /\ ~r.fail => Banned(a, r.feed \ r.todo)

\* What holds of the rows and decisions of AS a while nobody revokes it.
Settled(a) ==
    /\ (\A i \in DOMAIN rows : rows[i].asn = a => rows[i].status = "revoked")
         => \A b \in bans : b.asn # a
    /\ \A i \in DOMAIN rows :
          rows[i].asn = a /\ rows[i].status = "active" /\ rows[i].err = ""
            => Banned(a, rows[i].fed)

Sound(a) ==
    /\ Alone(a)
    /\ \A t \in Threads : /\ Revokes(req[t], a) => Cleans(req[t], a)
                          /\ Pushes(req[t], a) => Feeds(req[t], a)
    /\ (\A t \in Threads : ~Revokes(req[t], a)) => Settled(a)

BanInv ==
    /\ Numbered
    /\ \A t \in Threads : Own(req[t])
    /\ \A a \in Asns \ excused : Sound(a)

-----------------------------------------------------------------------------
(* Positions in the list of decisions.                                     *)

\* Decisions are at the positions from 1 to their number, in the order of
\* their ids.
LEMMA Positions ==
    ASSUME bans \subseteq Bans, Numbered
    PROVE  /\ Cardinality(bans) \in Nat
           /\ \A b \in bans : Position(b) \in 1..Cardinality(bans)
           /\ \A b, c \in bans : b.id < c.id => Position(b) < Position(c)
           /\ \A k \in 1..Cardinality(bans) : \E b \in bans : Position(b) = k
<1> DEFINE upTo(b) == {c \in bans : c.id <= b.id}
<1>1. IsFiniteSet(bans) /\ Cardinality(bans) \in Nat
  BY FS_CardinalityType DEF Numbered
<1>2. \A b \in bans : b.id \in Int
  BY DEF Bans
<1>3. ASSUME NEW b \in bans
      PROVE  /\ IsFiniteSet(upTo(b)) /\ upTo(b) \in SUBSET bans /\ b \in upTo(b)
             /\ Position(b) = Cardinality(upTo(b)) /\ Position(b) \in Nat
             /\ Position(b) <= Cardinality(bans) /\ Position(b) # 0
  <2>1. upTo(b) \in SUBSET bans /\ b \in upTo(b)
    BY <1>2
  <2>2. IsFiniteSet(upTo(b)) /\ Cardinality(upTo(b)) <= Cardinality(bans)
    BY <1>1, <2>1, FS_Subset
  <2>3. Cardinality(upTo(b)) \in Nat /\ Cardinality(upTo(b)) # 0
    BY <2>1, <2>2, FS_CardinalityType, FS_EmptySet
  <2> QED BY <2>1, <2>2, <2>3 DEF Position
<1>4. ASSUME NEW b \in bans, NEW c \in bans, b.id < c.id
      PROVE  Position(b) < Position(c)
  <2>1. upTo(b) \in SUBSET upTo(c) /\ upTo(b) # upTo(c)
    <3>1. c \in upTo(c) /\ c \notin upTo(b)
      BY <1>2, <1>4
    <3>2. upTo(b) \subseteq upTo(c)
      BY <1>2, <1>4
    <3> QED BY <3>1, <3>2
  <2> HIDE DEF upTo
  <2>2. /\ Cardinality(upTo(b)) <= Cardinality(upTo(c))
        /\ Cardinality(upTo(b)) # Cardinality(upTo(c))
    BY <1>3, <2>1, FS_Subset
  <2> QED BY <1>3, <2>2
<1> HIDE DEF upTo
<1>5. \A k \in 1..Cardinality(bans) : \E b \in bans : Position(b) = k
  <2> DEFINE places == 1..Cardinality(bans)
             f == [b \in bans |-> Position(b)]
  <2>1. f \in [bans -> places]
    BY <1>1, <1>3
  <2>2. ASSUME NEW b \in bans, NEW c \in bans, f[b] = f[c]
        PROVE  b = c
    <3>1. ~(b.id < c.id) /\ ~(c.id < b.id)
      BY <1>3, <1>4, <2>2
    <3>2. b.id = c.id
      BY <1>2, <3>1
    <3> QED BY <3>2 DEF Numbered
  <2>3. f \in Injection(bans, places)
    BY <2>1, <2>2 DEF Injection, IsInjective
  <2>4. IsFiniteSet(places) /\ Cardinality(places) = Cardinality(bans)
    BY <1>1, FS_Interval
  <2>5. f \in Surjection(bans, places)
    BY <2>3, <2>4, FS_Injection
  <2> QED BY <2>5 DEF Surjection
<1> QED BY <1>1, <1>3, <1>4, <1>5

\* A page that is not full is the last one.
LEMMA ShortPage ==
    ASSUME bans \subseteq Bans, Numbered, PageSize \in Nat, NEW n \in Nat,
           Cardinality(PageAt(n)) < PageSize, NEW b \in bans
    PROVE  Position(b) <= (n + 1) * PageSize
<1> DEFINE low == n * PageSize
           high == (n + 1) * PageSize
           page == PageAt(n)
           places == (low + 1)..high
<1>1. low \in Nat /\ high \in Nat /\ high = low + PageSize
  OBVIOUS
<1> HIDE DEF low, high
<1> SUFFICES ASSUME Position(b) > high PROVE FALSE
  BY <1>1, Positions DEF high
<1>2. page \in SUBSET bans
      /\ \A c \in bans : c \in page <=> Position(c) > low /\ Position(c) <= high
  BY DEF PageAt, low, high
<1>3. IsFiniteSet(page)
  BY <1>2, FS_Subset DEF Numbered
<1> HIDE DEF page
<1> DEFINE f == [c \in page |-> Position(c)]
<1>4. f \in [page -> places]
  BY <1>1, <1>2, Positions
<1>5. ASSUME NEW k \in places
      PROVE  \E c \in page : f[c] = k
  <2>1. k \in 1..Cardinality(bans)
    BY <1>1, Positions
  <2>2. PICK c \in bans : Position(c) = k
    BY <2>1, Positions
  <2>3. c \in page
    BY <1>1, <1>2, <2>2
  <2> QED BY <2>2, <2>3
<1>6. f \in Surjection(page, places)
  BY <1>4, <1>5 DEF Surjection
<1>7. Cardinality(places) <= Cardinality(page)
  BY <1>3, <1>6, FS_Surjection
<1>8. Cardinality(places) = PageSize
  <2>1. low + 1 \in Int /\ high \in Int
    BY <1>1
  <2>2. Cardinality(places) = IF low + 1 > high THEN 0 ELSE high - (low + 1) + 1
    BY <2>1, FS_Interval
  <2> QED BY <1>1, <2>2
<1>9. Cardinality(page) \in Nat
  BY <1>3, FS_CardinalityType
<1> QED BY <1>7, <1>8, <1>9 DEF page

\* A new decision pushes none back.
LEMMA PositionsKept ==
    ASSUME IsFiniteSet(bans'), bans \subseteq bans', NEW b
    PROVE  /\ Position(b) \in Nat /\ Position(b)' \in Nat
           /\ Position(b)' >= Position(b)
<1>1. IsFiniteSet({c \in bans' : c.id <= b.id})
  BY FS_Subset
<1>2. /\ Cardinality({c \in bans : c.id <= b.id}) <=
           Cardinality({c \in bans' : c.id <= b.id})
      /\ IsFiniteSet({c \in bans : c.id <= b.id})
  BY <1>1, FS_Subset
<1>3. /\ Cardinality({c \in bans : c.id <= b.id}) \in Nat
      /\ Cardinality({c \in bans' : c.id <= b.id}) \in Nat
  BY <1>1, <1>2, FS_CardinalityType
<1> QED BY <1>2, <1>3 DEF Position

-----------------------------------------------------------------------------
(* What a step leaves alone.                                               *)

\* The rows of AS a are as they were but for new ones, which are neither
\* active nor revoked.
RowsKept(a) ==
    /\ \A i \in DOMAIN rows :
          rows[i].asn = a => i \in DOMAIN rows' /\ rows'[i] = rows[i]
    /\ \A i \in DOMAIN rows' :
          rows'[i].asn = a =>
              \/ i \in DOMAIN rows /\ rows'[i] = rows[i]
              \/ i \notin DOMAIN rows
                 /\ rows'[i].status \notin {"active", "revoked"}

Listers == {t \in Threads : req[t].pc = "list"}

\* So are its decisions, and those listed are where they were.
BansKept(a) ==
    /\ \A b : b.asn = a => (b \in bans' <=> b \in bans)
    /\ bans \subseteq bans' \/ Listers = {}

\* An AS is sound after a step of requests that neither push nor revoke it.
LEMMA Elsewhere ==
    ASSUME NEW a \in Asns, Sound(a), RowsKept(a), BansKept(a), Numbered',
           \A t \in Threads : Own(req[t]),
           \A t \in Threads :
               /\ \/ req'[t] = req[t]
                  \/ /\ ~Revokes(req[t], a) /\ ~Pushes(req[t], a)
                     /\ ~Revokes(req'[t], a) /\ ~Pushes(req'[t], a)
               /\ req'[t].pc \in RevokePcs => req[t].pc \in RevokePcs
                                              \/ Listers = {},
           PageSize \in Nat, req \in [Threads -> Requests]
    PROVE  Sound(a)'
<1>1. ASSUME NEW t \in Threads
      PROVE  /\ Revokes(req'[t], a) => req'[t] = req[t]
             /\ Pushes(req'[t], a) => req'[t] = req[t]
             /\ Revokes(req[t], a) => req'[t] = req[t]
  OBVIOUS
<1>2. Alone(a)'
  BY <1>1 DEF Sound, Alone, Listers
<1>3. ASSUME NEW g, Banned(a, g)
      PROVE  Banned(a, g)'
  BY <1>3 DEF BansKept, Banned
<1>4. ASSUME NEW t \in Threads, Revokes(req'[t], a)
      PROVE  Cleans(req[t], a)'
  <2>1. req'[t] = req[t] /\ Cleans(req[t], a)
    BY <1>1, <1>4 DEF Sound
  <2> DEFINE r == req[t]
  <2>2. r.pc = "list" =>
          \A b \in bans' : b.asn = a => b \in r.todo
                                        \/ Position(b)' > r.page * PageSize
    <3>1. CASE r.pc = "list"
      <4>1. bans \subseteq bans' /\ IsFiniteSet(bans')
        BY <3>1 DEF BansKept, Listers, Numbered
      <4>2. ASSUME NEW b \in bans', b.asn = a, b \notin r.todo
            PROVE  Position(b)' > r.page * PageSize
        <5>1. b \in bans /\ Position(b) > r.page * PageSize
          BY <2>1, <3>1, <4>2 DEF BansKept, Cleans
        <5>2. /\ Position(b) \in Nat /\ Position(b)' \in Nat
              /\ Position(b)' >= Position(b)
          BY <4>1, PositionsKept
        <5>3. r.page * PageSize \in Int
          BY DEF Requests
        <5> HIDE DEF r
        <5> QED BY <5>1, <5>2, <5>3
      <4> QED BY <4>2
    <3> QED BY <3>1
  <2>3. \A b \in bans' : b.asn = a => b \in bans
    BY DEF BansKept
  <2>4. \A i \in DOMAIN rows' :
           rows'[i].asn = a /\ rows'[i].status = "active" =>
             i \in DOMAIN rows /\ rows[i].asn = a /\ rows[i].status = "active"
    BY DEF RowsKept
  <2> QED BY <2>1, <2>2, <2>3, <2>4 DEF Cleans
<1>5. ASSUME NEW t \in Threads, Pushes(req'[t], a)
      PROVE  Feeds(req[t], a)'
  <2>1. req'[t] = req[t] /\ Feeds(req[t], a)
    BY <1>1, <1>5 DEF Sound
  <2>2. \A i \in DOMAIN req[t].rows : rows'[i] = rows[i]
    BY <1>5, <2>1 DEF Own, Pushes, RowsKept
  <2> QED BY <1>3, <2>1, <2>2 DEF Feeds
<1>6. Settled(a) => Settled(a)'
  <2>1. (\A i \in DOMAIN rows' : rows'[i].asn = a => rows'[i].status = "revoked")
          => \A i \in DOMAIN rows : rows[i].asn = a => rows[i].status = "revoked"
    BY DEF RowsKept
  <2>2. \A i \in DOMAIN rows' :
           rows'[i].asn = a /\ rows'[i].status = "active" =>
             i \in DOMAIN rows /\ rows'[i] = rows[i]
    BY DEF RowsKept
  <2>3. \A b \in bans' : b.asn = a => b \in bans
    BY DEF BansKept
  <2> QED BY <1>3, <2>1, <2>2, <2>3 DEF Settled
<1>7. (\A t \in Threads : ~Revokes(req'[t], a)) =>
        \A t \in Threads : ~Revokes(req[t], a)
  BY <1>1
<1> QED BY <1>2, <1>4, <1>5, <1>6, <1>7 DEF Sound

\* A request that revokes AS a is the only one that pushes or revokes it, so
\* that only what it does itself counts.
LEMMA RevokerMoves ==
    ASSUME NEW a \in Asns, Sound(a), NEW t \in Threads, Revokes(req[t], a),
           NEW r, \A u \in Threads : req'[u] = IF u = t THEN r ELSE req[u],
           \A u \in Threads : Own(req[u]),
           \/ /\ Revokes(r, a) /\ Cleans(r, a)'
              /\ r.pc = "list" => req[t].pc = "list"
           \/ ~Revokes(r, a) /\ ~Pushes(r, a) /\ Settled(a)'
    PROVE  Sound(a)'
<1>1. ASSUME NEW u \in Threads, u # t
      PROVE  /\ ~Revokes(req[u], a) /\ ~Pushes(req[u], a)
             /\ ~(req[t].pc = "list" /\ req[u].pc \in RevokePcs)
             /\ req[u].pc # "list"
  <2>1. ~Revokes(req[u], a) /\ ~Pushes(req[u], a)
    BY <1>1 DEF Sound, Alone
  <2>2. ~(req[t].pc = "list" /\ req[u].pc \in RevokePcs)
    BY <1>1 DEF Sound, Alone
  <2>3. req[u].pc # "list"
    BY <2>1 DEF Own, Revokes, RevokePcs
  <2> QED BY <2>1, <2>2, <2>3
<1>2. ~(Revokes(r, a) /\ Pushes(r, a))
  BY DEF Revokes, Pushes, RevokePcs, PushPcs
<1>3. Alone(a)'
  BY <1>1, <1>2 DEF Alone
<1>4. \A u \in Threads : /\ Revokes(req'[u], a) => u = t /\ Cleans(r, a)'
                         /\ ~Pushes(req'[u], a) \/ (u = t /\ Pushes(r, a))
  BY <1>1
<1>5. \A u \in Threads : ~Pushes(req'[u], a)
  BY <1>2, <1>4
<1>6. (\A u \in Threads : ~Revokes(req'[u], a)) => Settled(a)'
  <2>1. req'[t] = r
    OBVIOUS
  <2> QED BY <2>1
<1>7. \A u \in Threads : Revokes(req'[u], a) => Cleans(req[u], a)'
  BY <1>4
<1> QED BY <1>3, <1>5, <1>6, <1>7 DEF Sound

\* While one pushes AS a nobody revokes it; further pushes of it lose nothing.
LEMMA PusherMoves ==
    ASSUME NEW a \in Asns, Sound(a), NEW t \in Threads, Pushes(req[t], a),
           NEW r, \A u \in Threads : req'[u] = IF u = t THEN r ELSE req[u],
           \A u \in Threads : Own(req[u]),
           ~Revokes(r, a), Pushes(r, a) => Feeds(r, a)', Settled(a)',
           bans \subseteq bans',
           \A i \in DOMAIN rows : rows[i].status # "revoked"
                                    => rows'[i].status # "revoked"
    PROVE  Sound(a)'
<1>1. \A u \in Threads : ~Revokes(req[u], a)
  BY DEF Sound, Alone
<1>2. \A u \in Threads : ~Revokes(req'[u], a)
  BY <1>1
<1>3. Alone(a)'
  BY <1>2 DEF Alone
<1>4. ASSUME NEW u \in Threads, Pushes(req'[u], a), u # t
      PROVE  Feeds(req[u], a)'
  <2>1. req'[u] = req[u] /\ Feeds(req[u], a)
    BY <1>4 DEF Sound
  <2>2. \A g : Banned(a, g) => Banned(a, g)'
    BY DEF Banned
  <2>3. \A i \in DOMAIN req[u].rows : i \in DOMAIN rows
    BY DEF Own
  <2> QED BY <2>1, <2>2, <2>3 DEF Feeds
<1>5. \A u \in Threads : Pushes(req'[u], a) => Feeds(req[u], a)'
  BY <1>4
<1> QED BY <1>2, <1>3, <1>5 DEF Sound

\* Rows are never deleted and stay with their AS, so that what the other
\* requests have read remains theirs.
LEMMA OwnKept ==
    ASSUME NEW t \in Threads, NEW r, Own(r)',
           \A u \in Threads : Own(req[u]),
           \A u \in Threads : req'[u] = IF u = t THEN r ELSE req[u],
           \A i \in DOMAIN rows : i \in DOMAIN rows' /\ rows'[i].asn = rows[i].asn
    PROVE  \A u \in Threads : Own(req[u])'
<1> SUFFICES ASSUME NEW u \in Threads, u # t PROVE Own(req[u])'
  <2>1. req'[t] = r
    OBVIOUS
  <2> QED BY <2>1 DEF Own
<1> QED BY DEF Own

\* A request that does nothing pushes and revokes nothing.
LEMMA IdleOwn ==
    /\ Own(Idle) /\ Own(Idle)' /\ Idle.pc \notin RevokePcs
    /\ \A a : ~Revokes(Idle, a) /\ ~Pushes(Idle, a)
<1>1. DOMAIN <<>> = {}
  OBVIOUS
<1> QED BY <1>1 DEF Own, Idle, Revokes, Pushes, RevokePcs, PushPcs

\* What the moving request becomes, and that the others stay.
LEMMA Others ==
    ASSUME PushInv, NEW t \in Threads, NEW r, req' = [req EXCEPT ![t] = r]
    PROVE  \A u \in Threads : req'[u] = IF u = t THEN r ELSE req[u]
BY DEF PushInv, StateType

\* An AS is sound after a step of a request that has nothing to do with it.
LEMMA MovesElsewhere ==
    ASSUME AsnAssumption, PushInv, NEW a \in Asns, Sound(a), RowsKept(a),
           BansKept(a), Numbered', \A u \in Threads : Own(req[u]),
           NEW t \in Threads, NEW r, req' = [req EXCEPT ![t] = r],
           ~Revokes(req[t], a), ~Pushes(req[t], a),
           ~Revokes(r, a), ~Pushes(r, a),
           r.pc \in RevokePcs => req[t].pc \in RevokePcs \/ Listers = {}
    PROVE  Sound(a)'
<1>1. PageSize \in Nat /\ req \in [Threads -> Requests]
  BY DEF AsnAssumption, PushInv, StateType
<1>2. \A u \in Threads :
        /\ \/ req'[u] = req[u]
           \/ /\ ~Revokes(req[u], a) /\ ~Pushes(req[u], a)
              /\ ~Revokes(req'[u], a) /\ ~Pushes(req'[u], a)
        /\ req'[u].pc \in RevokePcs => req[u].pc \in RevokePcs \/ Listers = {}
  <2>1. \A u \in Threads : req'[u] = IF u = t THEN r ELSE req[u]
    BY Others
  <2> QED BY <2>1
<1> QED BY <1>1, <1>2, Elsewhere

-----------------------------------------------------------------------------
(* pushIntent.                                                             *)

\* The steps of a push that write its row, to which they give another status
\* than revoked: active without an error only if every range is banned.
LEMMA PushWritesSound ==
    ASSUME AsnAssumption, PushInv, BanInv, NEW t \in Threads,
           req[t].pc \in PushPcs, NEW i \in DOMAIN req[t].rows,
           NEW row, Save(i, row), row.asn = req[t].rows[i].asn,
           row.status # "revoked",
           row.status = "active" /\ row.err = "" /\ row.asn \notin excused
             => Banned(row.asn, row.fed),
           NEW r, req' = [req EXCEPT ![t] = r],
           \/ r = Idle
           \/ /\ r.pc = "fetch" /\ r.asns = req[t].asns
              /\ DOMAIN r.rows = DOMAIN req[t].rows
              /\ r.rows[i].asn = row.asn,
           UNCHANGED <<bans, lastBan, excused>>
    PROVE  BanInv'
<1> USE DEF BanInv
<1>1. PICK a0 \in Asns : req[t].asns = {a0}
  BY DEF Own
<1>2. /\ i \in DOMAIN rows /\ rows[i].asn = a0 /\ row.asn = a0
      /\ DOMAIN req[t].rows = {i}
  BY <1>1 DEF Own, PushInv, LocalsInv, Holds, PushPcs
<1>3. /\ DOMAIN rows' = DOMAIN rows
      /\ \A j \in DOMAIN rows : rows'[j] = IF j = i THEN row ELSE rows[j]
  <2>1. PICK ids \in SUBSET Ids : rows \in [ids -> Rows]
    BY DEF PushInv, StateType, Tables
  <2> QED BY <1>2, <2>1 DEF Save
<1>4. \A u \in Threads : req'[u] = IF u = t THEN r ELSE req[u]
  <2>1. req \in [Threads -> Requests]
    BY DEF PushInv, StateType
  <2> QED BY <2>1
<1>5. Own(r)'
  <2>1. CASE r = Idle
    BY <2>1, IdleOwn
  <2>2. CASE /\ r.pc = "fetch" /\ r.asns = req[t].asns
             /\ DOMAIN r.rows = DOMAIN req[t].rows /\ r.rows[i].asn = row.asn
    BY <1>1, <1>2, <1>3, <2>2 DEF Own
  <2> QED BY <2>1, <2>2
<1>6. \A u \in Threads : Own(req[u])'
  BY <1>2, <1>3, <1>4, <1>5, OwnKept
<1>7. Numbered'
  BY DEF Numbered
<1>8. /\ r.pc \notin RevokePcs /\ \A a : ~Revokes(r, a)
      /\ \A a : Pushes(r, a) => r.pc = "fetch" /\ a = a0
                                /\ DOMAIN r.rows = {i}
  BY <1>1, <1>2, IdleOwn DEF Revokes, Pushes, RevokePcs
<1>9. \A a : /\ ~Revokes(req[t], a) /\ (Pushes(req[t], a) <=> a = a0)
  BY <1>1 DEF Revokes, Pushes, RevokePcs, PushPcs
<1>10. ASSUME NEW a \in Asns \ excused, a # a0
       PROVE  Sound(a)'
  <2>1. RowsKept(a) /\ BansKept(a)
    BY <1>2, <1>3, <1>10 DEF RowsKept, BansKept
  <2>2. ~Pushes(r, a) /\ ~Pushes(req[t], a)
    BY <1>8, <1>9, <1>10
  <2> QED BY <1>7, <1>8, <1>9, <2>1, <2>2, MovesElsewhere
<1>11. ASSUME a0 \notin excused
       PROVE  Sound(a0)'
  <2>1. Sound(a0) /\ Settled(a0)
    BY <1>9, <1>11 DEF Sound, Alone
  <2>2. Settled(a0)'
    <3>1. \A g : Banned(a0, g) => Banned(a0, g)'
      BY DEF Banned
    <3>2. rows'[i].status # "revoked" /\ rows'[i].asn = a0 /\ i \in DOMAIN rows'
      BY <1>2, <1>3
    <3>3. \A j \in DOMAIN rows' :
            rows'[j].asn = a0 /\ rows'[j].status = "active" /\ rows'[j].err = ""
              => Banned(a0, rows'[j].fed)
      BY <1>2, <1>3, <1>11, <2>1 DEF Settled
    <3> QED BY <3>1, <3>2, <3>3 DEF Settled
  <2>3. Pushes(r, a0) => Feeds(r, a0)'
    BY <1>2, <1>3, <1>8 DEF Feeds
  <2>4. \A j \in DOMAIN rows : rows[j].status # "revoked"
                                 => rows'[j].status # "revoked"
    BY <1>3
  <2> QED BY <1>4, <1>8, <1>9, <2>1, <2>2, <2>3, <2>4, PusherMoves
<1> QED BY <1>6, <1>7, <1>10, <1>11

\* The end of a push.
LEMMA ConcludeSound ==
    ASSUME AsnAssumption, PushInv, BanInv, NEW t \in Threads,
           req[t].pc \in PushPcs,
           NEW status \in Statuses \ {"revoked"}, NEW err \in Errors,
           NEW fed \in SUBSET Ranges, Conclude(t, status, err, fed),
           UNCHANGED <<bans, lastBan, excused>>,
           \A a \in req[t].asns \ excused :
               status = "active" /\ err = "" => Banned(a, fed)
    PROVE  BanInv'
<1>1. PICK i \in DOMAIN req[t].rows :
        Save(i, [req[t].rows[i] EXCEPT !.status = status, !.err = err,
                                       !.fed = fed])
  BY DEF Conclude
<1>2. req[t].rows[i] \in Rows
  BY TableType DEF PushInv, StateType, Requests, IsTable
<1>3. req[t].rows[i].asn \in req[t].asns
  BY DEF BanInv, Own
<1> DEFINE row == [req[t].rows[i] EXCEPT !.status = status, !.err = err,
                                         !.fed = fed]
<1>4. /\ row.status = status /\ row.err = err /\ row.fed = fed
      /\ row.asn = req[t].rows[i].asn
  BY <1>2 DEF Rows
<1>5. Save(i, row)
  BY <1>1
<1>6. req' = [req EXCEPT ![t] = Idle]
  BY DEF Conclude, End, Goto
<1> HIDE DEF row
<1> QED BY <1>3, <1>4, <1>5, <1>6, PushWritesSound

\* A push goes on to ban or bans a range, without writing its row.
LEMMA PushGoesOn ==
    ASSUME AsnAssumption, PushInv, BanInv, NEW t \in Threads,
           req[t].pc \in {"fetch", "ban"}, NEW r,
           req' = [req EXCEPT ![t] = r], UNCHANGED <<rows, excused>>,
           r.pc = "ban" /\ r.asns = req[t].asns /\ r.rows = req[t].rows,
           \/ UNCHANGED <<bans, lastBan>>
           \/ \E a \in req[t].asns, g \in Ranges : Posted(a, g),
           \A a \in req[t].asns \ excused :
               ~r.fail => Banned(a, r.feed \ r.todo)'
    PROVE  BanInv'
<1> USE DEF BanInv
<1>1. PICK a0 \in Asns : req[t].asns = {a0}
  BY DEF Own, PushPcs
<1>2. \A u \in Threads : req'[u] = IF u = t THEN r ELSE req[u]
  BY Others
<1>3. Own(r)'
  BY <1>1 DEF Own, PushPcs
<1>4. \A u \in Threads : Own(req[u])'
  BY <1>2, <1>3, OwnKept
<1>5. /\ Numbered' /\ bans \subseteq bans'
      /\ \A b \in bans' : b \in bans \/ b.asn = a0
  <2>1. CASE UNCHANGED <<bans, lastBan>>
    BY <2>1 DEF Numbered
  <2>2. ASSUME NEW g \in Ranges, Posted(a0, g)
        PROVE  <1>5!:
    <3> DEFINE new == [id |-> lastBan + 1, asn |-> a0, range |-> g]
    <3>1. bans' = bans \cup {new} /\ lastBan' = lastBan + 1
      BY <2>2 DEF Posted
    <3>2. new.id = lastBan + 1 /\ new.asn = a0
      OBVIOUS
    <3> HIDE DEF new
    <3>3. lastBan \in Nat /\ \A b \in bans : b.id \in Nat
      BY DEF PushInv, StateType, Bans, AsnAssumption
    <3>4. IsFiniteSet(bans')
      BY <3>1, FS_AddElement DEF Numbered
    <3>5. \A b \in bans' : b.id <= lastBan'
      BY <3>1, <3>2, <3>3 DEF Numbered
    <3>6. \A b, c \in bans' : b.id = c.id => b = c
      BY <3>1, <3>2, <3>3 DEF Numbered
    <3> QED BY <3>1, <3>2, <3>4, <3>5, <3>6 DEF Numbered
  <2> QED BY <1>1, <2>1, <2>2
<1>6. \A a : /\ ~Revokes(req[t], a) /\ (Pushes(req[t], a) <=> a = a0)
             /\ ~Revokes(r, a) /\ (Pushes(r, a) <=> a = a0)
  BY <1>1 DEF Revokes, Pushes, RevokePcs, PushPcs
<1>7. ASSUME NEW a \in Asns \ excused, a # a0
      PROVE  Sound(a)'
  <2>1. RowsKept(a) /\ BansKept(a)
    BY <1>5, <1>7 DEF RowsKept, BansKept
  <2>2. r.pc \notin RevokePcs
    BY DEF RevokePcs
  <2> QED BY <1>5, <1>6, <1>7, <2>1, <2>2, MovesElsewhere
<1>8. ASSUME a0 \notin excused
      PROVE  Sound(a0)'
  <2>1. Sound(a0) /\ Settled(a0) /\ Feeds(req[t], a0)
    BY <1>6, <1>8 DEF Sound, Alone
  <2>2. \A g : Banned(a0, g) => Banned(a0, g)'
    BY <1>5 DEF Banned
  <2>3. PICK i \in DOMAIN req[t].rows : i \in DOMAIN rows /\ rows[i].asn = a0
    BY <1>1 DEF Own, PushInv, LocalsInv, Holds
  <2>4. \A j \in DOMAIN req[t].rows : rows[j].status # "revoked"
    BY <2>1 DEF Feeds
  <2>5. Settled(a0)'
    BY <2>1, <2>2, <2>3, <2>4 DEF Settled
  <2>6. Feeds(r, a0)'
    BY <1>1, <1>8, <2>4 DEF Feeds
  <2> QED BY <1>2, <1>5, <1>6, <2>1, <2>5, <2>6, PusherMoves
<1> QED BY <1>4, <1>5, <1>7, <1>8

\* A push that ends as active without an error has banned every range.
LEMMA PushSound ==
    ASSUME AsnAssumption, PushInv, BanInv, NEW t \in Threads, Push(t)
    PROVE  BanInv'
<1>1. /\ req[t] \in Requests /\ Holds(req[t]) /\ Own(req[t])
      /\ PushPcs = {"pend", "fetch", "ban"}
  BY DEF PushInv, StateType, LocalsInv, BanInv, PushPcs
<1>values. /\ {"failed", "active"} \subseteq Statuses \ {"revoked"}
           /\ {"", "partial", "code"} \subseteq Errors /\ {} \in SUBSET Ranges
  BY DEF Statuses, Errors
<1>2. CASE PushPend(t)
  <2>1. PICK i \in DOMAIN req[t].rows :
          LET row == [req[t].rows[i] EXCEPT !.status = "pending", !.err = ""]
          IN  /\ Save(i, row)
              /\ Goto(t, [req[t] EXCEPT !.pc = "fetch", !.rows[i] = row])
    BY <1>2 DEF PushPend
  <2> DEFINE row == [req[t].rows[i] EXCEPT !.status = "pending", !.err = ""]
             table == [req[t].rows EXCEPT ![i] = row]
             r == [req[t] EXCEPT !.pc = "fetch", !.rows = table]
  <2>2. row.status = "pending" /\ row.asn = req[t].rows[i].asn
    <3>1. req[t].rows[i] \in Rows
      BY <1>1, TableType DEF Requests, IsTable
    <3> QED BY <3>1 DEF Rows
  <2>3. Save(i, row) /\ req' = [req EXCEPT ![t] = r]
    BY <2>1 DEF Goto
  <2> HIDE DEF row
  <2>4. DOMAIN table = DOMAIN req[t].rows /\ table[i] = row
    <3>1. PICK ids \in SUBSET Ids : req[t].rows \in [ids -> Rows]
      BY <1>1 DEF Requests, Tables
    <3> QED BY <3>1
  <2> HIDE DEF table
  <2>5. /\ r.pc = "fetch" /\ r.asns = req[t].asns /\ r.rows = table
    BY <1>1 DEF Requests
  <2> HIDE DEF r
  <2>6. req[t].pc \in PushPcs /\ UNCHANGED <<bans, lastBan, excused>>
    BY <1>1, <1>2 DEF PushPend
  <2> QED BY <2>2, <2>3, <2>4, <2>5, <2>6, PushWritesSound
<1>3. CASE PushFetch(t)
  <2>1. PICK feed \in SUBSET Ranges :
          \/ feed = {} /\ Conclude(t, "failed", "code", {})
          \/ /\ Goto(t, [req[t] EXCEPT !.pc = "ban", !.todo = feed,
                                       !.feed = feed])
             /\ UNCHANGED rows
    BY <1>3 DEF PushFetch
  <2>2. req[t].pc = "fetch" /\ UNCHANGED <<bans, lastBan, excused>>
    BY <1>3 DEF PushFetch
  <2>3. CASE Conclude(t, "failed", "code", {})
    BY <1>1, <1>values, <2>2, <2>3, ConcludeSound
  <2>4. CASE /\ Goto(t, [req[t] EXCEPT !.pc = "ban", !.todo = feed,
                                       !.feed = feed])
             /\ UNCHANGED rows
    <3>r. PICK r : r = [req[t] EXCEPT !.pc = "ban", !.todo = feed, !.feed = feed]
      OBVIOUS
    <3>1. /\ r.pc = "ban" /\ r.asns = req[t].asns /\ r.rows = req[t].rows
          /\ r.feed = feed /\ r.todo = feed
      BY <1>1, <3>r DEF Requests
    <3>2. req' = [req EXCEPT ![t] = r]
      BY <2>4, <3>r DEF Goto
    <3>3. \A a : Banned(a, r.feed \ r.todo)'
      BY <3>1 DEF Banned
    <3> QED BY <2>2, <2>4, <3>1, <3>2, <3>3, PushGoesOn
  <2> QED BY <2>1, <2>3, <2>4
<1>4. CASE PushStop(t)
  <2>1. /\ req[t].pc = "ban" /\ Conclude(t, "failed", "code", {})
        /\ UNCHANGED <<bans, lastBan, excused>>
    BY <1>4 DEF PushStop, StopFailed
  <2> QED BY <1>1, <1>values, <2>1, ConcludeSound
<1>5. CASE PushDone(t)
  <2>1. /\ req[t].pc = "ban" /\ req[t].todo = {}
        /\ UNCHANGED <<bans, lastBan, excused>>
    BY <1>5 DEF PushDone
  <2>2. CASE ~req[t].ok
    BY <1>1, <1>5, <1>values, <2>1, <2>2, ConcludeSound DEF PushDone
  <2>3. CASE req[t].ok
    <3> DEFINE err == IF req[t].fail THEN "partial" ELSE ""
    <3>1. Conclude(t, "active", err, req[t].feed)
      BY <1>5, <2>3 DEF PushDone
    <3>2. err \in Errors /\ req[t].feed \in SUBSET Ranges
      BY <1>1 DEF Errors, Requests
    <3>3. err = "" => ~req[t].fail
      OBVIOUS
    <3> HIDE DEF err
    <3>4. ASSUME NEW a \in req[t].asns \ excused, ~req[t].fail
          PROVE  Banned(a, req[t].feed)
      <4>1. a \in Asns /\ Pushes(req[t], a)
        BY <1>1, <2>1, <3>4 DEF Requests, Pushes
      <4>2. Feeds(req[t], a)
        BY <3>4, <4>1 DEF BanInv, Sound
      <4>3. req[t].feed \ req[t].todo = req[t].feed
        BY <2>1
      <4> QED BY <2>1, <3>4, <4>2, <4>3 DEF Feeds
    <3> QED BY <1>1, <1>values, <2>1, <3>1, <3>2, <3>3, <3>4, ConcludeSound
  <2> QED BY <2>2, <2>3
<1>6. CASE PushBan(t)
  <2>1. PICK rg \in req[t].todo, a0 \in req[t].asns, okay \in BOOLEAN :
          /\ BanNext(t, rg, okay) /\ (okay => Posted(a0, rg))
          /\ Posted(a0, rg) \/ UNCHANGED <<bans, lastBan>>
    BY <1>6 DEF PushBan
  <2>r. PICK r : r = [req[t] EXCEPT !.todo = @ \ {rg}, !.ok = @ \/ okay,
                                    !.fail = @ \/ ~okay]
    OBVIOUS
  <2>2. req[t].pc = "ban" /\ UNCHANGED <<rows, excused>>
    BY <1>6 DEF PushBan
  <2>3. req' = [req EXCEPT ![t] = r]
    BY <2>1, <2>r DEF BanNext, Goto
  <2>4. /\ r.pc = "ban" /\ r.asns = req[t].asns /\ r.rows = req[t].rows
        /\ r.feed = req[t].feed /\ r.todo = req[t].todo \ {rg}
    BY <1>1, <2>2, <2>r DEF Requests
  <2>5. ~r.fail => ~req[t].fail /\ okay
    BY <1>1, <2>r DEF Requests
  <2>6. ASSUME NEW a \in req[t].asns \ excused, ~r.fail
        PROVE  Banned(a, r.feed \ r.todo)'
    <3>1. a \in Asns /\ Pushes(req[t], a) /\ a = a0
      BY <1>1, <2>2, <2>6 DEF Requests, Pushes, Own
    <3>2. Banned(a, req[t].feed \ req[t].todo)
      BY <2>2, <2>5, <2>6, <3>1 DEF BanInv, Sound, Feeds
    <3>3. bans \subseteq bans' /\ \E b \in bans' : b.asn = a /\ b.range = rg
      <4>1. Posted(a0, rg)
        BY <2>1, <2>5, <2>6
      <4> DEFINE new == [id |-> lastBan + 1, asn |-> a0, range |-> rg]
      <4>2. bans' = bans \cup {new} /\ new.asn = a0 /\ new.range = rg
        BY <4>1 DEF Posted
      <4> QED BY <3>1, <4>2
    <3> QED BY <2>4, <3>2, <3>3 DEF Banned
  <2>7. rg \in Ranges
    BY <1>1, <2>2 DEF Holds
  <2> QED BY <2>1, <2>2, <2>3, <2>4, <2>6, <2>7, PushGoesOn
<1> QED BY <1>2, <1>3, <1>4, <1>5, <1>6 DEF Push

-----------------------------------------------------------------------------
(* The start of requests.                                                  *)

\* The first to revoke an AS that nobody pushes has only itself to look after.
LEMMA FirstRevoker ==
    ASSUME NEW a \in Asns, Revokers = {}, ~Pushing(a), NEW t \in Threads,
           NEW r, \A u \in Threads : req'[u] = IF u = t THEN r ELSE req[u],
           Revokes(r, a), Cleans(r, a)'
    PROVE  Sound(a)'
<1>1. \A u \in Threads : ~Revokes(req[u], a) /\ req[u].pc \notin RevokePcs
  BY DEF Revokers, Revokes, RevokePcs
<1>2. \A u \in Threads : ~Pushes(req[u], a)
  BY DEF Pushing, Pushes, PushPcs
<1>3. ~Pushes(r, a) /\ req'[t] = r
  BY DEF Revokes, Pushes, RevokePcs, PushPcs
<1>4. \A u \in Threads : ~Pushes(req'[u], a) /\ (u # t => ~Revokes(req'[u], a))
  BY <1>1, <1>2, <1>3
<1>5. Alone(a)'
  <2>1. \A u \in Threads : req'[u].pc \in RevokePcs => u = t
    BY <1>1
  <2> QED BY <1>4, <2>1 DEF Alone
<1>6. \A u \in Threads : Revokes(req'[u], a) => Cleans(req[u], a)'
  BY <1>3, <1>4
<1> QED BY <1>3, <1>4, <1>5, <1>6 DEF Sound

\* A request that starts changes no row and no decision, and an AS that it
\* pushes or revokes while another revokes it is excused.
LEMMA StartSound ==
    ASSUME AsnAssumption, PushInv, BanInv, NEW t \in Threads,
           \/ \E a \in Asns : AddIntent(t, a) \/ SuggestCandidate(t, a)
           \/ \E i \in Ids : PushStart(t, i) \/ RevokeStart(t, i)
           \/ RevokeAllStart(t)
    PROVE  BanInv'
<1> USE DEF BanInv
<1>1. req[t] = Idle /\ UNCHANGED <<profile, rows, bans, lastBan>>
  BY DEF AddIntent, SuggestCandidate, PushStart, RevokeStart, RevokeAllStart,
     Begin
<1>2. Numbered'
  BY <1>1 DEF Numbered
<1>3. ASSUME NEW r, req' = [req EXCEPT ![t] = r], Own(r)
      PROVE  \A u \in Threads : Own(req[u])'
  <2>1. Own(r)'
    BY <1>1, <1>3 DEF Own
  <2> QED BY <1>1, <1>3, <2>1, Others, OwnKept
<1>4. ASSUME NEW r, req' = [req EXCEPT ![t] = r], NEW a \in Asns \ excused,
             ~Revokes(r, a), ~Pushes(r, a),
             r.pc \notin RevokePcs \/ Listers = {}
      PROVE  Sound(a)'
  <2>1. RowsKept(a) /\ BansKept(a)
    BY <1>1 DEF RowsKept, BansKept
  <2> QED BY <1>1, <1>2, <1>4, <2>1, IdleOwn, MovesElsewhere
<1>5. Idle.rows = <<>> /\ DOMAIN <<>> = {}
  BY DEF Idle
<1>6. ASSUME NEW a0 \in Asns, AddIntent(t, a0) \/ SuggestCandidate(t, a0)
      PROVE  BanInv'
  <2>1. PICK r : /\ req' = [req EXCEPT ![t] = r] /\ r.pc \in {"add", "suggest"}
                 /\ r.rows = <<>>
    <3>1. PICK pc \in {"add", "suggest"} :
            req' = [req EXCEPT ![t] = [Idle EXCEPT !.pc = pc, !.asns = {a0}]]
      BY <1>6 DEF AddIntent, SuggestCandidate, Begin
    <3>2. [Idle EXCEPT !.pc = pc, !.asns = {a0}].pc = pc
          /\ [Idle EXCEPT !.pc = pc, !.asns = {a0}].rows = <<>>
      BY DEF Idle
    <3> QED BY <3>1, <3>2
  <2>2. /\ Own(r) /\ r.pc \notin RevokePcs
        /\ \A a : ~Revokes(r, a) /\ ~Pushes(r, a)
    BY <1>5, <2>1 DEF Own, Revokes, Pushes, RevokePcs, PushPcs
  <2>3. excused' = excused
    BY <1>6 DEF AddIntent, SuggestCandidate
  <2> QED BY <1>2, <1>3, <1>4, <2>1, <2>2, <2>3
<1>7. ASSUME NEW i \in Ids, PushStart(t, i)
      PROVE  BanInv'
  <2>1. PICK r : r = [Idle EXCEPT !.pc = "pend", !.asns = {rows[i].asn},
                                  !.rows = [j \in {i} |-> rows[i]]]
    OBVIOUS
  <2>2. PICK a0 : a0 = rows[i].asn
    OBVIOUS
  <2>3. /\ req' = [req EXCEPT ![t] = r] /\ i \in DOMAIN rows
        /\ excused' = IF Revokers # {} THEN excused \cup {a0} ELSE excused
    BY <1>7, <2>1, <2>2 DEF PushStart, Begin
  <2>4. a0 \in Asns
    BY <2>2, <2>3, TableType DEF PushInv, StateType, IsTable, Rows
  <2>5. /\ r.pc = "pend" /\ r.asns = {a0}
        /\ DOMAIN r.rows = {i} /\ r.rows[i] = rows[i]
    BY <2>1, <2>2 DEF Idle
  <2>6. Own(r)
    BY <2>2, <2>3, <2>4, <2>5 DEF Own
  <2>7. r.pc \notin RevokePcs /\ \A a : ~Revokes(r, a) /\ (Pushes(r, a) => a = a0)
    BY <2>5 DEF Revokes, Pushes, RevokePcs
  <2>8. ASSUME NEW a \in Asns \ excused', a # a0
        PROVE  Sound(a)'
    <3>1. a \in Asns \ excused
      BY <2>3, <2>8
    <3> QED BY <1>4, <2>3, <2>7, <2>8, <3>1
  <2>9. ASSUME a0 \notin excused'
        PROVE  Sound(a0)'
    <3>1. Revokers = {} /\ Sound(a0)
      BY <2>3, <2>4, <2>9
    <3>2. \A u \in Threads : ~Revokes(req[u], a0)
      BY <3>1 DEF Revokers, Revokes, RevokePcs
    <3>3. \A u \in Threads : req'[u] = IF u = t THEN r ELSE req[u]
      BY <2>3, Others
    <3>4. \A u \in Threads : ~Revokes(req'[u], a0)
      BY <2>7, <3>2, <3>3
    <3>5. Alone(a0)'
      BY <3>4 DEF Alone
    <3>6. Settled(a0)'
      BY <1>1, <3>1, <3>2 DEF Sound, Settled, Banned
    <3>7. Feeds(r, a0)'
      BY <2>5 DEF Feeds
    <3>8. ASSUME NEW u \in Threads, u # t, Pushes(req'[u], a0)
          PROVE  Feeds(req[u], a0)'
      BY <1>1, <3>1, <3>3, <3>8 DEF Sound, Feeds, Banned
    <3>9. \A u \in Threads : Pushes(req'[u], a0) => Feeds(req[u], a0)'
      <4>1. req'[t] = r
        BY <3>3
      <4> QED BY <3>7, <3>8, <4>1
    <3> QED BY <3>4, <3>5, <3>6, <3>9 DEF Sound
  <2> QED BY <1>2, <1>3, <2>3, <2>6, <2>8, <2>9
<1>8. ASSUME NEW i \in Ids, RevokeStart(t, i)
      PROVE  BanInv'
  <2>1. PICK a0 : a0 = rows[i].asn
    OBVIOUS
  <2>2. PICK r : r = [Idle EXCEPT !.pc = "delete", !.asns = {a0}]
    OBVIOUS
  <2>3. /\ req' = [req EXCEPT ![t] = r] /\ i \in DOMAIN rows
        /\ excused' = IF Listing THEN Asns
                      ELSE IF Pushing(a0) \/ Revokers # {}
                           THEN excused \cup {a0} ELSE excused \ {a0}
    BY <1>8, <2>1, <2>2 DEF RevokeStart, Begin
  <2>4. a0 \in Asns
    BY <2>1, <2>3, TableType DEF PushInv, StateType, IsTable, Rows
  <2>5. r.pc = "delete" /\ r.asns = {a0} /\ r.rows = <<>>
    BY <2>2 DEF Idle
  <2>6. Own(r)
    BY <1>5, <2>5 DEF Own, PushPcs
  <2>7. \A a : (Revokes(r, a) <=> a = a0) /\ ~Pushes(r, a)
    BY <2>5 DEF Revokes, Pushes, RevokePcs, PushPcs
  <2>8. ASSUME NEW a \in Asns \ excused', a # a0
        PROVE  Sound(a)'
    <3>1. a \in Asns \ excused /\ Listers = {}
      BY <2>3, <2>8 DEF Listing, Listers
    <3> QED BY <1>4, <2>3, <2>7, <2>8, <3>1
  <2>9. ASSUME a0 \notin excused'
        PROVE  Sound(a0)'
    <3>1. Revokers = {} /\ ~Pushing(a0)
      BY <2>3, <2>4, <2>9
    <3>2. Cleans(r, a0)'
      BY <2>5 DEF Cleans
    <3> QED BY <2>3, <2>4, <2>7, <3>1, <3>2, Others, FirstRevoker
  <2> QED BY <1>2, <1>3, <2>3, <2>6, <2>8, <2>9
<1>9. CASE RevokeAllStart(t)
  <2>1. PICK r : r = [Idle EXCEPT !.pc = "list", !.asns = Asns]
    OBVIOUS
  <2>2. /\ req' = [req EXCEPT ![t] = r]
        /\ excused' = IF Revokers # {} THEN Asns ELSE {a \in Asns : Pushing(a)}
    BY <1>9, <2>1 DEF RevokeAllStart, Begin
  <2>3. r.pc = "list" /\ r.asns = Asns /\ r.rows = <<>> /\ r.page = 0
    BY <2>1 DEF Idle
  <2>4. Own(r)
    BY <1>5, <2>3 DEF Own, PushPcs
  <2>5. ASSUME NEW a \in Asns \ excused'
        PROVE  Sound(a)'
    <3>1. Revokers = {} /\ ~Pushing(a)
      BY <2>2, <2>5
    <3>2. Revokes(r, a)
      BY <2>3 DEF Revokes, RevokePcs
    <3>3. \A b \in bans' : Position(b)' > 0 * PageSize
      <4>1. \A b \in bans : Position(b) > 0
        BY Positions DEF PushInv, StateType
      <4>2. \A b \in bans : Position(b)' = Position(b)
        BY <1>1 DEF Position
      <4>3. 0 * PageSize = 0
        BY DEF AsnAssumption
      <4> QED BY <1>1, <4>1, <4>2, <4>3
    <3>4. Cleans(r, a)'
      BY <2>3, <3>3 DEF Cleans
    <3> QED BY <2>2, <3>1, <3>2, <3>4, Others, FirstRevoker
  <2> QED BY <1>2, <1>3, <2>2, <2>4, <2>5
<1> QED BY <1>6, <1>7, <1>8, <1>9

\* A row that is inserted is new.
LEMMA InsertSound ==
    ASSUME AsnAssumption, PushInv, BanInv, NEW t \in Threads, Insert(t)
    PROVE  BanInv'
<1> USE DEF BanInv
<1>1. PICK i, row :
        /\ i \in Ids \ DOMAIN rows /\ row.status \notin {"active", "revoked"}
        /\ rows' = [j \in DOMAIN rows \cup {i} |-> IF j # i THEN rows[j] ELSE row]
  <2>1. PICK i \in Ids \ DOMAIN rows, a \in req[t].asns :
          rows' = [j \in DOMAIN rows \cup {i} |->
                     IF j # i THEN rows[j]
                     ELSE [asn |-> a, err |-> "null", fed |-> {},
                           status |-> IF req[t].pc = "add" THEN "pending"
                                      ELSE "candidate"]]
    BY DEF Insert
  <2> QED BY <2>1
<1>2. /\ req' = [req EXCEPT ![t] = Idle] /\ req[t].pc \in {"add", "suggest"}
      /\ UNCHANGED <<bans, lastBan, excused>>
  BY DEF Insert, End, Goto
<1>3. \A j \in DOMAIN rows : j \in DOMAIN rows' /\ rows'[j] = rows[j]
  BY <1>1
<1>4. \A u \in Threads : Own(req[u])'
  <2>1. \A u \in Threads : req'[u] = IF u = t THEN Idle ELSE req[u]
    BY <1>2, Others
  <2>2. Own(Idle)'
    BY IdleOwn
  <2> QED BY <1>3, <2>1, <2>2, OwnKept
<1>5. Numbered'
  BY <1>2 DEF Numbered
<1>6. ASSUME NEW a \in Asns \ excused
      PROVE  Sound(a)'
  <2>1. RowsKept(a)
    BY <1>1, <1>3 DEF RowsKept
  <2>2. BansKept(a)
    BY <1>2 DEF BansKept
  <2>3. ~Revokes(req[t], a) /\ ~Pushes(req[t], a)
    BY <1>2 DEF Revokes, Pushes, RevokePcs, PushPcs
  <2> QED BY <1>2, <1>5, <2>1, <2>2, <2>3, IdleOwn, MovesElsewhere
<1> QED BY <1>2, <1>4, <1>5, <1>6

-----------------------------------------------------------------------------
(* Revocations.                                                            *)

\* What a revocation does concerns its own AS numbers only.
LEMMA RevokerSound ==
    ASSUME AsnAssumption, PushInv, BanInv, NEW t \in Threads,
           req[t].pc \in RevokePcs, NEW r, req' = [req EXCEPT ![t] = r],
           excused \subseteq excused', lastBan' = lastBan,
           bans' \subseteq bans, \A b \in bans \ bans' : b.asn \in req[t].asns,
           DOMAIN rows' = DOMAIN rows,
           \A i \in DOMAIN rows :
               /\ rows'[i].asn = rows[i].asn
               /\ rows[i].asn \notin req[t].asns => rows'[i] = rows[i],
           \/ /\ r = Idle
              /\ \A a \in (Asns \cap req[t].asns) \ excused' : Settled(a)'
           \/ /\ r.pc \in RevokePcs /\ r.asns = req[t].asns
              /\ r.pc = "list" => req[t].pc = "list"
              /\ Own(r)'
              /\ \A a \in (Asns \cap req[t].asns) \ excused' : Cleans(r, a)'
    PROVE  BanInv'
<1>1. Numbered'
  BY FS_Subset DEF BanInv, Numbered
<1>2. \A u \in Threads : req'[u] = IF u = t THEN r ELSE req[u]
  <2>1. req \in [Threads -> Requests]
    BY DEF PushInv, StateType
  <2> QED BY <2>1
<1> USE DEF BanInv
<1>3. \A u \in Threads : Own(req[u])'
  <2>1. Own(r)'
    BY IdleOwn
  <2> QED BY <1>2, <2>1, OwnKept
<1>4. \A a : (Revokes(req[t], a) <=> a \in req[t].asns) /\ ~Pushes(req[t], a)
  BY DEF Revokes, Pushes, RevokePcs, PushPcs
<1>5. \A a : /\ ~Pushes(r, a) /\ (Revokes(r, a) => a \in req[t].asns)
             /\ r # Idle => (Revokes(r, a) <=> a \in req[t].asns)
  BY IdleOwn DEF Revokes, Pushes, RevokePcs, PushPcs
<1>6. ASSUME NEW a \in Asns \ excused', a \notin req[t].asns
      PROVE  Sound(a)'
  <2>1. RowsKept(a)
    BY <1>6 DEF RowsKept
  <2>2. Sound(a)
    BY <1>6
  <2>3. Listers = {}
    <3> SUFFICES ASSUME NEW u \in Threads, req[u].pc = "list" PROVE FALSE
      BY DEF Listers
    <3>1. Revokes(req[u], a)
      BY <1>6 DEF Own, Revokes, RevokePcs
    <3>2. u = t
      BY <2>2, <3>1 DEF Sound, Alone
    <3> QED BY <1>4, <1>6, <3>1, <3>2
  <2>4. BansKept(a)
    BY <1>6, <2>3 DEF BansKept
  <2> QED BY <1>1, <1>4, <1>5, <1>6, <2>1, <2>2, <2>3, <2>4, MovesElsewhere
<1>7. ASSUME NEW a \in Asns \ excused', a \in req[t].asns
      PROVE  Sound(a)'
  <2>1. Sound(a) /\ Revokes(req[t], a)
    BY <1>4, <1>7
  <2>2. CASE r = Idle
    <3>1. ~Revokes(r, a) /\ ~Pushes(r, a) /\ Idle.pc \notin RevokePcs
      BY <2>2, IdleOwn
    <3>2. Settled(a)'
      BY <1>7, <2>2, <3>1
    <3> QED BY <1>2, <2>1, <3>1, <3>2, RevokerMoves
  <2>3. CASE r # Idle
    <3>1. Revokes(r, a) /\ Cleans(r, a)' /\ (r.pc = "list" => req[t].pc = "list")
      BY <1>5, <1>7, <2>3
    <3> QED BY <1>2, <2>1, <3>1, RevokerMoves
  <2> QED BY <2>2, <2>3
<1> QED BY <1>1, <1>3, <1>6, <1>7

\* What is listed is deleted, and what is not listed is beyond the last page.
LEMMA RevokeSound ==
    ASSUME AsnAssumption, PushInv, BanInv, NEW t \in Threads,
           Revoke(t) \/ RevokeAll(t)
    PROVE  BanInv'
<1> DEFINE own == req[t].asns
<1>1. /\ req[t] \in Requests /\ Holds(req[t]) /\ Own(req[t])
      /\ bans \subseteq Bans /\ excused \subseteq Asns /\ Numbered
  BY DEF PushInv, StateType, LocalsInv, BanInv
<1>2. ASSUME NEW a \in Asns \ excused, a \in own, req[t].pc \in RevokePcs
      PROVE  Cleans(req[t], a)
  BY <1>2 DEF BanInv, Sound, Revokes
<1>3. CASE RevokeDelete(t)
  <2>1. PICK r : r = [req[t] EXCEPT !.pc = "select"]
    OBVIOUS
  <2>2. /\ req[t].pc = "delete" /\ req' = [req EXCEPT ![t] = r]
        /\ bans' = bans \ Deleted(own)
        /\ UNCHANGED <<rows, lastBan, excused>>
    BY <1>3, <2>1 DEF RevokeDelete, Goto
  <2>3. r.pc = "select" /\ r.asns = own /\ r.rows = req[t].rows
    BY <1>1, <2>1 DEF Requests
  <2>4. Own(r)'
    BY <1>1, <2>2, <2>3 DEF Own, PushPcs
  <2>5. \A a \in own : Cleans(r, a)'
    BY <2>2, <2>3 DEF Cleans, Deleted
  <2>6. bans' \subseteq bans /\ \A b \in bans \ bans' : b.asn \in own
    BY <2>2 DEF Deleted
  <2>7. {req[t].pc, r.pc} \subseteq RevokePcs
    BY <2>2, <2>3 DEF RevokePcs
  <2> QED BY <2>2, <2>3, <2>4, <2>5, <2>6, <2>7, RevokerSound
<1>4. CASE RevokeFails(t)
  <2>1. /\ req[t].pc = "delete" /\ req' = [req EXCEPT ![t] = Idle]
        /\ bans' \in {bans, bans \ Deleted(own)}
        /\ excused' = excused \cup own /\ UNCHANGED <<rows, lastBan>>
    BY <1>4 DEF RevokeFails, End, Goto
  <2>2. bans' \subseteq bans /\ \A b \in bans \ bans' : b.asn \in own
    BY <2>1 DEF Deleted
  <2>3. (Asns \cap own) \ excused' = {} /\ req[t].pc \in RevokePcs
    BY <2>1 DEF RevokePcs
  <2> QED BY <2>1, <2>2, <2>3, RevokerSound
<1>5. CASE Select(t)
  <2>1. PICK chosen : chosen = {i \in DOMAIN rows : rows[i].asn \in own}
    OBVIOUS
  <2>2. PICK r : r = [req[t] EXCEPT
                        !.pc = IF req[t].pc = "select" THEN "mark" ELSE "light",
                        !.rows = [i \in chosen |-> rows[i]], !.todo = chosen]
    OBVIOUS
  <2>3. /\ req' = [req EXCEPT ![t] = r]
        /\ UNCHANGED <<rows, bans, lastBan, excused>>
        /\ req[t].pc \in {"select", "sweep"}
        /\ req[t].pc = "sweep" => req[t].todo = {}
    BY <1>5, <2>1, <2>2 DEF Select, Goto
  <2>4. /\ r.pc = IF req[t].pc = "select" THEN "mark" ELSE "light"
        /\ r.asns = own /\ r.todo = chosen /\ r.rows = [i \in chosen |-> rows[i]]
    BY <1>1, <2>2 DEF Requests
  <2>5. /\ DOMAIN r.rows = chosen /\ \A i \in chosen : r.rows[i] = rows[i]
    BY <2>4
  <2>6. Own(r)'
    BY <1>1, <2>1, <2>3, <2>4, <2>5 DEF Own, PushPcs
  <2>7. {req[t].pc, r.pc} \subseteq RevokePcs
    BY <2>3, <2>4 DEF RevokePcs
  <2>8. ASSUME NEW a \in (Asns \cap own) \ excused
        PROVE  Cleans(r, a)'
    <3>1. Cleans(req[t], a)
      BY <1>2, <2>7, <2>8
    <3>2. \A b \in bans : b.asn # a
      BY <2>3, <3>1 DEF Cleans
    <3> QED BY <2>1, <2>3, <2>4, <2>8, <3>2 DEF Cleans
  <2> QED BY <2>3, <2>4, <2>6, <2>7, <2>8, RevokerSound
<1>6. CASE Mark(t)
  <2>1. PICK i, row :
          /\ i \in req[t].todo /\ Save(i, row) /\ row.status = "revoked"
          /\ row.asn = req[t].rows[i].asn
          /\ Goto(t, [req[t] EXCEPT !.todo = @ \ {i}])
          /\ i \in DOMAIN req[t].rows
    <3>1. PICK i \in req[t].todo :
            LET row == req[t].rows[i]
            IN  /\ Save(i, [row EXCEPT
                              !.status = "revoked",
                              !.err = IF @ = "null" THEN rows[i].err ELSE @])
                /\ Goto(t, [req[t] EXCEPT !.todo = @ \ {i}])
      BY <1>6 DEF Mark
    <3> DEFINE old == req[t].rows[i]
               err == IF old.err = "null" THEN rows[i].err ELSE old.err
               row == [old EXCEPT !.status = "revoked", !.err = err]
    <3>2. i \in DOMAIN req[t].rows
      BY <1>1, <1>6 DEF Holds, Mark
    <3>3. old \in Rows
      BY <1>1, <3>2, TableType DEF Requests, IsTable
    <3>4. row.status = "revoked" /\ row.asn = old.asn
      BY <3>3 DEF Rows
    <3> QED BY <3>1, <3>2, <3>4
  <2>2. PICK r : r = [req[t] EXCEPT !.todo = @ \ {i}]
    OBVIOUS
  <2>3. /\ req[t].pc \in {"mark", "light"} /\ req' = [req EXCEPT ![t] = r]
        /\ UNCHANGED <<bans, lastBan, excused>>
    BY <1>6, <2>1, <2>2 DEF Mark, Goto
  <2>4. /\ r.pc = req[t].pc /\ r.asns = own /\ r.rows = req[t].rows
        /\ r.todo = req[t].todo \ {i}
    BY <1>1, <2>2 DEF Requests
  <2>5. i \in DOMAIN rows /\ rows[i].asn = row.asn /\ row.asn \in own
    BY <1>1, <2>1 DEF Own
  <2>6. /\ DOMAIN rows' = DOMAIN rows
        /\ \A j \in DOMAIN rows : rows'[j] = IF j = i THEN row ELSE rows[j]
    <3>1. PICK ids \in SUBSET Ids : rows \in [ids -> Rows]
      BY DEF PushInv, StateType, Tables
    <3> QED BY <2>1, <2>5, <3>1 DEF Save
  <2>7. Own(r)'
    BY <1>1, <2>3, <2>4, <2>5, <2>6 DEF Own, PushPcs
  <2>8. {req[t].pc, r.pc} \subseteq RevokePcs /\ r.pc # "list"
    BY <2>3, <2>4 DEF RevokePcs
  <2>9. ASSUME NEW a \in (Asns \cap own) \ excused
        PROVE  Cleans(r, a)'
    <3>1. Cleans(req[t], a)
      BY <1>2, <2>8, <2>9
    <3>2. \A b \in bans : b.asn # a
      BY <2>3, <3>1 DEF Cleans
    <3>3. \A j \in DOMAIN rows' :
            rows'[j].asn = a /\ rows'[j].status = "active" => j \in r.todo
      BY <2>1, <2>3, <2>4, <2>6, <3>1 DEF Cleans
    <3> QED BY <2>3, <2>4, <3>2, <3>3 DEF Cleans
  <2> QED BY <2>3, <2>4, <2>5, <2>6, <2>7, <2>8, <2>9, RevokerSound
<1>7. CASE RevokeDone(t) \/ SwitchToLight(t)
  <2>1. /\ req[t].pc \in {"mark", "light"} /\ req[t].todo = {}
        /\ req' = [req EXCEPT ![t] = Idle]
        /\ UNCHANGED <<rows, bans, lastBan, excused>>
    BY <1>7 DEF RevokeDone, SwitchToLight, End, Goto
  <2>2. req[t].pc \in RevokePcs
    BY <2>1 DEF RevokePcs
  <2>3. ASSUME NEW a \in (Asns \cap own) \ excused
        PROVE  Settled(a)'
    <3>1. Cleans(req[t], a)
      BY <1>2, <2>2, <2>3
    <3>2. \A b \in bans : b.asn # a
      BY <2>1, <3>1 DEF Cleans
    <3>3. \A i \in DOMAIN rows : ~(rows[i].asn = a /\ rows[i].status = "active")
      BY <2>1, <3>1 DEF Cleans
    <3> QED BY <2>1, <3>2, <3>3 DEF Settled
  <2> QED BY <2>1, <2>2, <2>3, RevokerSound
<1>8. CASE ListPage(t)
  <2> DEFINE found == req[t].todo \cup PageAt(req[t].page)
             last == [req[t] EXCEPT !.pc = "sweep", !.todo = found]
             more == [req[t] EXCEPT !.todo = found, !.page = @ + 1]
  <2>1. req[t].pc = "list" /\ UNCHANGED <<rows, bans, lastBan>> /\ own = Asns
    BY <1>1, <1>8 DEF ListPage, Own
  <2>2. PICK r : /\ req' = [req EXCEPT ![t] = r]
                 /\ \/ /\ r = last /\ LastPage(t)
                       /\ excused' = IF req[t].page + 1 = MaxPages
                                     THEN excused \cup {b.asn : b \in bans \ found}
                                     ELSE excused
                    \/ r = more /\ excused' = excused
    BY <1>8 DEF ListPage, Goto
  <2>3. PICK n, listed : n = req[t].page /\ listed = found
    OBVIOUS
  <2>natural. n \in Nat
    BY <1>1, <2>3 DEF Requests, AsnAssumption
  <2>4. /\ excused \subseteq excused'
        /\ r.asns = own /\ r.rows = req[t].rows /\ r.todo = listed
        /\ \/ r.pc = "sweep"
           \/ r.pc = "list" /\ r.page = n + 1
    BY <1>1, <2>1, <2>2, <2>3 DEF Requests
  <2>5. Own(r)'
    BY <1>1, <2>1, <2>4 DEF Own, PushPcs
  <2>6. {req[t].pc, r.pc} \subseteq RevokePcs
    BY <2>1, <2>4 DEF RevokePcs
  <2>7. ASSUME NEW a \in (Asns \cap own) \ excused'
        PROVE  Cleans(r, a)'
    <3>1. a \in Asns \ excused
      BY <2>4, <2>7
    <3>2. Cleans(req[t], a)
      BY <1>2, <2>6, <2>7, <3>1
    <3>3. PageSize \in Nat /\ \A b \in bans : Position(b) \in Nat
      BY <1>1, Positions DEF AsnAssumption
    <3>4. \A b \in bans : b.asn = a =>
             b \in listed \/ Position(b) > (n + 1) * PageSize
      <4> SUFFICES ASSUME NEW b \in bans, b.asn = a, b \notin listed
                   PROVE  Position(b) > (n + 1) * PageSize
        OBVIOUS
      <4>1. Position(b) > n * PageSize /\ b \notin PageAt(n)
        BY <2>1, <2>3, <3>2 DEF Cleans
      <4>2. ~(Position(b) <= (n + 1) * PageSize)
        BY <4>1 DEF PageAt
      <4>3. (n + 1) * PageSize \in Nat
        BY <2>natural, <3>3
      <4> QED BY <3>3, <4>2, <4>3
    <3>5. r.pc = "sweep" => \A b \in bans : b.asn = a => b \in listed
      <4> SUFFICES ASSUME r.pc = "sweep", NEW b \in bans, b.asn = a, b \notin listed
                   PROVE  FALSE
        OBVIOUS
      <4>1. r = last /\ LastPage(t) /\ n + 1 # MaxPages
        <5>1. more.pc = "list"
          BY <1>1, <2>1 DEF Requests
        <5> QED BY <2>2, <2>3, <2>7, <5>1
      <4>2. Cardinality(PageAt(n)) < PageSize
        BY <2>3, <4>1 DEF LastPage
      <4>3. Position(b) <= (n + 1) * PageSize
        BY <1>1, <2>natural, <3>3, <4>2, ShortPage
      <4>4. (n + 1) * PageSize \in Nat
        BY <2>natural, <3>3
      <4> QED BY <3>3, <3>4, <4>3, <4>4
    <3>6. \A b : Position(b)' = Position(b)
      BY <2>1 DEF Position
    <3> QED BY <2>1, <2>4, <3>4, <3>5, <3>6 DEF Cleans
  <2> QED BY <2>1, <2>4, <2>2, <2>5, <2>6, <2>7, RevokerSound
<1>9. CASE Sweep(t) \/ SweepRefused(t)
  <2>1. PICK b, r :
          /\ b \in req[t].todo /\ r = [req[t] EXCEPT !.todo = @ \ {b}]
          /\ req' = [req EXCEPT ![t] = r]
          /\ \/ bans' = bans \ {b}
             \/ bans' = bans /\ excused' = excused \cup {b.asn}
    BY <1>9 DEF Sweep, SweepRefused, Goto
  <2>2. /\ req[t].pc = "sweep" /\ UNCHANGED <<rows, lastBan>> /\ own = Asns
        /\ excused \subseteq excused'
    BY <1>1, <1>9 DEF Sweep, SweepRefused, Own
  <2>3. /\ r.pc = "sweep" /\ r.asns = own /\ r.rows = req[t].rows
        /\ r.todo = req[t].todo \ {b}
    BY <1>1, <2>1, <2>2 DEF Requests
  <2>4. Own(r)'
    BY <1>1, <2>2, <2>3 DEF Own, PushPcs
  <2>5. "sweep" \in RevokePcs
    BY DEF RevokePcs
  <2>6. bans' \subseteq bans /\ \A c \in bans \ bans' : c.asn \in own
    BY <1>1, <2>1, <2>2 DEF Bans
  <2>7. ASSUME NEW a \in (Asns \cap own) \ excused'
        PROVE  Cleans(r, a)'
    <3>1. Cleans(req[t], a)
      BY <1>2, <2>2, <2>5, <2>7
    <3>2. \A c \in bans' : c.asn = a => c \in r.todo
      BY <2>1, <2>2, <2>3, <2>7, <3>1 DEF Cleans
    <3> QED BY <2>3, <3>2 DEF Cleans
  <2> QED BY <2>1, <2>2, <2>3, <2>4, <2>5, <2>6, <2>7, RevokerSound
<1>10. CASE ListFails(t) \/ SweepFails(t)
  <2>1. /\ req[t].pc \in {"list", "sweep"} /\ req' = [req EXCEPT ![t] = Idle]
        /\ excused' = Asns /\ UNCHANGED <<rows, lastBan>> /\ own = Asns
        /\ bans' \subseteq bans
    BY <1>1, <1>10 DEF ListFails, SweepFails, End, Goto, Own
  <2>2. req[t].pc \in RevokePcs /\ \A b \in bans : b.asn \in own
    BY <1>1, <2>1 DEF RevokePcs, Bans
  <2> QED BY <1>1, <2>1, <2>2, RevokerSound
<1> QED BY <1>3, <1>4, <1>5, <1>6, <1>7, <1>8, <1>9, <1>10 DEF Revoke, RevokeAll

-----------------------------------------------------------------------------
(* Rows and decisions agree.                                               *)

LEMMA InitSound == ASSUME Init PROVE BanInv
<1>1. DOMAIN rows = {} /\ bans = {} /\ \A t \in Threads : req[t] = Idle
  BY DEF Init
<1>2. Numbered
  BY <1>1, FS_EmptySet DEF Numbered
<1>3. ASSUME NEW a
      PROVE  Sound(a)
  <2>1. \A t \in Threads : ~Revokes(req[t], a) /\ ~Pushes(req[t], a)
    BY <1>1, IdleOwn
  <2>2. Settled(a)
    BY <1>1 DEF Settled
  <2> QED BY <2>1, <2>2 DEF Sound, Alone
<1> QED BY <1>1, <1>2, <1>3, IdleOwn DEF BanInv

\* An expiry excuses its AS, or all while decisions are listed; a restart
\* excuses all.
LEMMA StepSound ==
    ASSUME AsnAssumption, PushInv, BanInv, [Next]_vars
    PROVE  BanInv'
<1>1. ASSUME NEW t \in Threads,
             \/ \E a \in Asns : AddIntent(t, a) \/ SuggestCandidate(t, a)
             \/ \E i \in Ids : PushStart(t, i) \/ RevokeStart(t, i)
             \/ RevokeAllStart(t)
             \/ Insert(t) \/ Push(t) \/ Revoke(t) \/ RevokeAll(t)
      PROVE  BanInv'
  BY <1>1, StartSound, InsertSound, PushSound, RevokeSound
<1>2. ASSUME UNCHANGED <<rows, req, lastBan>>, bans' \subseteq bans,
             \A a \in Asns \ excused' :
                 /\ a \notin excused /\ \A b \in bans \ bans' : b.asn # a
                 /\ bans' = bans \/ Listers = {}
      PROVE  BanInv'
  <2>1. Numbered'
    BY <1>2, FS_Subset DEF BanInv, Numbered
  <2>2. \A t \in Threads : Own(req[t])'
    BY <1>2 DEF BanInv, Own
  <2>3. ASSUME NEW a \in Asns \ excused'
        PROVE  Sound(a)'
    <3>1. RowsKept(a) /\ BansKept(a)
      BY <1>2, <2>3 DEF RowsKept, BansKept
    <3>2. PageSize \in Nat /\ req \in [Threads -> Requests]
      BY DEF AsnAssumption, PushInv, StateType
    <3>3. Sound(a) /\ \A t \in Threads : Own(req[t])
      BY <1>2, <2>3 DEF BanInv
    <3>4. \A t \in Threads : req'[t] = req[t]
      BY <1>2
    <3> QED BY <2>1, <3>1, <3>2, <3>3, <3>4, Elsewhere
  <2> QED BY <2>1, <2>2, <2>3 DEF BanInv
<1>3. CASE UNCHANGED vars \/ \E p \in Profiles : SetProfile(p)
  <2>1. UNCHANGED <<rows, bans, req, lastBan, excused>>
    BY <1>3 DEF vars, counters, SetProfile
  <2> QED BY <1>2, <2>1
<1>4. ASSUME NEW b \in bans, Expire(b)
      PROVE  BanInv'
  <2>1. /\ UNCHANGED <<rows, req, lastBan>> /\ bans' = bans \ {b}
        /\ excused' = IF Listing THEN Asns ELSE excused \cup {b.asn}
    BY <1>4 DEF Expire
  <2>2. \A a \in Asns \ excused' : a \notin excused /\ a # b.asn /\ Listers = {}
    BY <2>1 DEF Listing, Listers
  <2> QED BY <1>2, <2>1, <2>2
<1>5. CASE Restart
  <2>1. /\ UNCHANGED <<rows, bans, lastBan>> /\ excused' = Asns
        /\ \A t \in Threads : req'[t] = Idle
    BY <1>5 DEF Restart
  <2>2. Numbered'
    BY <2>1 DEF BanInv, Numbered
  <2>3. \A t \in Threads : Own(req[t])'
    <3>1. Own(Idle)'
      BY IdleOwn
    <3> QED BY <2>1, <3>1 DEF Own
  <2> QED BY <2>1, <2>2, <2>3 DEF BanInv
<1> QED BY <1>1, <1>3, <1>4, <1>5 DEF Next

\* Both invariants hold throughout.
LEMMA SoundAlways == Spec => [](PushInv /\ BanInv)
<1>1. Init => PushInv /\ BanInv
  BY InitInv, InitSound, AsnAssumption
<1>2. (PushInv /\ BanInv) /\ [Next]_vars => (PushInv /\ BanInv)'
  BY StepInv, StepSound, AsnAssumption
<1> QED BY <1>1, <1>2, PTL DEF Spec

\* When nothing is under way, every AS that is not excused is settled.
LEMMA QuietSettled ==
    ASSUME PushInv, BanInv, Quiet, NEW a \in Asns \ excused
    PROVE  Settled(a)
<1>1. \A t \in Threads : ~Revokes(req[t], a)
  BY IdleOwn DEF Quiet
<1> QED BY <1>1 DEF BanInv, Sound

\* Whatever requests interleave, an AS whose intents all show as revoked is
\* banned nowhere, unless what excuses it came in between
\* (revokeByReasonTag, revokeAllWebuiAsnBans).
THEOREM RevokedMeansGoneCorrect == Spec => []RevokedMeansGone
<1>1. PushInv /\ BanInv => RevokedMeansGone
  BY QuietSettled DEF Settled, RevokedMeansGone
<1> QED BY <1>1, SoundAlways, PTL

\* With the same exceptions an active intent without an error has every range
\* of its push banned (AsnBlockService.pushIntent).
THEOREM ActiveMeansBannedCorrect == Spec => []ActiveMeansBanned
<1>1. ASSUME PushInv, BanInv, Quiet, NEW i \in DOMAIN rows,
             rows[i].status = "active", rows[i].err = "",
             rows[i].asn \notin excused
      PROVE  Banned(rows[i].asn, rows[i].fed)
  <2>1. rows[i].asn \in Asns
    BY <1>1, TableType DEF PushInv, StateType, IsTable, Rows
  <2>2. Settled(rows[i].asn)
    BY <1>1, <2>1, QuietSettled
  <2> QED BY <1>1, <2>2 DEF Settled
<1>2. PushInv /\ BanInv => ActiveMeansBanned
  BY <1>1 DEF ActiveMeansBanned, Banned
<1> QED BY <1>2, SoundAlways, PTL
=============================================================================
