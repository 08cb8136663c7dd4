------------------------- MODULE ServerStoreProofs -------------------------
(***************************************************************************)
(* Proofs about the rows of servers, for any number of requests, servers   *)
(* and failures and any forms that satisfy ServerAssumption.               *)
(***************************************************************************)
EXTENDS ServerStore, FiniteSetTheorems, SequenceTheorems,
        WellFoundedInduction, TLAPS

JobFields == {"pc", "sid", "seq", "form", "ids", "todo", "left", "olds",
              "rows", "order", "alone"}
Settings == [seq : Nat, edit : Nat]
Entries == [id : Nat, row : Settings]
Boxes == UNION {Range(f.locs) : f \in Forms}

Saving(t) == jobs[t].pc \in {"ids", "clear", "params", "drop", "locs"}
Storing(t) == Saving(t) \/ jobs[t].pc = "delLocs"

TypeInv ==
    /\ nextId \in Nat /\ NServers < nextId /\ requests \in Nat
    /\ DOMAIN jobs = Workers
    /\ \A t \in Workers :
          /\ DOMAIN jobs[t] = JobFields
          /\ jobs[t].sid \in Nat /\ jobs[t].sid < nextId
          /\ jobs[t].alone \in BOOLEAN
    /\ \A s \in DOMAIN servers : s \in Nat /\ s < nextId
                                 /\ servers[s] \in Settings
    /\ DOMAIN settled = DOMAIN servers
    /\ \A l \in locs :
          /\ DOMAIN l = {"id", "server", "place", "descr"}
          /\ {l.id, l.server} \subseteq Nat
          /\ l.id < nextId /\ l.server < nextId
    /\ \A n \in named : n.server \in Nat /\ n.server < nextId

\* What a save has yet to insert.
FormInv ==
    \A t \in Workers :
       /\ jobs[t].pc = "write" => jobs[t].seq \in Nat
       /\ jobs[t].pc = "write" \/ Saving(t) => jobs[t].form \in Forms
       /\ jobs[t].pc = "locs" => jobs[t].left \in Seq(Boxes)

\* A row that a move will write has the settings of the last edit, unless
\* there was an edit since the move read it.
HeldInv ==
    \A t \in Workers : Moving(t) =>
       /\ jobs[t].rows \in Seq(Entries) /\ jobs[t].rows # <<>>
       /\ \A i \in DOMAIN jobs[t].rows :
             LET held == jobs[t].rows[i]
             IN  /\ held.id < nextId
                 /\ held.id \in DOMAIN servers =>
                       settled[held.id] \in {-1, held.row.edit}

\* Nothing else works on the server of a save that is alone.
AloneInv ==
    \A t, u \in Workers :
       t # u /\ Saving(t) /\ Storing(u) /\ jobs[t].sid = jobs[u].sid =>
          ~jobs[t].alone

\* The locations with that place have the description.
At(l, n) == l.server = n.server /\ l.place = n.place
AllHave(n) == \A l \in locs : At(l, n) => l.descr = n.descr
Kept(n) == AllHave(n) /\ \E l \in locs : At(l, n)

NamedInv ==
    /\ \A n \in named : \/ \E t \in Workers : /\ jobs[t].pc = "locs"
                                              /\ jobs[t].sid = n.server
                        \/ Kept(n)
    /\ \A n \in named, t \in Workers :
          jobs[t].pc = "delLocs" => jobs[t].sid # n.server

\* A save knows the descriptions of what it has deleted, and gives them to
\* what it inserts.
SaveInv ==
    \A n \in named, t \in Workers :
       jobs[t].alone /\ jobs[t].sid = n.server =>
          /\ jobs[t].pc = "drop" => DescrFor(jobs[t].olds, n.place) = n.descr
          /\ jobs[t].pc = "locs" /\ n.place \in Places(jobs[t].form) =>
                /\ DescrFor(jobs[t].olds, n.place) = n.descr
                /\ AllHave(n)
                /\ \/ \E l \in locs : At(l, n)
                   \/ \E i \in DOMAIN jobs[t].left :
                         jobs[t].left[i].place = n.place

IInv ==
    /\ TypeInv /\ FormInv /\ HeldInv /\ EditsStay
    /\ AloneInv /\ NamedInv /\ SaveInv

-----------------------------------------------------------------------------
(* Lemmas.                                                                 *)

\* Another thread finds its job as it was, or not alone any more.
Like(j, k) ==
    /\ DOMAIN k = JobFields /\ k.alone \in BOOLEAN /\ (k.alone => j.alone)
    /\ k.pc = j.pc /\ k.sid = j.sid /\ k.seq = j.seq
    /\ k.form = j.form /\ k.ids = j.ids
    /\ k.todo = j.todo /\ k.left = j.left /\ k.olds = j.olds
    /\ k.rows = j.rows /\ k.order = j.order

LEMMA LikeItself ==
    ASSUME TypeInv, NEW u \in Workers
    PROVE  Like(jobs[u], jobs[u])
BY DEF TypeInv, Like

LEMMA LikeWithout ==
    ASSUME TypeInv, NEW u \in Workers
    PROVE  /\ Like(jobs[u], [jobs[u] EXCEPT !.alone = FALSE])
           /\ ~[jobs[u] EXCEPT !.alone = FALSE].alone
BY DEF TypeInv, Like, JobFields

LEMMA StartledIs ==
    ASSUME TypeInv, NEW t \in Workers, NEW job,
           jobs' = [Startled EXCEPT ![t] = job]
    PROVE  /\ DOMAIN jobs' = Workers /\ jobs'[t] = job
           /\ \A u \in Workers \ {t} : Like(jobs[u], jobs'[u])
<1>1. \A u \in Workers : Like(jobs[u], Startled[u])
  BY LikeItself, LikeWithout DEF Startled
<1> QED BY <1>1 DEF Startled

LEMMA DisturbedIs ==
    ASSUME TypeInv, NEW t \in Workers, NEW job, NEW s,
           jobs' = [Disturbed(s) EXCEPT ![t] = job]
    PROVE  /\ DOMAIN jobs' = Workers /\ jobs'[t] = job
           /\ \A u \in Workers \ {t} : /\ Like(jobs[u], jobs'[u])
                                       /\ Busy(u, s) => ~jobs'[u].alone
<1>1. \A u \in Workers : /\ Like(jobs[u], Disturbed(s)[u])
                         /\ Busy(u, s) => ~Disturbed(s)[u].alone
  BY LikeItself, LikeWithout DEF Disturbed
<1> QED BY <1>1 DEF Disturbed

LEMMA GotoIs ==
    ASSUME TypeInv, NEW t \in Workers, NEW job, jobs' = [jobs EXCEPT ![t] = job]
    PROVE  /\ DOMAIN jobs' = Workers /\ jobs'[t] = job
           /\ \A u \in Workers \ {t} : Like(jobs[u], jobs'[u])
<1>1. DOMAIN jobs = Workers
  BY DEF TypeInv
<1> QED BY <1>1, LikeItself

LEMMA RestingIs ==
    /\ DOMAIN Resting = JobFields /\ Resting.pc = "idle" /\ Resting.sid = 0
    /\ Resting.alone \in BOOLEAN
BY DEF Resting, JobFields

\* Jobs stay typed where all but one are as they were.
LEMMA JobsTyped ==
    ASSUME TypeInv, NEW t \in Workers, DOMAIN jobs' = Workers,
           \A u \in Workers \ {t} : Like(jobs[u], jobs'[u]),
           nextId' \in Nat, nextId <= nextId',
           DOMAIN jobs'[t] = JobFields, jobs'[t].sid \in Nat,
           jobs'[t].sid < nextId', jobs'[t].alone \in BOOLEAN
    PROVE  \A u \in Workers : /\ DOMAIN jobs'[u] = JobFields
                              /\ jobs'[u].sid \in Nat
                              /\ jobs'[u].sid < nextId'
                              /\ jobs'[u].alone \in BOOLEAN
<1>1. ASSUME NEW u \in Workers \ {t}
      PROVE  /\ DOMAIN jobs'[u] = JobFields
             /\ jobs'[u].sid \in Nat /\ jobs'[u].sid < nextId'
             /\ jobs'[u].alone \in BOOLEAN
  <2>1. Like(jobs[u], jobs'[u])
    BY <1>1
  <2>2. nextId \in Nat /\ jobs[u].sid \in Nat /\ jobs[u].sid < nextId
    BY DEF TypeInv
  <2>3. jobs'[u].sid = jobs[u].sid
    BY <2>1 DEF Like
  <2>4. jobs'[u].sid \in Nat /\ jobs'[u].sid < nextId'
    BY <2>2, <2>3
  <2>5. DOMAIN jobs'[u] = JobFields /\ jobs'[u].alone \in BOOLEAN
    BY <2>1 DEF Like
  <2> QED BY <2>4, <2>5
<1> QED BY <1>1

\* A step that leaves servers alone keeps what is said of them.
LEMMA RowsStay ==
    ASSUME IInv, NEW t \in Workers, UNCHANGED <<servers, settled>>,
           nextId' \in Nat, nextId <= nextId', DOMAIN jobs' = Workers,
           \A u \in Workers \ {t} : Like(jobs[u], jobs'[u]), ~Moving(t)'
    PROVE  HeldInv' /\ EditsStay'
<1>1. EditsStay'
  BY DEF IInv, EditsStay
<1>2. ASSUME NEW u \in Workers, Moving(u)'
      PROVE  /\ Moving(u) /\ jobs'[u].rows = jobs[u].rows
  BY <1>2 DEF Moving, Like
<1>3. nextId \in Nat
  BY DEF IInv, TypeInv
<1>4. ASSUME NEW u \in Workers, Moving(u)',
             NEW i \in DOMAIN jobs'[u].rows
      PROVE  LET held == jobs'[u].rows[i]
             IN  /\ held.id < nextId'
                 /\ held.id \in DOMAIN servers' =>
                       settled'[held.id] \in {-1, held.row.edit}
  <2>1. jobs[u].rows[i].id < nextId /\ jobs[u].rows[i] \in Entries
    BY <1>2, <1>4 DEF IInv, HeldInv
  <2>2. jobs[u].rows[i].id < nextId'
    BY <1>3, <2>1 DEF Entries
  <2> QED BY <1>2, <1>4, <2>2 DEF IInv, HeldInv
<1> QED BY <1>1, <1>2, <1>4 DEF IInv, HeldInv

\* A step that is none of a save or a deletion keeps what is said of
\* locations.
LEMMA LocsStay ==
    ASSUME IInv, UNCHANGED <<locs, named>>, DOMAIN jobs' = Workers,
           \A u \in Workers : \/ Like(jobs[u], jobs'[u])
                              \/ ~Storing(u) /\ ~Storing(u)'
    PROVE  AloneInv' /\ NamedInv' /\ SaveInv'
<1> USE DEF IInv
<1>1. ASSUME NEW u \in Workers, Storing(u)'
      PROVE  Like(jobs[u], jobs'[u])
  BY <1>1
<1>2. AloneInv'
  <2>1. ASSUME NEW u \in Workers, NEW v \in Workers, u # v, Saving(u)',
               Storing(v)', jobs'[u].sid = jobs'[v].sid
        PROVE  ~jobs'[u].alone
    <3>1. Like(jobs[u], jobs'[u]) /\ Like(jobs[v], jobs'[v])
      BY <1>1, <2>1 DEF Storing
    <3>2. Saving(u) /\ Storing(v) /\ jobs[u].sid = jobs[v].sid
      BY <2>1, <3>1 DEF Like, Saving, Storing
    <3>3. ~jobs[u].alone
      BY <2>1, <3>2 DEF AloneInv
    <3>4. jobs'[u].alone => jobs[u].alone
      BY <3>1 DEF Like
    <3> QED BY <3>3, <3>4
  <2> QED BY <2>1 DEF AloneInv
<1>3. \A u \in Workers : jobs[u].pc = "locs" =>
         jobs'[u].pc = "locs" /\ jobs'[u].sid = jobs[u].sid
  BY DEF Like, Saving, Storing
<1>4. NamedInv'
  BY <1>1, <1>3 DEF NamedInv, Kept, AllHave, Like, Saving, Storing
<1>5. SaveInv'
  <2>1. ASSUME NEW u \in Workers, jobs'[u].alone, jobs'[u].pc \in {"drop", "locs"}
        PROVE  /\ jobs[u].alone /\ jobs'[u].pc = jobs[u].pc
               /\ jobs'[u].sid = jobs[u].sid /\ jobs'[u].form = jobs[u].form
               /\ jobs'[u].olds = jobs[u].olds /\ jobs'[u].left = jobs[u].left
    <3>1. Like(jobs[u], jobs'[u])
      BY <1>1, <2>1 DEF Saving, Storing
    <3> QED BY <2>1, <3>1 DEF Like
  <2>2. \A n : AllHave(n)' = AllHave(n)
    BY DEF AllHave
  <2> QED BY <2>1, <2>2 DEF SaveInv
<1> QED BY <1>2, <1>4, <1>5

\* Forms of other jobs stay.
LEMMA FormsStay ==
    ASSUME IInv, NEW t \in Workers, DOMAIN jobs' = Workers,
           \A u \in Workers \ {t} : Like(jobs[u], jobs'[u]),
           jobs'[t].pc = "write" => jobs'[t].seq \in Nat,
           jobs'[t].pc = "write" \/ Saving(t)' => jobs'[t].form \in Forms,
           jobs'[t].pc = "locs" => jobs'[t].left \in Seq(Boxes)
    PROVE  FormInv'
BY DEF IInv, FormInv, Like, Saving

\* The newest of some locations exists.
LEMMA NewestExists ==
    ASSUME nextId \in Nat, NEW T, T # {},
           \A l \in T : l.id \in Nat /\ l.id < nextId
    PROVE  \E l \in T : \A m \in T : m.id <= l.id
<1> DEFINE Ages == {nextId - l.id : l \in T}
           R == OpToRel(<, Nat)
<1>1. Ages \subseteq Nat /\ Ages # {}
  OBVIOUS
<1>2. PICK x \in Ages : \A y \in Ages : <<y, x>> \notin R
  <2> HIDE DEF Ages, R
  <2>1. IsWellFoundedOn(R, Nat)
    BY NatLessThanWellFounded DEF R
  <2> QED BY <1>1, <2>1, WFMin
<1>3. \A y \in Ages : ~(y < x)
  BY <1>1, <1>2 DEF OpToRel
<1>4. PICK l \in T : x = nextId - l.id
  OBVIOUS
<1>5. ASSUME NEW m \in T
      PROVE  m.id <= l.id
  <2>1. nextId - m.id \in Ages
    OBVIOUS
  <2>2. ~(nextId - m.id < nextId - l.id)
    BY <1>3, <1>4, <2>1
  <2> QED BY <2>2
<1> QED BY <1>5

\* findLocationDescr gives the description that all with the place have.
LEMMA DescrForIs ==
    ASSUME nextId \in Nat, NEW olds, NEW place, NEW descr,
           \A l \in olds : l.id \in Nat /\ l.id < nextId,
           \A l \in olds : l.place = place => l.descr = descr,
           \E l \in olds : l.place = place
    PROVE  DescrFor(olds, place) = descr
<1> DEFINE same == {l \in olds : l.place = place}
           first == CHOOSE l \in same : \A m \in same : m.id <= l.id
<1>1. same # {} /\ \A l \in same : l.id \in Nat /\ l.id < nextId
  OBVIOUS
<1>2. \E l \in same : \A m \in same : m.id <= l.id
  <2> HIDE DEF same
  <2> QED BY <1>1, NewestExists
<1>3. first \in same
  <2> HIDE DEF same
  <2> QED BY <1>2
<1>4. DescrFor(olds, place) = first.descr
  BY <1>1 DEF DescrFor
<1> HIDE DEF first
<1> QED BY <1>3, <1>4

-----------------------------------------------------------------------------
(* The steps that have nothing to do with locations.                       *)

LEMMA SaveStays ==
    ASSUME ServerAssumption, IInv, NEW t \in Workers,
           NEW s \in {0} \cup 1..NServers, NEW form \in Forms, Save(t, s, form)
    PROVE  IInv'
<1> USE DEF IInv
<1> DEFINE seq == IF s = 0 THEN nextId ELSE 0
           job == [Resting EXCEPT !.pc = "write", !.sid = s, !.form = form,
                                  !.seq = seq]
<1>1. /\ jobs[t] = Resting /\ jobs' = [jobs EXCEPT ![t] = job]
      /\ requests' = requests + 1 /\ nextId' \in {nextId, nextId + 1}
      /\ UNCHANGED <<servers, locs, named, settled>>
  BY DEF Save, Begin, Count, hist
<1>2. /\ DOMAIN job = JobFields /\ job.pc = "write" /\ job.sid = s
      /\ job.seq = seq /\ job.form = form /\ job.alone \in BOOLEAN
  BY DEF Resting, JobFields
<1> HIDE DEF job
<1>3. /\ DOMAIN jobs' = Workers /\ jobs'[t] = job
      /\ \A u \in Workers \ {t} : Like(jobs[u], jobs'[u])
  BY <1>1, GotoIs
<1>4. nextId \in Nat /\ s \in Nat /\ s < nextId /\ requests \in Nat
      /\ seq \in Nat
  BY DEF TypeInv, ServerAssumption
<1>9. nextId' \in Nat /\ nextId <= nextId' /\ s < nextId'
  BY <1>1, <1>4
<1>5. TypeInv'
  <2>1. \A u \in Workers : /\ DOMAIN jobs'[u] = JobFields
                           /\ jobs'[u].sid \in Nat /\ jobs'[u].sid < nextId'
                           /\ jobs'[u].alone \in BOOLEAN
    BY <1>1, <1>2, <1>3, <1>4, <1>9, JobsTyped
  <2>2. /\ NServers < nextId' /\ \A r \in DOMAIN servers : r < nextId'
        /\ \A l \in locs : l.id < nextId' /\ l.server < nextId'
        /\ \A n \in named : n.server < nextId'
    BY <1>4, <1>9 DEF TypeInv, ServerAssumption
  <2> QED BY <1>1, <1>3, <1>4, <1>9, <2>1, <2>2 DEF TypeInv
<1>6. FormInv'
  BY <1>2, <1>3, <1>4, FormsStay DEF Saving
<1>7. HeldInv' /\ EditsStay'
  BY <1>1, <1>2, <1>3, <1>9, RowsStay DEF Moving
<1>8. AloneInv' /\ NamedInv' /\ SaveInv'
  BY <1>1, <1>2, <1>3, LocsStay, RestingIs DEF Saving, Storing
<1> QED BY <1>5, <1>6, <1>7, <1>8

\* The settings of a server that exists are changed.
LEMMA EditedStays ==
    ASSUME ServerAssumption, IInv, NEW s \in DOMAIN servers, NEW edit \in Nat,
           servers' = [servers EXCEPT ![s].edit = edit], Settled(s, edit)
    PROVE  /\ HeldInv /\ EditsStay
           /\ DOMAIN servers' = DOMAIN servers
           /\ DOMAIN settled' = DOMAIN servers
           /\ \A r \in DOMAIN servers : servers'[r] \in Settings
           /\ EditsStay'
           /\ \A t \in Workers : \A i \in DOMAIN jobs[t].rows :
                 Moving(t) /\ jobs[t].rows[i].id \in DOMAIN servers =>
                    settled'[jobs[t].rows[i].id]
                       \in {-1, jobs[t].rows[i].row.edit}
<1> USE DEF IInv
<1>1. /\ DOMAIN settled = DOMAIN servers
      /\ \A r \in DOMAIN servers : servers[r] \in Settings
  BY DEF TypeInv
<1>2. /\ DOMAIN servers' = DOMAIN servers
      /\ servers'[s] = [servers[s] EXCEPT !.edit = edit]
      /\ \A r \in DOMAIN servers \ {s} : servers'[r] = servers[r]
  OBVIOUS
<1>3. servers'[s] \in Settings /\ servers'[s].edit = edit
  BY <1>1, <1>2 DEF Settings
<1>4. /\ DOMAIN settled' = DOMAIN servers
      /\ settled'[s] = IF Held(s) THEN -1 ELSE edit
      /\ \A r \in DOMAIN servers \ {s} : settled'[r] = settled[r]
  BY <1>1 DEF Settled, Set
<1>5. EditsStay'
  BY <1>2, <1>3, <1>4 DEF EditsStay
<1>6. ASSUME NEW t \in Workers, NEW i \in DOMAIN jobs[t].rows, Moving(t),
             jobs[t].rows[i].id \in DOMAIN servers
      PROVE  settled'[jobs[t].rows[i].id] \in {-1, jobs[t].rows[i].row.edit}
  <2>1. CASE jobs[t].rows[i].id = s
    BY <1>4, <1>6, <2>1 DEF Held, Movers
  <2>2. CASE jobs[t].rows[i].id # s
    BY <1>4, <1>6, <2>2 DEF HeldInv
  <2> QED BY <2>1, <2>2
<1> QED BY <1>1, <1>2, <1>3, <1>4, <1>5, <1>6

LEMMA EditStep ==
    ASSUME ServerAssumption, IInv, NEW s \in DOMAIN servers, Edit(s)
    PROVE  IInv'
<1> USE DEF IInv
<1>1. /\ servers' = [servers EXCEPT ![s].edit = requests + 1]
      /\ Settled(s, requests + 1) /\ requests' = requests + 1
      /\ UNCHANGED <<locs, nextId, jobs, named>>
  BY DEF Edit, Count
<1>2. requests \in Nat /\ requests + 1 \in Nat
  BY DEF TypeInv
<1>3. /\ DOMAIN servers' = DOMAIN servers
      /\ DOMAIN settled' = DOMAIN servers
      /\ \A r \in DOMAIN servers : servers'[r] \in Settings
      /\ EditsStay'
      /\ \A t \in Workers : \A i \in DOMAIN jobs[t].rows :
            Moving(t) /\ jobs[t].rows[i].id \in DOMAIN servers =>
               settled'[jobs[t].rows[i].id] \in {-1, jobs[t].rows[i].row.edit}
  BY <1>1, <1>2, EditedStays
<1>4. TypeInv' /\ FormInv'
  BY <1>1, <1>2, <1>3 DEF TypeInv, FormInv, Saving
<1>5. HeldInv'
  BY <1>1, <1>3 DEF HeldInv, Moving
<1>6. AloneInv' /\ NamedInv' /\ SaveInv'
  <2>1. \A u \in Workers : Like(jobs[u], jobs'[u])
    BY <1>1, LikeItself
  <2>2. DOMAIN jobs' = Workers
    BY <1>1 DEF TypeInv
  <2> QED BY <1>1, <2>1, <2>2, LocsStay
<1> QED BY <1>3, <1>4, <1>5, <1>6

\* A server that is inserted has no number of before.
LEMMA InsertedStays ==
    ASSUME ServerAssumption, IInv, NEW row \in Settings,
           servers' = Set(servers, nextId, row),
           settled' = Set(settled, nextId, row.edit), nextId' = nextId + 1
    PROVE  /\ \A r \in DOMAIN servers' : r \in Nat /\ r < nextId'
                                         /\ servers'[r] \in Settings
           /\ DOMAIN settled' = DOMAIN servers'
           /\ EditsStay'
           /\ \A t \in Workers : \A i \in DOMAIN jobs[t].rows : Moving(t) =>
                 /\ jobs[t].rows[i].id < nextId'
                 /\ jobs[t].rows[i].id \in DOMAIN servers' =>
                       settled'[jobs[t].rows[i].id]
                          \in {-1, jobs[t].rows[i].row.edit}
<1> USE DEF IInv
<1>1. /\ nextId \in Nat /\ DOMAIN settled = DOMAIN servers
      /\ \A r \in DOMAIN servers : r \in Nat /\ r < nextId
                                   /\ servers[r] \in Settings
  BY DEF TypeInv
<1>2. /\ DOMAIN servers' = DOMAIN servers \cup {nextId}
      /\ DOMAIN settled' = DOMAIN servers \cup {nextId}
      /\ servers'[nextId] = row /\ settled'[nextId] = row.edit
      /\ \A r \in DOMAIN servers : /\ servers'[r] = servers[r]
                                   /\ settled'[r] = settled[r]
  BY <1>1 DEF Set
<1>3. \A r \in DOMAIN servers' : r \in Nat /\ r < nextId'
                                 /\ servers'[r] \in Settings
  BY <1>1, <1>2
<1>4. EditsStay'
  BY <1>2 DEF EditsStay
<1>5. ASSUME NEW t \in Workers, NEW i \in DOMAIN jobs[t].rows, Moving(t)
      PROVE  /\ jobs[t].rows[i].id < nextId'
             /\ jobs[t].rows[i].id \in DOMAIN servers' =>
                   settled'[jobs[t].rows[i].id]
                      \in {-1, jobs[t].rows[i].row.edit}
  <2>1. jobs[t].rows[i] \in Entries /\ jobs[t].rows[i].id < nextId
    BY <1>5 DEF HeldInv
  <2>2. /\ jobs[t].rows[i].id < nextId' /\ jobs[t].rows[i].id # nextId
    BY <1>1, <2>1 DEF Entries
  <2> QED BY <1>2, <1>5, <2>2 DEF HeldInv
<1> QED BY <1>2, <1>3, <1>4, <1>5

LEMMA EditGoneStep ==
    ASSUME ServerAssumption, IInv, NEW s \in 1..NServers, EditGone(s)
    PROVE  IInv'
<1> USE DEF IInv
<1> DEFINE row == [seq |-> 0, edit |-> requests + 1]
<1>1. /\ servers' = Set(servers, nextId, row) /\ nextId' = nextId + 1
      /\ settled' = Set(settled, nextId, requests + 1)
      /\ requests' = requests + 1 /\ jobs' = Startled
      /\ UNCHANGED <<locs, named>>
  BY DEF EditGone, Count
<1>2. nextId \in Nat /\ requests \in Nat
  BY DEF TypeInv
<1>3. row \in Settings /\ row.edit = requests + 1
  BY <1>2 DEF Settings
<1> HIDE DEF row
<1>4. /\ \A r \in DOMAIN servers' : r \in Nat /\ r < nextId'
                                    /\ servers'[r] \in Settings
      /\ DOMAIN settled' = DOMAIN servers'
      /\ EditsStay'
      /\ \A t \in Workers : \A i \in DOMAIN jobs[t].rows : Moving(t) =>
            /\ jobs[t].rows[i].id < nextId'
            /\ jobs[t].rows[i].id \in DOMAIN servers' =>
                  settled'[jobs[t].rows[i].id] \in {-1, jobs[t].rows[i].row.edit}
  BY <1>1, <1>3, InsertedStays
<1>5. DOMAIN jobs' = Workers /\ \A u \in Workers : Like(jobs[u], jobs'[u])
  BY <1>1, LikeItself, LikeWithout DEF Startled
<1>6. TypeInv'
  <2>1. ASSUME NEW u \in Workers
        PROVE  /\ DOMAIN jobs'[u] = JobFields /\ jobs'[u].alone \in BOOLEAN
               /\ jobs'[u].sid = jobs[u].sid
    BY <1>5 DEF Like
  <2>2. \A u \in Workers : jobs'[u].sid \in Nat /\ jobs'[u].sid < nextId'
    BY <1>1, <1>2, <2>1 DEF TypeInv
  <2>3. \A l \in locs : l.id < nextId' /\ l.server < nextId'
    BY <1>1, <1>2 DEF TypeInv
  <2>4. \A n \in named : n.server < nextId'
    BY <1>1, <1>2 DEF TypeInv
  <2>5. NServers < nextId' /\ nextId' \in Nat /\ requests' \in Nat
    BY <1>1, <1>2 DEF TypeInv, ServerAssumption
  <2> QED BY <1>1, <1>4, <1>5, <2>1, <2>2, <2>3, <2>4, <2>5 DEF TypeInv
<1>7. FormInv'
  BY <1>5 DEF FormInv, Like, Saving
<1>8. HeldInv'
  <2>1. \A u \in Workers : /\ jobs'[u].rows = jobs[u].rows
                           /\ Moving(u)' => Moving(u)
    BY <1>5 DEF Like, Moving
  <2> QED BY <1>4, <2>1 DEF HeldInv
<1>9. AloneInv' /\ NamedInv' /\ SaveInv'
  BY <1>1, <1>5, LocsStay
<1> QED BY <1>4, <1>6, <1>7, <1>8, <1>9

LEMMA MoveRowsStep ==
    ASSUME ServerAssumption, IInv, NEW t \in Workers, NEW s \in DOMAIN servers,
           Move(t, s)
    PROVE  IInv'
<1> USE DEF IInv
<1> DEFINE job == [Resting EXCEPT !.pc = "list", !.alone = Movers = {},
                                  !.rows = <<WithId(s, servers[s])>>]
<1>1. /\ jobs[t] = Resting /\ jobs' = [Startled EXCEPT ![t] = job]
      /\ requests' = requests + 1
      /\ UNCHANGED <<servers, locs, nextId, named, settled>>
  BY DEF Move, Count, storeRows, hist
<1>2. /\ DOMAIN job = JobFields /\ job.pc = "list" /\ job.sid = 0
      /\ job.alone \in BOOLEAN /\ job.rows = <<WithId(s, servers[s])>>
  BY DEF Resting, JobFields
<1> HIDE DEF job
<1>3. /\ DOMAIN jobs' = Workers /\ jobs'[t] = job
      /\ \A u \in Workers \ {t} : Like(jobs[u], jobs'[u])
  BY <1>1, StartledIs
<1>4. /\ nextId \in Nat /\ 0 < nextId /\ requests \in Nat
      /\ s \in Nat /\ s < nextId /\ servers[s] \in Settings
  BY DEF TypeInv, ServerAssumption
<1>5. TypeInv'
  <2>1. \A u \in Workers : /\ DOMAIN jobs'[u] = JobFields
                           /\ jobs'[u].sid \in Nat /\ jobs'[u].sid < nextId'
                           /\ jobs'[u].alone \in BOOLEAN
    BY <1>1, <1>2, <1>3, <1>4, JobsTyped
  <2> QED BY <1>1, <1>3, <1>4, <2>1 DEF TypeInv
<1>6. FormInv'
  BY <1>2, <1>3, FormsStay DEF Saving
<1>7. EditsStay'
  BY <1>1 DEF EditsStay
<1>8. HeldInv'
  <2>1. /\ job.rows \in Seq(Entries) /\ job.rows # <<>>
        /\ \A i \in DOMAIN job.rows : /\ job.rows[i].id = s
                                      /\ job.rows[i].row = servers[s]
    BY <1>2, <1>4 DEF WithId, Entries
  <2>2. \A u \in Workers \ {t} : /\ jobs'[u].rows = jobs[u].rows
                                 /\ Moving(u)' => Moving(u)
    BY <1>3 DEF Like, Moving
  <2>3. \A i \in DOMAIN job.rows :
           /\ job.rows[i].id < nextId
           /\ job.rows[i].id \in DOMAIN servers =>
                 settled[job.rows[i].id] \in {-1, job.rows[i].row.edit}
    BY <1>4, <2>1 DEF EditsStay
  <2> QED BY SMTT(30), <1>1, <1>3, <2>1, <2>2, <2>3 DEF HeldInv
<1>9. AloneInv' /\ NamedInv' /\ SaveInv'
  BY <1>1, <1>2, <1>3, LocsStay, RestingIs DEF Saving, Storing
<1> QED BY <1>5, <1>6, <1>7, <1>8, <1>9

LEMMA ChooseTargetStep ==
    ASSUME ServerAssumption, IInv, NEW t \in Workers, ChooseTarget(t)
    PROVE  IInv'
<1> USE DEF IInv
<1> DEFINE s == jobs[t].rows[1].id
           row == jobs[t].rows[1].row
<1>1. PICK up \in BOOLEAN, r \in DOMAIN servers :
         jobs' = [jobs EXCEPT ![t] = [jobs[t] EXCEPT
                    !.pc = "update", !.order = AfterMove(s, up),
                    !.rows = <<WithId(r, Exchanged(servers[r], row)),
                               WithId(s, Exchanged(row, servers[r]))>>]]
  BY DEF ChooseTarget, Goto, Targets, Beyond
<1> DEFINE job == [jobs[t] EXCEPT
                    !.pc = "update", !.order = AfterMove(s, up),
                    !.rows = <<WithId(r, Exchanged(servers[r], row)),
                               WithId(s, Exchanged(row, servers[r]))>>]
<1>2. /\ jobs[t].pc = "list" /\ jobs' = [jobs EXCEPT ![t] = job]
      /\ UNCHANGED <<servers, locs, nextId, named, settled, requests>>
  BY <1>1 DEF ChooseTarget, Goto, storeRows, hist
<1>3. r \in DOMAIN servers
  OBVIOUS
<1>4. /\ nextId \in Nat /\ r \in Nat /\ r < nextId /\ servers[r] \in Settings
      /\ DOMAIN jobs[t] = JobFields
  BY <1>3 DEF TypeInv
<1>5. /\ s \in Nat /\ row \in Settings /\ s < nextId
      /\ s \in DOMAIN servers => settled[s] \in {-1, row.edit}
  <2>1. /\ jobs[t].rows \in Seq(Entries) /\ jobs[t].rows # <<>>
        /\ \A i \in DOMAIN jobs[t].rows :
             /\ jobs[t].rows[i].id < nextId
             /\ jobs[t].rows[i].id \in DOMAIN servers =>
                   settled[jobs[t].rows[i].id] \in {-1, jobs[t].rows[i].row.edit}
    BY <1>2 DEF HeldInv, Moving
  <2>2. 1 \in DOMAIN jobs[t].rows /\ jobs[t].rows[1] \in Entries
    BY <2>1
  <2> QED BY <2>1, <2>2 DEF Entries
<1>6. /\ DOMAIN job = JobFields /\ job.pc = "update" /\ job.sid = jobs[t].sid
      /\ job.alone = jobs[t].alone
      /\ job.rows = <<WithId(r, Exchanged(servers[r], row)),
                      WithId(s, Exchanged(row, servers[r]))>>
  BY <1>4 DEF JobFields
<1> HIDE DEF job, s, row
<1>7. /\ DOMAIN jobs' = Workers /\ jobs'[t] = job
      /\ \A u \in Workers \ {t} : Like(jobs[u], jobs'[u])
  BY <1>2, GotoIs
<1>8. TypeInv'
  <2>1. jobs[t].sid \in Nat /\ jobs[t].sid < nextId
        /\ jobs[t].alone \in BOOLEAN
    BY DEF TypeInv
  <2>2. \A u \in Workers : /\ DOMAIN jobs'[u] = JobFields
                           /\ jobs'[u].sid \in Nat /\ jobs'[u].sid < nextId'
                           /\ jobs'[u].alone \in BOOLEAN
    BY <1>2, <1>4, <1>6, <1>7, <2>1, JobsTyped
  <2> QED BY <1>2, <1>4, <1>7, <2>2 DEF TypeInv
<1>9. FormInv'
  BY <1>6, <1>7, FormsStay DEF Saving
<1>10. EditsStay'
  BY <1>2 DEF EditsStay
<1>11. HeldInv'
  <2> DEFINE there == WithId(r, Exchanged(servers[r], row))
             here == WithId(s, Exchanged(row, servers[r]))
  <2>1. /\ there \in Entries /\ there.id = r /\ there.row.edit = servers[r].edit
        /\ here \in Entries /\ here.id = s /\ here.row.edit = row.edit
    BY <1>4, <1>5 DEF WithId, Exchanged, Entries, Settings
  <2> HIDE DEF there, here
  <2>2. job.rows = <<there, here>>
    BY <1>6 DEF there, here
  <2>3. /\ job.rows \in Seq(Entries) /\ job.rows # <<>>
        /\ \A i \in DOMAIN job.rows : job.rows[i] \in {there, here}
    BY <2>1, <2>2
  <2>4. \A u \in Workers \ {t} : /\ jobs'[u].rows = jobs[u].rows
                                 /\ Moving(u)' => Moving(u)
    BY <1>7 DEF Like, Moving
  <2>5. settled[r] \in {-1, servers[r].edit}
    BY <1>3 DEF EditsStay
  <2>6. \A i \in DOMAIN job.rows :
           /\ job.rows[i].id < nextId
           /\ job.rows[i].id \in DOMAIN servers =>
                 settled[job.rows[i].id] \in {-1, job.rows[i].row.edit}
    BY <1>4, <1>5, <2>1, <2>3, <2>5
  <2> QED BY <1>2, <1>7, <2>3, <2>4, <2>6 DEF HeldInv
<1>12. AloneInv' /\ NamedInv' /\ SaveInv'
  BY <1>2, <1>6, <1>7, LocsStay DEF Saving, Storing
<1> QED BY <1>8, <1>9, <1>10, <1>11, <1>12

\* A request that is over without having changed anything.
LEMMA RestStays ==
    ASSUME ServerAssumption, IInv, NEW t \in Workers,
           jobs' = [jobs EXCEPT ![t] = Resting],
           UNCHANGED <<servers, nextId, requests, settled, locs>>,
           named' \subseteq named
    PROVE  /\ TypeInv' /\ FormInv' /\ HeldInv' /\ EditsStay' /\ AloneInv'
           /\ SaveInv'
<1> USE DEF IInv
<1>1. /\ DOMAIN jobs' = Workers /\ jobs'[t] = Resting
      /\ \A u \in Workers \ {t} : Like(jobs[u], jobs'[u])
  BY GotoIs
<1>2. nextId \in Nat /\ 0 < nextId
  BY DEF TypeInv, ServerAssumption
<1>3. TypeInv'
  <2>1. \A u \in Workers : /\ DOMAIN jobs'[u] = JobFields
                           /\ jobs'[u].sid \in Nat /\ jobs'[u].sid < nextId'
                           /\ jobs'[u].alone \in BOOLEAN
    BY <1>1, <1>2, RestingIs, JobsTyped
  <2> QED BY <1>1, <2>1 DEF TypeInv
<1>4. FormInv'
  BY <1>1, RestingIs, FormsStay DEF Saving
<1>5. HeldInv' /\ EditsStay'
  BY <1>1, <1>2, RestingIs, RowsStay DEF Moving
<1>6. \A u \in Workers \ {t} : jobs'[u] = jobs[u]
  OBVIOUS
<1>7. AloneInv'
  BY <1>1, <1>6, RestingIs DEF AloneInv, Saving, Storing
<1>8. SaveInv'
  BY <1>1, <1>6, RestingIs DEF SaveInv, AllHave
<1> QED BY <1>3, <1>4, <1>5, <1>7, <1>8

LEMMA NoTargetStep ==
    ASSUME ServerAssumption, IInv, NEW t \in Workers, NoTarget(t)
    PROVE  IInv'
<1>1. /\ jobs[t].pc = "list" /\ jobs' = [jobs EXCEPT ![t] = Resting]
      /\ UNCHANGED <<servers, locs, nextId, named, settled, requests>>
  BY DEF NoTarget, Goto, storeRows, hist
<1>2. /\ DOMAIN jobs' = Workers /\ jobs'[t] = Resting
      /\ \A u \in Workers \ {t} : Like(jobs[u], jobs'[u])
  BY <1>1, GotoIs DEF IInv
<1>3. NamedInv'
  BY <1>1, <1>2, LocsStay, RestingIs DEF Saving, Storing
<1> QED BY <1>1, <1>3, RestStays DEF IInv

LEMMA UpdateRowStep ==
    ASSUME ServerAssumption, IInv, NEW t \in Workers, UpdateRow(t)
    PROVE  IInv'
<1> USE DEF IInv
<1> DEFINE s == Head(jobs[t].rows).id
           row == Head(jobs[t].rows).row
           rest == Tail(jobs[t].rows)
           job == IF rest # <<>> THEN [jobs[t] EXCEPT !.rows = rest] ELSE Resting
<1>1. /\ jobs[t].pc = "update" /\ jobs' = [jobs EXCEPT ![t] = job]
      /\ requests' = requests
      /\ UNCHANGED <<locs, named>>
  BY DEF UpdateRow, Goto
<1>2. /\ s \in DOMAIN servers => /\ servers' = Set(servers, s, row)
                                 /\ UNCHANGED <<nextId, settled>>
      /\ s \notin DOMAIN servers => /\ servers' = Set(servers, nextId, row)
                                    /\ nextId' = nextId + 1
                                    /\ settled' = Set(settled, nextId, row.edit)
  <2>1. CASE s \in DOMAIN servers
    BY <2>1 DEF UpdateRow
  <2>2. CASE s \notin DOMAIN servers /\ nextId # s
    BY <2>2 DEF UpdateRow
  <2>3. nextId # s
    <3>1. /\ jobs[t].rows \in Seq(Entries) /\ jobs[t].rows # <<>>
          /\ \A i \in DOMAIN jobs[t].rows : jobs[t].rows[i].id < nextId
      BY <1>1 DEF HeldInv, Moving
    <3>2. /\ 1 \in DOMAIN jobs[t].rows /\ Head(jobs[t].rows) = jobs[t].rows[1]
          /\ jobs[t].rows[1] \in Entries
      BY <3>1
    <3>3. s < nextId /\ s \in Nat /\ nextId \in Nat
      BY <3>1, <3>2 DEF Entries, TypeInv
    <3> QED BY <3>3
  <2> QED BY <2>1, <2>2, <2>3
<1>3. /\ jobs[t].rows \in Seq(Entries) /\ jobs[t].rows # <<>>
      /\ \A i \in DOMAIN jobs[t].rows :
           /\ jobs[t].rows[i].id < nextId
           /\ jobs[t].rows[i].id \in DOMAIN servers =>
                 settled[jobs[t].rows[i].id] \in {-1, jobs[t].rows[i].row.edit}
  BY <1>1 DEF HeldInv, Moving
<1>4. /\ 1 \in DOMAIN jobs[t].rows /\ Head(jobs[t].rows) = jobs[t].rows[1]
      /\ jobs[t].rows[1] \in Entries
  BY <1>3
<1>5. /\ s \in Nat /\ row \in Settings
      /\ s \in DOMAIN servers => settled[s] \in {-1, row.edit}
  BY <1>3, <1>4 DEF Entries
<1>6. /\ rest \in Seq(Entries)
      /\ \A i \in DOMAIN rest : /\ i + 1 \in DOMAIN jobs[t].rows
                                /\ rest[i] = jobs[t].rows[i + 1]
  BY <1>3
<1>7. DOMAIN jobs[t] = JobFields
  BY DEF TypeInv
<1>8. /\ DOMAIN job = JobFields /\ job.pc \in {"update", "idle"}
      /\ job.sid \in {jobs[t].sid, 0} /\ job.alone \in BOOLEAN
      /\ job.pc = "update" => job.rows = rest /\ rest # <<>>
  <2>1. jobs[t].alone \in BOOLEAN
    BY DEF TypeInv
  <2>2. CASE rest # <<>>
    <3> HIDE DEF rest
    <3> QED BY <1>1, <1>7, <2>1, <2>2 DEF JobFields
  <2>3. CASE rest = <<>>
    BY <2>3, RestingIs
  <2> QED BY <2>2, <2>3
<1> HIDE DEF job, s, row, rest
<1>9. /\ DOMAIN jobs' = Workers /\ jobs'[t] = job
      /\ \A u \in Workers \ {t} : Like(jobs[u], jobs'[u])
  BY <1>1, GotoIs
<1>10. /\ \A r \in DOMAIN servers' : r \in Nat /\ r < nextId'
                                     /\ servers'[r] \in Settings
       /\ DOMAIN settled' = DOMAIN servers'
       /\ EditsStay'
       /\ nextId' \in {nextId, nextId + 1}
       /\ \A u \in Workers : \A i \in DOMAIN jobs[u].rows : Moving(u) =>
             /\ jobs[u].rows[i].id < nextId'
             /\ jobs[u].rows[i].id \in DOMAIN servers' =>
                   settled'[jobs[u].rows[i].id]
                      \in {-1, jobs[u].rows[i].row.edit}
  <2>1. CASE s \in DOMAIN servers
    <3>1. /\ servers' = Set(servers, s, row)
          /\ UNCHANGED <<nextId, settled>>
      BY <1>2, <2>1
    <3>2. /\ DOMAIN servers' = DOMAIN servers /\ servers'[s] = row
          /\ \A r \in DOMAIN servers \ {s} : servers'[r] = servers[r]
      BY <2>1, <3>1 DEF Set
    <3>3. /\ \A r \in DOMAIN servers' : r \in Nat /\ r < nextId'
                                        /\ servers'[r] \in Settings
          /\ DOMAIN settled' = DOMAIN servers'
      BY <1>5, <3>1, <3>2 DEF TypeInv
    <3>4. EditsStay'
      BY <1>5, <2>1, <3>1, <3>2 DEF EditsStay
    <3> QED BY <3>1, <3>2, <3>3, <3>4 DEF HeldInv
  <2>2. CASE s \notin DOMAIN servers
    BY <1>2, <1>5, <2>2, InsertedStays
  <2> QED BY <2>1, <2>2
<1>11. nextId \in Nat /\ nextId' \in Nat /\ 0 < nextId /\ nextId <= nextId'
  BY <1>10 DEF TypeInv, ServerAssumption
<1>12. TypeInv'
  <2>1. jobs[t].sid \in Nat /\ jobs[t].sid < nextId
    BY DEF TypeInv
  <2>2. job.sid \in Nat /\ job.sid < nextId'
    BY <1>8, <1>11, <2>1
  <2>3. \A u \in Workers : /\ DOMAIN jobs'[u] = JobFields
                           /\ jobs'[u].sid \in Nat /\ jobs'[u].sid < nextId'
                           /\ jobs'[u].alone \in BOOLEAN
    BY <1>8, <1>9, <1>11, <2>2, JobsTyped
  <2>4. \A l \in locs : l.id < nextId' /\ l.server < nextId'
    BY <1>11 DEF TypeInv
  <2>5. \A n \in named : n.server < nextId'
    BY <1>11 DEF TypeInv
  <2>6. NServers < nextId'
    BY <1>11 DEF TypeInv, ServerAssumption
  <2> QED BY <1>1, <1>9, <1>10, <1>11, <2>3, <2>4, <2>5, <2>6 DEF TypeInv
<1>13. FormInv'
  BY <1>8, <1>9, FormsStay DEF Saving
<1>14. HeldInv'
  <2>1. \A u \in Workers \ {t} : /\ jobs'[u].rows = jobs[u].rows
                                 /\ Moving(u)' => Moving(u)
    BY <1>9 DEF Like, Moving
  <2>2. Moving(t)' => job.rows = rest /\ rest # <<>>
    BY <1>8, <1>9 DEF Moving
  <2>3. Moving(t)
    BY <1>1 DEF Moving
  <2> QED BY SMTT(30), <1>6, <1>9, <1>10, <2>1, <2>2, <2>3 DEF HeldInv
<1>15. AloneInv' /\ NamedInv' /\ SaveInv'
  BY <1>1, <1>8, <1>9, LocsStay DEF Saving, Storing
<1> QED BY <1>10, <1>12, <1>13, <1>14, <1>15

-----------------------------------------------------------------------------
(* The steps of a save.                                                    *)

SavingPcs == {"ids", "clear", "params", "drop", "locs"}

\* What holds after any of them.
LEMMA SavingStays ==
    ASSUME ServerAssumption, IInv, NEW t \in Workers, NEW job, Saving(t),
           jobs' = [jobs EXCEPT ![t] = job], DOMAIN job = JobFields,
           job.pc \in SavingPcs, job.sid = jobs[t].sid,
           job.form = jobs[t].form, job.alone = jobs[t].alone,
           job.pc = "locs" => job.left \in Seq(Boxes),
           UNCHANGED <<servers, settled, requests, named>>,
           nextId' \in {nextId, nextId + 1},
           \A l \in locs' \ locs :
              /\ DOMAIN l = {"id", "server", "place", "descr"}
              /\ {l.id, l.server} \subseteq Nat
              /\ l.id < nextId' /\ l.server < nextId'
    PROVE  /\ TypeInv' /\ FormInv' /\ HeldInv' /\ EditsStay' /\ AloneInv'
           /\ DOMAIN jobs' = Workers /\ jobs'[t] = job
           /\ \A u \in Workers \ {t} : jobs'[u] = jobs[u]
<1> USE DEF IInv
<1>1. /\ DOMAIN jobs' = Workers /\ jobs'[t] = job
      /\ \A u \in Workers \ {t} : Like(jobs[u], jobs'[u]) /\ jobs'[u] = jobs[u]
  BY GotoIs
<1>2. nextId \in Nat /\ nextId' \in Nat /\ nextId <= nextId'
  BY DEF TypeInv
<1>3. TypeInv'
  <2>1. /\ jobs'[t].sid \in Nat /\ jobs'[t].sid < nextId'
    BY <1>1, <1>2 DEF TypeInv
  <2>2. jobs'[t].alone \in BOOLEAN
    BY <1>1 DEF TypeInv
  <2>3. \A u \in Workers : /\ DOMAIN jobs'[u] = JobFields
                           /\ jobs'[u].sid \in Nat /\ jobs'[u].sid < nextId'
                           /\ jobs'[u].alone \in BOOLEAN
    BY <1>1, <1>2, <2>1, <2>2, JobsTyped
  <2>4. \A s \in DOMAIN servers : s < nextId'
    BY <1>2 DEF TypeInv
  <2>5. \A l \in locs : l.id < nextId' /\ l.server < nextId'
    BY <1>2 DEF TypeInv
  <2>6. \A n \in named : n.server < nextId'
    BY <1>2 DEF TypeInv
  <2>7. NServers < nextId'
    BY <1>2 DEF TypeInv, ServerAssumption
  <2>8. \A l \in locs' : /\ DOMAIN l = {"id", "server", "place", "descr"}
                         /\ {l.id, l.server} \subseteq Nat
                         /\ l.id < nextId' /\ l.server < nextId'
    BY <2>5 DEF TypeInv
  <2> QED BY <1>1, <1>2, <2>3, <2>4, <2>6, <2>7, <2>8 DEF TypeInv
<1>4. FormInv'
  <2>1. jobs[t].form \in Forms
    BY DEF FormInv
  <2>2. jobs'[t].pc # "write" /\ jobs'[t].form = jobs[t].form
    BY <1>1 DEF SavingPcs
  <2> QED BY <1>1, <2>1, <2>2, FormsStay
<1>5. HeldInv' /\ EditsStay'
  <2>1. ~Moving(t)'
    BY <1>1 DEF Moving, SavingPcs
  <2> QED BY <1>1, <1>2, <2>1, RowsStay
<1>6. AloneInv'
  <2>1. \A u \in Workers : /\ Saving(u)' => Saving(u)
                           /\ Storing(u)' => Storing(u)
                           /\ jobs'[u].sid = jobs[u].sid
                           /\ jobs'[u].alone = jobs[u].alone
    BY <1>1 DEF Saving, Storing
  <2> QED BY <2>1 DEF AloneInv
<1> QED BY <1>1, <1>3, <1>4, <1>5, <1>6

\* Those that touch neither locations nor what is known of them.
LEMMA SavingKeeps ==
    ASSUME ServerAssumption, IInv, NEW t \in Workers, NEW job, Saving(t),
           jobs' = [jobs EXCEPT ![t] = job], DOMAIN job = JobFields,
           job.pc \in {jobs[t].pc, "clear", "params"},
           jobs[t].pc = "locs" => job.pc = "locs",
           job.sid = jobs[t].sid, job.left = jobs[t].left,
           job.form = jobs[t].form, job.alone = jobs[t].alone,
           job.olds = jobs[t].olds,
           UNCHANGED <<servers, settled, requests, named, locs>>,
           nextId' \in {nextId, nextId + 1}
    PROVE  IInv'
<1>1. job.pc \in SavingPcs
  BY DEF Saving, SavingPcs
<1>2. job.pc = "locs" => job.left \in Seq(Boxes)
  BY DEF IInv, FormInv
<1>3. /\ TypeInv' /\ FormInv' /\ HeldInv' /\ EditsStay' /\ AloneInv'
      /\ DOMAIN jobs' = Workers /\ jobs'[t] = job
      /\ \A u \in Workers \ {t} : jobs'[u] = jobs[u]
  BY <1>1, <1>2, SavingStays
<1>4. \A n : AllHave(n)' = AllHave(n)
  BY DEF AllHave
<1>5. NamedInv'
  BY <1>1, <1>3, <1>4 DEF IInv, NamedInv, Kept, SavingPcs
<1>6. SaveInv'
  <2>1. \A u \in Workers : jobs'[u].pc \in {"drop", "locs"} =>
           /\ jobs'[u].pc = jobs[u].pc /\ jobs'[u].sid = jobs[u].sid
           /\ jobs'[u].form = jobs[u].form /\ jobs'[u].olds = jobs[u].olds
           /\ jobs'[u].left = jobs[u].left /\ jobs'[u].alone = jobs[u].alone
    BY <1>3
  <2> QED BY <1>4, <2>1 DEF IInv, SaveInv
<1> QED BY <1>3, <1>5, <1>6 DEF IInv

LEMMA ReadLocationIdsStep ==
    ASSUME ServerAssumption, IInv, NEW t \in Workers, ReadLocationIds(t)
    PROVE  IInv'
<1> DEFINE ids == Ids(LocsOf(jobs[t].sid))
           job == [jobs[t] EXCEPT !.pc = "clear", !.ids = ids]
<1>1. /\ jobs[t].pc = "ids" /\ jobs' = [jobs EXCEPT ![t] = job]
      /\ UNCHANGED <<servers, settled, requests, named, locs, nextId>>
  BY DEF ReadLocationIds, Goto, storeRows, hist
<1>2. DOMAIN jobs[t] = JobFields
  BY DEF IInv, TypeInv
<1> HIDE DEF ids
<1>3. /\ DOMAIN job = JobFields /\ job.pc = "clear" /\ job.sid = jobs[t].sid
      /\ job.left = jobs[t].left /\ job.form = jobs[t].form
      /\ job.alone = jobs[t].alone /\ job.olds = jobs[t].olds
  BY <1>2 DEF JobFields
<1> HIDE DEF job
<1>4. Saving(t)
  BY <1>1 DEF Saving
<1> QED BY <1>1, <1>3, <1>4, SavingKeeps

LEMMA ClearParamsStep ==
    ASSUME ServerAssumption, IInv, NEW t \in Workers, ClearParams(t)
    PROVE  IInv'
<1> DEFINE todo == InReverse(jobs[t].form.params)
           job == [jobs[t] EXCEPT !.pc = "params", !.ids = {jobs[t].sid},
                                  !.todo = todo]
<1>1. /\ jobs[t].pc = "clear" /\ jobs' = [jobs EXCEPT ![t] = job]
      /\ UNCHANGED <<servers, settled, requests, named, locs, nextId>>
  BY DEF ClearParams, Goto, hist
<1>2. DOMAIN jobs[t] = JobFields
  BY DEF IInv, TypeInv
<1> HIDE DEF todo
<1>3. /\ DOMAIN job = JobFields /\ job.pc = "params" /\ job.sid = jobs[t].sid
      /\ job.left = jobs[t].left /\ job.form = jobs[t].form
      /\ job.alone = jobs[t].alone /\ job.olds = jobs[t].olds
  BY <1>2 DEF JobFields
<1> HIDE DEF job
<1>4. Saving(t)
  BY <1>1 DEF Saving
<1> QED BY <1>1, <1>3, <1>4, SavingKeeps

LEMMA InsertParamStep ==
    ASSUME ServerAssumption, IInv, NEW t \in Workers, InsertParam(t)
    PROVE  IInv'
<1> DEFINE todo == Tail(jobs[t].todo)
           job == [jobs[t] EXCEPT !.todo = todo]
<1>1. /\ jobs[t].pc \in {"params", "locs"} /\ jobs' = [jobs EXCEPT ![t] = job]
      /\ nextId' = nextId + 1
      /\ UNCHANGED <<servers, settled, requests, named, locs>>
  BY DEF InsertParam, Goto, hist
<1>2. DOMAIN jobs[t] = JobFields
  BY DEF IInv, TypeInv
<1> HIDE DEF todo
<1>3. /\ DOMAIN job = JobFields /\ job.pc = jobs[t].pc /\ job.sid = jobs[t].sid
      /\ job.left = jobs[t].left /\ job.form = jobs[t].form
      /\ job.alone = jobs[t].alone /\ job.olds = jobs[t].olds
  BY <1>2 DEF JobFields
<1> HIDE DEF job
<1>4. Saving(t)
  BY <1>1 DEF Saving
<1> QED BY <1>1, <1>3, <1>4, SavingKeeps

LEMMA ReadOldsStep ==
    ASSUME ServerAssumption, IInv, NEW t \in Workers, ReadOlds(t)
    PROVE  IInv'
<1> DEFINE olds == LocsOf(jobs[t].sid)
           job == [jobs[t] EXCEPT !.pc = "drop", !.olds = olds]
<1>1. /\ jobs[t].pc = "params" /\ jobs' = [jobs EXCEPT ![t] = job]
      /\ UNCHANGED <<servers, settled, requests, named, locs, nextId>>
  BY DEF ReadOlds, Olds, Goto, storeRows, hist
<1>2. DOMAIN jobs[t] = JobFields
  BY DEF IInv, TypeInv
<1> HIDE DEF olds
<1>3. /\ DOMAIN job = JobFields /\ job.pc = "drop" /\ job.sid = jobs[t].sid
      /\ job.form = jobs[t].form /\ job.olds = olds
      /\ job.alone = jobs[t].alone
  BY <1>2 DEF JobFields
<1> HIDE DEF job
<1>4. Saving(t)
  BY <1>1 DEF Saving
<1>5. /\ TypeInv' /\ FormInv' /\ HeldInv' /\ EditsStay' /\ AloneInv'
      /\ DOMAIN jobs' = Workers /\ jobs'[t] = job
      /\ \A u \in Workers \ {t} : jobs'[u] = jobs[u]
  BY <1>1, <1>3, <1>4, SavingStays DEF SavingPcs
<1>6. \A n : AllHave(n)' = AllHave(n)
  BY <1>1 DEF AllHave
<1>7. NamedInv'
  BY <1>1, <1>3, <1>5, <1>6 DEF IInv, NamedInv, Kept
<1>8. ASSUME NEW n \in named, jobs[t].alone, jobs[t].sid = n.server
      PROVE  DescrFor(olds, n.place) = n.descr
  <2>1. ASSUME NEW u \in Workers, jobs[u].pc = "locs", jobs[u].sid = n.server
        PROVE  FALSE
    BY <1>1, <1>4, <1>8, <2>1 DEF IInv, AloneInv, Storing, Saving
  <2>2. Kept(n)
    BY <2>1 DEF IInv, NamedInv
  <2>3. /\ \A l \in olds : l \in locs /\ (l.place = n.place => At(l, n))
        /\ \A l \in locs : At(l, n) => l \in olds /\ l.place = n.place
    BY <1>8 DEF olds, LocsOf, At
  <2>4. /\ \A l \in olds : l.place = n.place => l.descr = n.descr
        /\ \E l \in olds : l.place = n.place
    BY <2>2, <2>3 DEF Kept, AllHave
  <2>5. nextId \in Nat /\ \A l \in olds : l.id \in Nat /\ l.id < nextId
    BY <2>3 DEF IInv, TypeInv
  <2> QED BY <2>4, <2>5, DescrForIs
<1>9. SaveInv'
  <2>1. \A u \in Workers \ {t} : jobs'[u] = jobs[u]
    BY <1>5
  <2> QED BY <1>1, <1>3, <1>5, <1>6, <1>8, <2>1 DEF IInv, SaveInv
<1> QED BY <1>5, <1>7, <1>9 DEF IInv

\* A location of each place of the form is to be inserted.
LEMMA ReversedIs ==
    ASSUME ServerAssumption, NEW form \in Forms
    PROVE  /\ InReverse(form.locs) \in Seq(Boxes)
           /\ \A place \in Places(form) :
                 \E i \in DOMAIN InReverse(form.locs) :
                    InReverse(form.locs)[i].place = place
<1>1. form.locs \in Seq(Range(form.locs)) /\ Range(form.locs) \subseteq Boxes
  BY DEF ServerAssumption, IsForm, Boxes
<1>2. form.locs \in Seq(Boxes)
  BY <1>1
<1> DEFINE list == form.locs
           n == Len(list)
<1>3. n \in Nat /\ DOMAIN list = 1..n
  BY <1>2
<1>4. InReverse(list) = [i \in 1..n |-> list[n - i + 1]]
  BY <1>3 DEF InReverse, Reverse
<1>5. InReverse(list) \in Seq(Boxes)
  BY <1>2, <1>3, <1>4
<1>6. ASSUME NEW i \in DOMAIN list
      PROVE  \E j \in DOMAIN InReverse(list) : InReverse(list)[j] = list[i]
  <2>1. n - i + 1 \in 1..n /\ n - (n - i + 1) + 1 = i
    BY <1>3
  <2> QED BY <1>3, <1>4, <2>1
<1> QED BY <1>5, <1>6 DEF Places

LEMMA DropLocsStep ==
    ASSUME ServerAssumption, IInv, NEW t \in Workers, DropLocs(t)
    PROVE  IInv'
<1> DEFINE s == jobs[t].sid
           list == InReverse(jobs[t].form.locs)
           job == [jobs[t] EXCEPT !.pc = "locs", !.left = list]
<1>1. /\ jobs[t].pc = "drop" /\ jobs' = [jobs EXCEPT ![t] = job]
      /\ locs' = {l \in locs : l.server # s}
      /\ UNCHANGED <<servers, settled, requests, named, nextId>>
  BY DEF DropLocs, Goto, hist
<1>2. DOMAIN jobs[t] = JobFields
  BY DEF IInv, TypeInv
<1>3. Saving(t)
  BY <1>1 DEF Saving
<1>4. jobs[t].form \in Forms
  BY <1>3 DEF IInv, FormInv
<1>5. /\ list \in Seq(Boxes)
      /\ \A place \in Places(jobs[t].form) :
            \E i \in DOMAIN list : list[i].place = place
  BY <1>4, ReversedIs
<1> HIDE DEF list
<1>6. /\ DOMAIN job = JobFields /\ job.pc = "locs" /\ job.sid = s
      /\ job.form = jobs[t].form /\ job.olds = jobs[t].olds
      /\ job.left = list /\ job.alone = jobs[t].alone
  BY <1>2 DEF JobFields
<1> HIDE DEF job
<1>7. /\ TypeInv' /\ FormInv' /\ HeldInv' /\ EditsStay' /\ AloneInv'
      /\ DOMAIN jobs' = Workers /\ jobs'[t] = job
      /\ \A u \in Workers \ {t} : jobs'[u] = jobs[u]
  BY <1>1, <1>3, <1>5, <1>6, SavingStays DEF SavingPcs
<1>8. \A n : n.server # s => /\ AllHave(n) => AllHave(n)'
                             /\ \A l \in locs : At(l, n) => l \in locs'
  BY <1>1 DEF AllHave, At
<1>9. NamedInv'
  <2>1. ASSUME NEW n \in named
        PROVE  \/ \E u \in Workers : /\ jobs'[u].pc = "locs"
                                     /\ jobs'[u].sid = n.server
               \/ Kept(n)'
    <3>1. CASE n.server = s
      BY <1>6, <1>7, <3>1
    <3>2. CASE n.server # s
      BY <1>1, <1>7, <1>8, <3>2 DEF IInv, NamedInv, Kept
    <3> QED BY <3>1, <3>2
  <2> QED BY <1>1, <1>6, <1>7, <2>1 DEF IInv, NamedInv
<1>10. SaveInv'
  <2>1. ASSUME NEW n \in named, jobs[t].alone, s = n.server,
               n.place \in Places(jobs[t].form)
        PROVE  /\ DescrFor(jobs[t].olds, n.place) = n.descr /\ AllHave(n)'
               /\ \E i \in DOMAIN list : list[i].place = n.place
    BY <1>1, <1>5, <2>1 DEF IInv, SaveInv, AllHave, At
  <2>2. ASSUME NEW n \in named, NEW u \in Workers \ {t}, jobs[u].alone,
               jobs[u].pc = "locs", jobs[u].sid = n.server
        PROVE  n.server # s
    BY <1>3, <2>2 DEF IInv, AloneInv, Storing, Saving
  <2> QED BY <1>1, <1>6, <1>7, <1>8, <2>1, <2>2 DEF IInv, SaveInv
<1> QED BY <1>7, <1>9, <1>10 DEF IInv

LEMMA InsertLocStep ==
    ASSUME ServerAssumption, IInv, NEW t \in Workers, InsertLoc(t)
    PROVE  IInv'
<1> DEFINE s == jobs[t].sid
           box == Head(jobs[t].left)
           more == Tail(jobs[t].left)
           todo == InReverse(box.params)
           new == [id |-> nextId, server |-> s, place |-> box.place,
                   descr |-> DescrFor(jobs[t].olds, box.place)]
           job == [jobs[t] EXCEPT !.left = more, !.ids = {nextId}, !.todo = todo]
<1>1. /\ jobs[t].pc = "locs" /\ jobs' = [jobs EXCEPT ![t] = job]
      /\ jobs[t].left # <<>>
      /\ locs' = locs \cup {new} /\ nextId' = nextId + 1
      /\ UNCHANGED <<servers, settled, requests, named>>
  BY DEF InsertLoc, Goto, hist
<1>2. /\ DOMAIN jobs[t] = JobFields /\ s \in Nat /\ s < nextId /\ nextId \in Nat
  BY DEF IInv, TypeInv
<1>3. Saving(t)
  BY <1>1 DEF Saving
<1>4. jobs[t].left \in Seq(Boxes)
  BY <1>1 DEF IInv, FormInv
<1>5. /\ more \in Seq(Boxes)
      /\ \A i \in DOMAIN jobs[t].left :
            \/ jobs[t].left[i] = box
            \/ i - 1 \in DOMAIN more /\ more[i - 1] = jobs[t].left[i]
  <2> DEFINE left == jobs[t].left
  <2>1. left \in Seq(Boxes) /\ left # <<>> /\ box = Head(left)
        /\ more = Tail(left)
    BY <1>1, <1>4
  <2>4. more \in Seq(Boxes)
    BY <1>1, <1>4
  <2> HIDE DEF left, box, more
  <2>2. box = left[1]
    BY <2>1
  <2>3. ASSUME NEW i \in DOMAIN left, i # 1
        PROVE  i - 1 \in DOMAIN more /\ more[i - 1] = left[i]
    <3>1. /\ Len(left) \in Nat /\ DOMAIN left = 1..Len(left)
          /\ DOMAIN more = 1..(Len(left) - 1)
      BY <2>1
    <3>2. \A j \in DOMAIN more : more[j] = left[j + 1]
      BY <2>1
    <3> QED BY <2>3, <3>1, <3>2
  <2> QED BY <2>2, <2>3, <2>4 DEF left
<1> HIDE DEF more, todo
<1>6. /\ DOMAIN job = JobFields /\ job.pc = "locs" /\ job.sid = s
      /\ job.form = jobs[t].form /\ job.olds = jobs[t].olds
      /\ job.left = more /\ job.alone = jobs[t].alone
  BY <1>1, <1>2 DEF JobFields
<1>7. /\ DOMAIN new = {"id", "server", "place", "descr"}
      /\ new.id = nextId /\ new.server = s /\ new.place = box.place
      /\ new.descr = DescrFor(jobs[t].olds, box.place)
  OBVIOUS
<1> HIDE DEF job, new, box
<1>8. /\ TypeInv' /\ FormInv' /\ HeldInv' /\ EditsStay' /\ AloneInv'
      /\ DOMAIN jobs' = Workers /\ jobs'[t] = job
      /\ \A u \in Workers \ {t} : jobs'[u] = jobs[u]
  <2>1. \A l \in locs' \ locs : /\ DOMAIN l = {"id", "server", "place", "descr"}
                                /\ {l.id, l.server} \subseteq Nat
                                /\ l.id < nextId' /\ l.server < nextId'
    BY <1>1, <1>2, <1>7
  <2> QED BY <1>1, <1>3, <1>5, <1>6, <2>1, SavingStays DEF SavingPcs
<1>9. locs \subseteq locs'
  BY <1>1
<1>10. \A n : n.server # s /\ AllHave(n) => AllHave(n)'
  BY <1>1, <1>7 DEF AllHave, At
<1>11. NamedInv'
  <2>1. ASSUME NEW n \in named
        PROVE  \/ \E u \in Workers : /\ jobs'[u].pc = "locs"
                                     /\ jobs'[u].sid = n.server
               \/ Kept(n)'
    <3>1. CASE n.server = s
      BY <1>6, <1>8, <3>1
    <3>2. CASE n.server # s
      BY <1>1, <1>8, <1>9, <1>10, <3>2 DEF IInv, NamedInv, Kept
    <3> QED BY <3>1, <3>2
  <2> QED BY <1>1, <1>6, <1>8, <2>1 DEF IInv, NamedInv
<1>12. SaveInv'
  <2>1. ASSUME NEW n \in named, jobs[t].alone, s = n.server,
               n.place \in Places(jobs[t].form)
        PROVE  /\ DescrFor(jobs[t].olds, n.place) = n.descr /\ AllHave(n)'
               /\ \/ \E l \in locs' : At(l, n)
                  \/ \E i \in DOMAIN more : more[i].place = n.place
    <3>1. /\ DescrFor(jobs[t].olds, n.place) = n.descr /\ AllHave(n)
          /\ \/ \E l \in locs : At(l, n)
             \/ \E i \in DOMAIN jobs[t].left : jobs[t].left[i].place = n.place
      BY <1>1, <2>1 DEF IInv, SaveInv
    <3>2. AllHave(n)'
      BY <1>1, <1>7, <3>1 DEF AllHave, At
    <3>3. CASE \E i \in DOMAIN jobs[t].left : jobs[t].left[i].place = n.place
      <4>1. PICK i \in DOMAIN jobs[t].left : jobs[t].left[i].place = n.place
        BY <3>3
      <4>2. CASE jobs[t].left[i] = box
        BY <1>1, <1>7, <2>1, <4>1, <4>2, <3>1, <3>2 DEF At
      <4>3. CASE jobs[t].left[i] # box
        BY <1>5, <3>1, <3>2, <4>1, <4>3
      <4> QED BY <4>2, <4>3
    <3> QED BY <1>9, <3>1, <3>2, <3>3
  <2>2. ASSUME NEW n \in named, NEW u \in Workers \ {t}, jobs[u].alone,
               jobs[u].pc = "locs", jobs[u].sid = n.server
        PROVE  n.server # s
    BY <1>3, <2>2 DEF IInv, AloneInv, Storing, Saving
  <2>3. ASSUME NEW n \in named, NEW u \in Workers \ {t}, jobs[u].alone,
               jobs[u].sid = n.server, n.place \in Places(jobs[u].form),
               jobs[u].pc = "locs"
        PROVE  /\ DescrFor(jobs[u].olds, n.place) = n.descr /\ AllHave(n)'
               /\ \/ \E l \in locs' : At(l, n)
                  \/ \E i \in DOMAIN jobs[u].left :
                        jobs[u].left[i].place = n.place
    BY <1>9, <1>10, <2>2, <2>3 DEF IInv, SaveInv
  <2> QED BY <1>1, <1>6, <1>8, <2>1, <2>3 DEF IInv, SaveInv
<1> QED BY <1>8, <1>11, <1>12 DEF IInv

LEMMA SaveDoneStep ==
    ASSUME ServerAssumption, IInv, NEW t \in Workers, SaveDone(t)
    PROVE  IInv'
<1> DEFINE s == jobs[t].sid
<1>1. /\ jobs[t].pc = "locs" /\ jobs[t].left = <<>>
      /\ jobs' = [jobs EXCEPT ![t] = Resting]
      /\ named' = {n \in named : n.server = s =>
                     jobs[t].alone /\ n.place \in Places(jobs[t].form)}
      /\ UNCHANGED <<servers, settled, requests, locs, nextId>>
  BY DEF SaveDone, Goto, storeRows
<1>2. TypeInv' /\ FormInv' /\ HeldInv' /\ EditsStay' /\ AloneInv' /\ SaveInv'
  BY <1>1, RestStays
<1>3. /\ jobs'[t] = Resting
      /\ \A u \in Workers \ {t} : jobs'[u] = jobs[u]
  BY <1>1 DEF IInv, TypeInv
<1>4. NamedInv'
  <2>1. ASSUME NEW n \in named'
        PROVE  \/ \E u \in Workers : /\ jobs'[u].pc = "locs"
                                     /\ jobs'[u].sid = n.server
               \/ Kept(n)
    <3>1. n \in named
      BY <1>1
    <3>2. CASE n.server = s
      <4>1. jobs[t].alone /\ n.place \in Places(jobs[t].form)
        BY <1>1, <3>2
      <4> QED BY <1>1, <3>1, <3>2, <4>1 DEF IInv, SaveInv, Kept
    <3>3. CASE n.server # s
      BY <1>3, <3>1, <3>3 DEF IInv, NamedInv
    <3> QED BY <3>2, <3>3
  <2>2. \A n : Kept(n)' = Kept(n)
    BY <1>1 DEF Kept, AllHave
  <2>3. ASSUME NEW n \in named', NEW u \in Workers, jobs'[u].pc = "delLocs"
        PROVE  jobs'[u].sid # n.server
    BY <1>1, <1>3, <2>3, RestingIs DEF IInv, NamedInv
  <2> QED BY <2>1, <2>2, <2>3 DEF NamedInv
<1> QED BY <1>2, <1>4 DEF IInv

\* A request that fails forgets what a save of its server was about.
LEMMA FailStep ==
    ASSUME ServerAssumption, IInv, NEW t \in Workers, Fail(t)
    PROVE  IInv'
<1>1. /\ jobs' = [jobs EXCEPT ![t] = Resting]
      /\ named' \subseteq named
      /\ jobs[t].pc = "locs" => \A n \in named' : n.server # jobs[t].sid
      /\ UNCHANGED <<servers, settled, requests, locs, nextId>>
  BY DEF Fail, storeRows
<1>2. TypeInv' /\ FormInv' /\ HeldInv' /\ EditsStay' /\ AloneInv' /\ SaveInv'
  BY <1>1, RestStays
<1>3. /\ jobs'[t] = Resting
      /\ \A u \in Workers \ {t} : jobs'[u] = jobs[u]
  BY <1>1 DEF IInv, TypeInv
<1>4. NamedInv'
  <2>1. \A n : Kept(n)' = Kept(n)
    BY <1>1 DEF Kept, AllHave
  <2>2. \A n \in named' : \A u \in Workers :
           jobs[u].pc = "locs" /\ jobs[u].sid = n.server => u # t
    BY <1>1
  <2>3. \A n \in named' : \A u \in Workers :
           jobs'[u].pc = "delLocs" => jobs'[u].sid # n.server
    BY <1>1, <1>3, RestingIs DEF IInv, NamedInv
  <2>4. \A n \in named' : \/ \E u \in Workers : /\ jobs'[u].pc = "locs"
                                                /\ jobs'[u].sid = n.server
                          \/ Kept(n)
    BY <1>1, <1>3, <2>2 DEF IInv, NamedInv
  <2> QED BY <2>1, <2>3, <2>4 DEF NamedInv
<1> QED BY <1>2, <1>4 DEF IInv

LEMMA DelLocsStep ==
    ASSUME ServerAssumption, IInv, NEW t \in Workers, DelLocs(t)
    PROVE  IInv'
<1> USE DEF IInv
<1> DEFINE s == jobs[t].sid
<1>1. /\ jobs[t].pc = "delLocs" /\ jobs' = [jobs EXCEPT ![t] = Resting]
      /\ locs' = {l \in locs : l.server # s}
      /\ UNCHANGED <<servers, settled, requests, named, nextId>>
  BY DEF DelLocs, Goto, hist
<1>2. /\ DOMAIN jobs' = Workers /\ jobs'[t] = Resting
      /\ \A u \in Workers \ {t} : Like(jobs[u], jobs'[u]) /\ jobs'[u] = jobs[u]
  BY <1>1, GotoIs
<1>3. nextId \in Nat /\ 0 < nextId
  BY DEF TypeInv, ServerAssumption
<1>4. TypeInv'
  <2>1. \A u \in Workers : /\ DOMAIN jobs'[u] = JobFields
                           /\ jobs'[u].sid \in Nat /\ jobs'[u].sid < nextId'
                           /\ jobs'[u].alone \in BOOLEAN
    BY <1>1, <1>2, <1>3, RestingIs, JobsTyped
  <2> QED BY <1>1, <1>2, <2>1 DEF TypeInv
<1>5. FormInv'
  BY <1>2, RestingIs, FormsStay DEF Saving
<1>6. HeldInv' /\ EditsStay'
  BY <1>1, <1>2, <1>3, RestingIs, RowsStay DEF Moving
<1>7. AloneInv'
  BY <1>2, RestingIs DEF AloneInv, Saving, Storing
<1>8. \A n \in named : n.server # s
  BY <1>1 DEF NamedInv
<1>9. \A n : n.server # s => /\ AllHave(n) => AllHave(n)'
                             /\ \A l \in locs : At(l, n) => l \in locs'
  BY <1>1 DEF AllHave, At
<1>10. NamedInv'
  <2>1. ASSUME NEW n \in named
        PROVE  \/ \E u \in Workers : /\ jobs'[u].pc = "locs"
                                     /\ jobs'[u].sid = n.server
               \/ Kept(n)'
    <3>1. n.server # s
      BY <1>8
    <3>2. CASE Kept(n)
      BY <1>9, <3>1, <3>2 DEF Kept
    <3>3. CASE ~Kept(n)
      BY <1>1, <1>2, <3>1, <3>3 DEF NamedInv
    <3> QED BY <3>2, <3>3
  <2> QED BY <1>1, <1>2, <2>1, RestingIs DEF NamedInv
<1>11. SaveInv'
  <2>1. ASSUME NEW n \in named, NEW u \in Workers \ {t}, jobs[u].alone,
               jobs[u].sid = n.server, n.place \in Places(jobs[u].form),
               jobs[u].pc = "locs"
        PROVE  /\ DescrFor(jobs[u].olds, n.place) = n.descr /\ AllHave(n)'
               /\ \/ \E l \in locs' : At(l, n)
                  \/ \E i \in DOMAIN jobs[u].left :
                        jobs[u].left[i].place = n.place
    BY <1>8, <1>9, <2>1 DEF SaveInv
  <2> QED BY <1>1, <1>2, <2>1, RestingIs DEF SaveInv
<1> QED BY <1>4, <1>5, <1>6, <1>7, <1>10, <1>11

\* A description is set where nothing else works, or is not counted on.
LEMMA SetLocationDescrStep ==
    ASSUME ServerAssumption, IInv, NEW l \in locs, NEW d \in Descrs,
           SetLocationDescr(l, d)
    PROVE  IInv'
<1> USE DEF IInv
<1> DEFINE changed == [l EXCEPT !.descr = d]
           new == [server |-> l.server, place |-> l.place, descr |-> d]
<1>1. /\ locs' = (locs \ {l}) \cup {changed} /\ requests' = requests + 1
      /\ named' \subseteq {n \in named : n.server # l.server \/ n.place # l.place}
                            \cup {new}
      /\ new \in named' =>
            \/ new \in {n \in named : n.server # l.server \/ n.place # l.place}
            \/ Alone(l) /\ \A u \in Workers : ~Busy(u, l.server)
      /\ UNCHANGED <<servers, settled, jobs, nextId>>
  BY DEF SetLocationDescr, Count
<1>2. new.server = l.server /\ new.place = l.place /\ new.descr = d
  OBVIOUS
<1>3. /\ DOMAIN l = {"id", "server", "place", "descr"}
      /\ {l.id, l.server} \subseteq Nat
      /\ l.id < nextId /\ l.server < nextId
  BY DEF TypeInv
<1>4. /\ DOMAIN changed = DOMAIN l /\ changed.id = l.id
      /\ changed.server = l.server /\ changed.place = l.place
      /\ changed.descr = d
  BY <1>3
<1> HIDE DEF changed, new
<1>5. TypeInv'
  <2>1. \A m \in locs' : /\ DOMAIN m = {"id", "server", "place", "descr"}
                         /\ {m.id, m.server} \subseteq Nat
                         /\ m.id < nextId /\ m.server < nextId
    BY <1>1, <1>3, <1>4 DEF TypeInv
  <2>2. \A n \in named' : n.server \in Nat /\ n.server < nextId
    BY <1>1, <1>2, <1>3 DEF TypeInv
  <2> QED BY <1>1, <2>1, <2>2 DEF TypeInv
<1>6. FormInv' /\ HeldInv' /\ EditsStay' /\ AloneInv'
  BY <1>1 DEF FormInv, HeldInv, EditsStay, AloneInv, Saving, Storing, Moving
<1>7. \A n : n.server # l.server \/ n.place # l.place =>
         /\ AllHave(n) => AllHave(n)'
         /\ (\E m \in locs : At(m, n)) => \E m \in locs' : At(m, n)
  BY <1>1, <1>4 DEF AllHave, At
<1>8. Alone(l) => Kept(new)'
  BY <1>1, <1>2, <1>4 DEF Alone, LocsOf, Kept, AllHave, At
<1>9. NamedInv'
  <2>1. ASSUME NEW n \in named', n \in named,
               n.server # l.server \/ n.place # l.place
        PROVE  /\ \/ \E u \in Workers : /\ jobs[u].pc = "locs"
                                        /\ jobs[u].sid = n.server
                  \/ Kept(n)'
               /\ \A u \in Workers : jobs[u].pc = "delLocs" =>
                     jobs[u].sid # n.server
    BY <1>7, <2>1 DEF NamedInv, Kept
  <2>2. ASSUME Alone(l), \A u \in Workers : ~Busy(u, l.server)
        PROVE  /\ Kept(new)'
               /\ \A u \in Workers : jobs[u].pc = "delLocs" =>
                     jobs[u].sid # new.server
    BY <1>2, <1>8, <2>2 DEF Busy
  <2> QED BY <1>1, <2>1, <2>2 DEF NamedInv
<1>10. SaveInv'
  <2>1. ASSUME NEW n \in named, n.server # l.server \/ n.place # l.place,
               NEW u \in Workers, jobs[u].alone, jobs[u].sid = n.server
        PROVE  /\ jobs[u].pc = "drop" =>
                     DescrFor(jobs[u].olds, n.place) = n.descr
               /\ jobs[u].pc = "locs" /\ n.place \in Places(jobs[u].form) =>
                     /\ DescrFor(jobs[u].olds, n.place) = n.descr
                     /\ AllHave(n)'
                     /\ \/ \E m \in locs' : At(m, n)
                        \/ \E i \in DOMAIN jobs[u].left :
                              jobs[u].left[i].place = n.place
    BY <1>7, <2>1 DEF SaveInv
  <2>2. ASSUME \A u \in Workers : ~Busy(u, l.server)
        PROVE  \A u \in Workers : jobs[u].sid = new.server =>
                  jobs[u].pc = "idle"
    BY <1>2, <2>2 DEF Busy
  <2> QED BY <1>1, <2>1, <2>2 DEF SaveInv
<1> QED BY <1>5, <1>6, <1>9, <1>10

-----------------------------------------------------------------------------
(* The first step of a save, and a deletion.                               *)

LEMMA WriteNewStep ==
    ASSUME ServerAssumption, IInv, NEW t \in Workers, WriteNew(t)
    PROVE  IInv'
<1> USE DEF IInv
<1> DEFINE seq == jobs[t].seq
           row == [seq |-> seq, edit |-> requests]
           job == [jobs[t] EXCEPT !.pc = "ids", !.sid = nextId]
<1>1. /\ jobs[t].pc = "write" /\ jobs' = [Startled EXCEPT ![t] = job]
      /\ servers' = Set(servers, nextId, row) /\ nextId' = nextId + 1
      /\ settled' = Set(settled, nextId, requests)
      /\ UNCHANGED <<locs, requests, named>>
  BY DEF WriteNew
<1>2. nextId \in Nat /\ 0 < nextId /\ requests \in Nat
      /\ DOMAIN jobs[t] = JobFields
  BY DEF TypeInv, ServerAssumption
<1>3. row \in Settings /\ row.edit = requests
  <2>1. seq \in Nat
    BY <1>1 DEF FormInv
  <2> QED BY <1>2, <2>1 DEF Settings
<1>4. /\ DOMAIN job = JobFields /\ job.pc = "ids" /\ job.sid = nextId
      /\ job.form = jobs[t].form /\ job.alone = jobs[t].alone
  BY <1>2 DEF JobFields
<1> HIDE DEF row, job
<1>5. /\ DOMAIN jobs' = Workers /\ jobs'[t] = job
      /\ \A u \in Workers \ {t} : Like(jobs[u], jobs'[u])
  BY <1>1, StartledIs
<1>6. /\ \A r \in DOMAIN servers' : r \in Nat /\ r < nextId'
                                    /\ servers'[r] \in Settings
      /\ DOMAIN settled' = DOMAIN servers'
      /\ EditsStay'
      /\ \A u \in Workers : \A i \in DOMAIN jobs[u].rows : Moving(u) =>
            /\ jobs[u].rows[i].id < nextId'
            /\ jobs[u].rows[i].id \in DOMAIN servers' =>
                  settled'[jobs[u].rows[i].id] \in {-1, jobs[u].rows[i].row.edit}
  BY <1>1, <1>3, InsertedStays
<1>7. nextId' \in Nat /\ nextId <= nextId' /\ nextId < nextId'
  BY <1>1, <1>2
<1>8. TypeInv'
  <2>1. jobs[t].alone \in BOOLEAN
    BY DEF TypeInv
  <2>2. /\ DOMAIN jobs'[t] = JobFields /\ jobs'[t].sid \in Nat
        /\ jobs'[t].sid < nextId' /\ jobs'[t].alone \in BOOLEAN
    BY <1>2, <1>4, <1>5, <1>7, <2>1
  <2>3. \A u \in Workers : /\ DOMAIN jobs'[u] = JobFields
                           /\ jobs'[u].sid \in Nat /\ jobs'[u].sid < nextId'
                           /\ jobs'[u].alone \in BOOLEAN
    BY <1>5, <1>7, <2>2, JobsTyped
  <2>4. \A l \in locs : l.id < nextId' /\ l.server < nextId'
    BY <1>2, <1>7 DEF TypeInv
  <2>5. \A n \in named : n.server < nextId'
    BY <1>2, <1>7 DEF TypeInv
  <2>6. NServers < nextId'
    BY <1>2, <1>7 DEF TypeInv, ServerAssumption
  <2> QED BY <1>1, <1>5, <1>6, <1>7, <2>3, <2>4, <2>5, <2>6 DEF TypeInv
<1>9. FormInv'
  <2>1. jobs[t].form \in Forms
    BY <1>1 DEF FormInv
  <2> QED BY <1>4, <1>5, <2>1, FormsStay
<1>10. HeldInv'
  <2>1. \A u \in Workers \ {t} : /\ jobs'[u].rows = jobs[u].rows
                                 /\ Moving(u)' => Moving(u)
    BY <1>5 DEF Like, Moving
  <2>2. ~Moving(t)'
    BY <1>4, <1>5 DEF Moving
  <2> QED BY <1>6, <2>1, <2>2 DEF HeldInv
<1>11. \A u \in Workers \ {t} : /\ jobs'[u].pc = jobs[u].pc
                                /\ jobs'[u].sid = jobs[u].sid
                                /\ jobs'[u].sid # nextId
  BY <1>2, <1>5 DEF Like, TypeInv
<1>12. AloneInv'
  <2>1. ASSUME NEW u \in Workers \ {t}, NEW v \in Workers \ {t}, u # v,
               Saving(u)', Storing(v)', jobs'[u].sid = jobs'[v].sid
        PROVE  ~jobs'[u].alone
    <3>1. ~jobs[u].alone
      BY <1>11, <2>1 DEF AloneInv, Saving, Storing
    <3>2. jobs'[u].alone => jobs[u].alone
      BY <1>5 DEF Like
    <3> QED BY <3>1, <3>2
  <2>2. \A u \in Workers \ {t} : jobs'[u].sid # jobs'[t].sid
    BY <1>4, <1>5, <1>11
  <2> QED BY <2>1, <2>2 DEF AloneInv
<1>13. NamedInv'
  <2>1. \A n : Kept(n)' = Kept(n)
    BY <1>1 DEF Kept, AllHave
  <2>2. \A n \in named, u \in Workers :
           jobs[u].pc = "locs" /\ jobs[u].sid = n.server =>
              jobs'[u].pc = "locs" /\ jobs'[u].sid = n.server
    BY <1>1, <1>11
  <2>3. \A u \in Workers : jobs'[u].pc = "delLocs" =>
           jobs[u].pc = "delLocs" /\ jobs'[u].sid = jobs[u].sid
    BY <1>4, <1>5, <1>11
  <2> QED BY <1>1, <2>1, <2>2, <2>3 DEF NamedInv
<1>14. SaveInv'
  <2>1. \A n : AllHave(n)' = AllHave(n)
    BY <1>1 DEF AllHave
  <2>2. ASSUME NEW u \in Workers, jobs'[u].pc \in {"drop", "locs"}
        PROVE  /\ jobs'[u].pc = jobs[u].pc /\ jobs'[u].sid = jobs[u].sid
               /\ jobs'[u].form = jobs[u].form /\ jobs'[u].olds = jobs[u].olds
               /\ jobs'[u].left = jobs[u].left
               /\ jobs'[u].alone => jobs[u].alone
    BY <1>4, <1>5, <2>2 DEF Like
  <2> QED BY <1>1, <2>1, <2>2 DEF SaveInv
<1> QED BY <1>6, <1>8, <1>9, <1>10, <1>12, <1>13, <1>14

LEMMA WriteOldStep ==
    ASSUME ServerAssumption, IInv, NEW t \in Workers, WriteOld(t)
    PROVE  IInv'
<1> USE DEF IInv
<1> DEFINE s == jobs[t].sid
           nobody == \A u \in Workers \ {t} : ~Busy(u, s)
           job == [jobs[t] EXCEPT !.pc = "ids", !.alone = nobody]
<1>1. /\ jobs[t].pc = "write" /\ jobs' = [Disturbed(s) EXCEPT ![t] = job]
      /\ s \in DOMAIN servers
      /\ servers' = [servers EXCEPT ![s].edit = requests]
      /\ Settled(s, requests)
      /\ UNCHANGED <<locs, nextId, requests, named>>
  BY DEF WriteOld
<1>2. nextId \in Nat /\ requests \in Nat
      /\ DOMAIN jobs[t] = JobFields
  BY DEF TypeInv
<1>3. nobody \in BOOLEAN
  OBVIOUS
<1>4. /\ DOMAIN job = JobFields /\ job.pc = "ids" /\ job.sid = s
      /\ job.form = jobs[t].form /\ job.alone = nobody
  BY <1>2 DEF JobFields
<1>5. nobody => \A u \in Workers \ {t} : ~Busy(u, s)
  OBVIOUS
<1> HIDE DEF nobody, job
<1>6. /\ DOMAIN jobs' = Workers /\ jobs'[t] = job
      /\ \A u \in Workers \ {t} : /\ Like(jobs[u], jobs'[u])
                                  /\ Busy(u, s) => ~jobs'[u].alone
  BY SMTT(30), <1>1, DisturbedIs
<1>7. /\ DOMAIN servers' = DOMAIN servers
      /\ DOMAIN settled' = DOMAIN servers
      /\ \A r \in DOMAIN servers : servers'[r] \in Settings
      /\ EditsStay'
      /\ \A u \in Workers : \A i \in DOMAIN jobs[u].rows :
            Moving(u) /\ jobs[u].rows[i].id \in DOMAIN servers =>
               settled'[jobs[u].rows[i].id] \in {-1, jobs[u].rows[i].row.edit}
  BY <1>1, <1>2, EditedStays
<1>8. TypeInv'
  <2>1. s \in Nat /\ s < nextId
    BY DEF TypeInv
  <2>2. /\ DOMAIN jobs'[t] = JobFields /\ jobs'[t].sid \in Nat
        /\ jobs'[t].sid < nextId' /\ jobs'[t].alone \in BOOLEAN
    BY <1>1, <1>3, <1>4, <1>6, <2>1
  <2>3. \A u \in Workers : /\ DOMAIN jobs'[u] = JobFields
                           /\ jobs'[u].sid \in Nat /\ jobs'[u].sid < nextId'
                           /\ jobs'[u].alone \in BOOLEAN
    BY <1>1, <1>2, <1>6, <2>2, JobsTyped
  <2> QED BY <1>1, <1>6, <1>7, <2>3 DEF TypeInv
<1>9. FormInv'
  <2>1. jobs[t].form \in Forms
    BY <1>1 DEF FormInv
  <2> QED BY <1>4, <1>6, <2>1, FormsStay
<1>10. HeldInv'
  <2>1. \A u \in Workers \ {t} : /\ jobs'[u].rows = jobs[u].rows
                                 /\ Moving(u)' => Moving(u)
    BY <1>6 DEF Like, Moving
  <2>2. ~Moving(t)'
    BY <1>4, <1>6 DEF Moving
  <2>3. ASSUME NEW u \in Workers, Moving(u)
        PROVE  /\ jobs[u].rows \in Seq(Entries) /\ jobs[u].rows # <<>>
               /\ \A i \in DOMAIN jobs[u].rows :
                    /\ jobs[u].rows[i].id < nextId'
                    /\ jobs[u].rows[i].id \in DOMAIN servers' =>
                          settled'[jobs[u].rows[i].id]
                             \in {-1, jobs[u].rows[i].row.edit}
    <3>1. nextId' = nextId
      BY <1>1
    <3> QED BY <1>7, <2>3, <3>1 DEF HeldInv
  <2> QED BY <2>1, <2>2, <2>3 DEF HeldInv
<1>11. \A u \in Workers \ {t} : /\ jobs'[u].pc = jobs[u].pc
                                /\ jobs'[u].sid = jobs[u].sid
  BY <1>6 DEF Like
<1>12. AloneInv'
  <2>1. ASSUME NEW u \in Workers \ {t}, NEW v \in Workers \ {t}, u # v,
               Saving(u)', Storing(v)', jobs'[u].sid = jobs'[v].sid
        PROVE  ~jobs'[u].alone
    <3>1. ~jobs[u].alone
      BY <1>11, <2>1 DEF AloneInv, Saving, Storing
    <3>2. jobs'[u].alone => jobs[u].alone
      BY <1>6 DEF Like
    <3> QED BY <3>1, <3>2
  <2>2. ASSUME NEW u \in Workers \ {t}, Storing(u)', jobs'[u].sid = jobs'[t].sid
        PROVE  ~jobs'[u].alone /\ ~jobs'[t].alone
    <3>1. Busy(u, s)
      BY <1>4, <1>6, <1>11, <2>2 DEF Busy, Storing, Saving
    <3>2. ~nobody
      BY <1>5, <3>1
    <3>3. jobs'[t].alone = nobody
      BY <1>4, <1>6
    <3> QED BY <1>6, <3>1, <3>2, <3>3
  <2> QED BY <2>1, <2>2 DEF AloneInv, Storing
<1>13. NamedInv'
  <2>1. \A n : Kept(n)' = Kept(n)
    BY <1>1 DEF Kept, AllHave
  <2>2. \A n \in named, u \in Workers :
           jobs[u].pc = "locs" /\ jobs[u].sid = n.server =>
              jobs'[u].pc = "locs" /\ jobs'[u].sid = n.server
    BY <1>1, <1>11
  <2>3. \A u \in Workers : jobs'[u].pc = "delLocs" =>
           jobs[u].pc = "delLocs" /\ jobs'[u].sid = jobs[u].sid
    BY <1>4, <1>6, <1>11
  <2> QED BY <1>1, <2>1, <2>2, <2>3 DEF NamedInv
<1>14. SaveInv'
  <2>1. \A n : AllHave(n)' = AllHave(n)
    BY <1>1 DEF AllHave
  <2>2. ASSUME NEW u \in Workers, jobs'[u].pc \in {"drop", "locs"}
        PROVE  /\ jobs'[u].pc = jobs[u].pc /\ jobs'[u].sid = jobs[u].sid
               /\ jobs'[u].form = jobs[u].form /\ jobs'[u].olds = jobs[u].olds
               /\ jobs'[u].left = jobs[u].left
               /\ jobs'[u].alone => jobs[u].alone
    BY <1>4, <1>6, <2>2 DEF Like
  <2> QED BY <1>1, <2>1, <2>2 DEF SaveInv
<1> QED BY <1>7, <1>8, <1>9, <1>10, <1>12, <1>13, <1>14

LEMMA DelStep ==
    ASSUME ServerAssumption, IInv, NEW t \in Workers, NEW s \in DOMAIN servers,
           Del(t, s)
    PROVE  IInv'
<1> USE DEF IInv
<1> DEFINE job == [Resting EXCEPT !.pc = "delLocs", !.sid = s]
           disturbed(u) == IF Busy(u, s) \/ Moving(u)
                           THEN [jobs[u] EXCEPT !.alone = FALSE] ELSE jobs[u]
<1>1. /\ jobs[t] = Resting
      /\ servers' = [r \in DOMAIN servers \ {s} |-> servers[r]]
      /\ settled' = [r \in DOMAIN settled \ {s} |-> settled[r]]
      /\ named' = {n \in named : n.server # s}
      /\ jobs' = [u \in Workers |-> IF u = t THEN job ELSE disturbed(u)]
      /\ requests' = requests + 1
      /\ UNCHANGED <<locs, nextId>>
  BY DEF Del, Count
<1>2. /\ DOMAIN job = JobFields /\ job.pc = "delLocs" /\ job.sid = s
      /\ job.alone \in BOOLEAN
  BY DEF Resting, JobFields
<1>3. /\ DOMAIN jobs' = Workers /\ jobs'[t] = job
      /\ \A u \in Workers \ {t} : /\ Like(jobs[u], jobs'[u])
                                  /\ Busy(u, s) => ~jobs'[u].alone
  BY <1>1, LikeItself, LikeWithout
<1> HIDE DEF job
<1>4. /\ nextId \in Nat /\ requests \in Nat /\ s \in Nat /\ s < nextId
      /\ DOMAIN settled = DOMAIN servers
  BY DEF TypeInv
<1>5. /\ DOMAIN servers' = DOMAIN servers \ {s}
      /\ DOMAIN settled' = DOMAIN servers \ {s}
      /\ \A r \in DOMAIN servers \ {s} : /\ servers'[r] = servers[r]
                                         /\ settled'[r] = settled[r]
  BY <1>1, <1>4
<1>6. TypeInv'
  <2>1. \A u \in Workers : /\ DOMAIN jobs'[u] = JobFields
                           /\ jobs'[u].sid \in Nat /\ jobs'[u].sid < nextId'
                           /\ jobs'[u].alone \in BOOLEAN
    <3>1. /\ DOMAIN jobs'[t] = JobFields /\ jobs'[t].sid \in Nat
          /\ jobs'[t].sid < nextId' /\ jobs'[t].alone \in BOOLEAN
      BY <1>1, <1>2, <1>3, <1>4
    <3>2. nextId' \in Nat /\ nextId <= nextId'
      BY <1>1, <1>4
    <3>3. \A u \in Workers \ {t} : Like(jobs[u], jobs'[u])
      BY <1>3
    <3> QED BY <1>3, <3>1, <3>2, <3>3, JobsTyped
  <2>2. \A r \in DOMAIN servers' : r \in Nat /\ r < nextId
                                   /\ servers'[r] \in Settings
    BY <1>5 DEF TypeInv
  <2>3. \A n \in named' : n.server \in Nat /\ n.server < nextId
    BY <1>1 DEF TypeInv
  <2>4. nextId' = nextId /\ locs' = locs /\ requests' \in Nat
    BY <1>1, <1>4
  <2> QED BY <1>3, <1>5, <2>1, <2>2, <2>3, <2>4 DEF TypeInv
<1>7. FormInv'
  BY <1>2, <1>3, FormsStay DEF Saving
<1>8. EditsStay'
  BY <1>5 DEF EditsStay
<1>9. HeldInv'
  <2>1. \A u \in Workers \ {t} : /\ jobs'[u].rows = jobs[u].rows
                                 /\ Moving(u)' => Moving(u)
    BY <1>3 DEF Like, Moving
  <2>2. ~Moving(t)'
    BY <1>2, <1>3 DEF Moving
  <2> QED BY <1>1, <1>5, <2>1, <2>2 DEF HeldInv
<1>10. \A u \in Workers \ {t} : /\ jobs'[u].pc = jobs[u].pc
                                /\ jobs'[u].sid = jobs[u].sid
  BY <1>3 DEF Like
<1>11. AloneInv'
  <2>1. ASSUME NEW u \in Workers \ {t}, NEW v \in Workers \ {t}, u # v,
               Saving(u)', Storing(v)', jobs'[u].sid = jobs'[v].sid
        PROVE  ~jobs'[u].alone
    <3>1. ~jobs[u].alone
      BY <1>10, <2>1 DEF AloneInv, Saving, Storing
    <3>2. jobs'[u].alone => jobs[u].alone
      BY <1>3 DEF Like
    <3> QED BY <3>1, <3>2
  <2>2. ASSUME NEW u \in Workers \ {t}, Saving(u)', jobs'[u].sid = jobs'[t].sid
        PROVE  ~jobs'[u].alone
    <3>1. Busy(u, s)
      BY <1>2, <1>3, <1>10, <2>2 DEF Busy, Saving
    <3> QED BY <1>3, <3>1
  <2>3. ~Saving(t)'
    BY <1>2, <1>3 DEF Saving
  <2> QED BY <2>1, <2>2, <2>3 DEF AloneInv
<1>12. NamedInv'
  <2>1. \A n : Kept(n)' = Kept(n)
    BY <1>1 DEF Kept, AllHave
  <2>2. \A n \in named, u \in Workers :
           jobs[u].pc = "locs" /\ jobs[u].sid = n.server =>
              jobs'[u].pc = "locs" /\ jobs'[u].sid = n.server
    BY <1>1, <1>10, RestingIs
  <2>3. \A n \in named', u \in Workers : jobs'[u].pc = "delLocs" =>
           jobs'[u].sid # n.server
    BY <1>1, <1>2, <1>3, <1>10 DEF NamedInv
  <2> QED BY <1>1, <2>1, <2>2, <2>3 DEF NamedInv
<1>13. SaveInv'
  <2>1. \A n : AllHave(n)' = AllHave(n)
    BY <1>1 DEF AllHave
  <2>2. ASSUME NEW u \in Workers, jobs'[u].pc \in {"drop", "locs"}
        PROVE  /\ jobs'[u].pc = jobs[u].pc /\ jobs'[u].sid = jobs[u].sid
               /\ jobs'[u].form = jobs[u].form /\ jobs'[u].olds = jobs[u].olds
               /\ jobs'[u].left = jobs[u].left
               /\ jobs'[u].alone => jobs[u].alone
    BY <1>2, <1>3, <2>2 DEF Like
  <2> QED BY <1>1, <2>1, <2>2 DEF SaveInv
<1> QED BY <1>6, <1>7, <1>8, <1>9, <1>11, <1>12, <1>13

-----------------------------------------------------------------------------
(* The invariant, and what it says.                                        *)

LEMMA InvInit ==
    ASSUME ServerAssumption, Init
    PROVE  IInv
<1> USE DEF IInv
<1>1. NServers \in Nat /\ nextId = NServers + 3
  BY DEF Init, ServerAssumption
<1>2. /\ DOMAIN jobs = Workers /\ \A t \in Workers : jobs[t] = Resting
  BY DEF Init
<1>3. /\ DOMAIN servers = 1..NServers /\ DOMAIN settled = 1..NServers
      /\ \A s \in 1..NServers : /\ servers[s] \in Settings
                                /\ servers[s].edit = 0 /\ settled[s] = 0
  BY <1>1 DEF Init, Settings
<1>4. TypeInv
  <2>1. \A t \in Workers : /\ DOMAIN jobs[t] = JobFields
                           /\ jobs[t].sid \in Nat /\ jobs[t].sid < nextId
                           /\ jobs[t].alone \in BOOLEAN
    BY <1>1, <1>2, RestingIs
  <2>2. \A l \in locs : /\ DOMAIN l = {"id", "server", "place", "descr"}
                        /\ l.id = NServers + 1 /\ l.server = 1
    BY DEF Init
  <2>3. named = {} /\ requests = 0
    BY DEF Init
  <2> QED BY <1>1, <1>2, <1>3, <2>1, <2>2, <2>3 DEF TypeInv
<1>5. FormInv /\ HeldInv /\ AloneInv
  BY <1>2, RestingIs DEF FormInv, HeldInv, AloneInv, Saving, Storing, Moving
<1>6. EditsStay
  BY <1>3 DEF EditsStay
<1>7. NamedInv /\ SaveInv
  BY DEF Init, NamedInv, SaveInv
<1> QED BY <1>4, <1>5, <1>6, <1>7

LEMMA StutterStays ==
    ASSUME ServerAssumption, IInv, UNCHANGED serverVars
    PROVE  IInv'
<1> USE DEF IInv, serverVars, storeRows, hist
<1>1. TypeInv' /\ FormInv' /\ HeldInv' /\ EditsStay' /\ AloneInv'
  BY DEF TypeInv, FormInv, HeldInv, EditsStay, AloneInv, Saving, Storing,
     Moving
<1>2. NamedInv' /\ SaveInv'
  BY DEF NamedInv, SaveInv, Kept, AllHave
<1> QED BY <1>1, <1>2

LEMMA InvNext ==
    ASSUME ServerAssumption, IInv, [Next]_serverVars
    PROVE  IInv'
<1>1. CASE UNCHANGED serverVars
  BY <1>1, StutterStays
<1>2. ASSUME NEW t \in Workers, NEW s \in {0} \cup 1..NServers,
             NEW form \in Forms, Save(t, s, form)
      PROVE  IInv'
  BY <1>2, SaveStays
<1>3. ASSUME NEW t \in Workers, NEW s \in DOMAIN servers,
             Del(t, s) \/ Move(t, s)
      PROVE  IInv'
  BY <1>3, DelStep, MoveRowsStep
<1>4. ASSUME NEW t \in Workers, SaveStep(t)
      PROVE  IInv'
  BY <1>4, WriteNewStep, WriteOldStep, ReadLocationIdsStep, ClearParamsStep,
     InsertParamStep, ReadOldsStep, DropLocsStep, InsertLocStep, SaveDoneStep
     DEF SaveStep
<1>5. ASSUME NEW t \in Workers, DelLocs(t) \/ MoveStep(t) \/ Fail(t)
      PROVE  IInv'
  BY <1>5, DelLocsStep, ChooseTargetStep, NoTargetStep, UpdateRowStep, FailStep
     DEF MoveStep
<1>6. ASSUME NEW s \in DOMAIN servers, Edit(s)
      PROVE  IInv'
  BY <1>6, EditStep
<1>7. ASSUME NEW s \in 1..NServers, EditGone(s)
      PROVE  IInv'
  BY <1>7, EditGoneStep
<1>8. ASSUME NEW l \in locs, NEW d \in Descrs, SetLocationDescr(l, d)
      PROVE  IInv'
  BY <1>8, SetLocationDescrStep
<1> QED BY <1>1, <1>2, <1>3, <1>4, <1>5, <1>6, <1>7, <1>8 DEF Next

LEMMA InvAlways ==
    ASSUME ServerAssumption
    PROVE  Spec => []IInv
<1>1. Init => IInv
  BY InvInit
<1>2. IInv /\ [Next]_serverVars => IInv'
  BY InvNext
<1> QED BY <1>1, <1>2, PTL DEF Spec

\* The settings of a server are those of its last edit, unless a move of it
\* or of its neighbour had read the row before.
THEOREM EditsStayCorrect ==
    ASSUME ServerAssumption
    PROVE  Spec => []EditsStay
<1>1. IInv => EditsStay
  BY DEF IInv
<1> QED BY <1>1, InvAlways, PTL

\* The description of a location survives the saves that keep its place,
\* except while a save is inserting the locations of its server.
THEOREM DescrStaysCorrect ==
    ASSUME ServerAssumption
    PROVE  Spec => []DescrStays
<1>1. IInv => DescrStays
  BY DEF IInv, NamedInv, Kept, AllHave, At, DescrStays
<1> QED BY <1>1, InvAlways, PTL

-----------------------------------------------------------------------------
(* Lists in descending order.                                              *)

Descends(list, key) ==
    \A i, j \in DOMAIN list : i < j => key[list[i]] > key[list[j]]
Covers(list, S) == \A x \in S : \E i \in DOMAIN list : list[i] = x

\* What Descending chooses, if there is such a list.
Lists(list, key) ==
    /\ list \in Seq(DOMAIN key)
    /\ Descends(list, key) /\ Covers(list, DOMAIN key)

LEMMA SeqLen ==
    ASSUME NEW S, NEW list \in Seq(S)
    PROVE  /\ Len(list) \in Nat /\ DOMAIN list = 1..Len(list)
           /\ list \in [1..Len(list) -> S]
OBVIOUS

\* A list of all elements, without two of one key, counts them.
LEMMA ListCounts ==
    ASSUME NEW key, NEW list, Lists(list, key),
           \A x \in DOMAIN key : key[x] \in Nat
    PROVE  /\ IsFiniteSet(DOMAIN key) /\ Cardinality(DOMAIN key) = Len(list)
           /\ Len(list) \in Nat /\ list \in [1..Len(list) -> DOMAIN key]
<1> DEFINE n == Len(list)
<1>1. n \in Nat /\ DOMAIN list = 1..n /\ list \in [1..n -> DOMAIN key]
  BY SeqLen DEF Lists
<1> HIDE DEF n
<1>2. ASSUME NEW i \in 1..n, NEW j \in 1..n, list[i] = list[j]
      PROVE  i = j
  <2>1. ~(i < j) /\ ~(j < i)
    BY <1>1, <1>2 DEF Lists, Descends
  <2> QED BY <1>1, <2>1
<1>3. list \in Bijection(1..n, DOMAIN key)
  BY <1>1, <1>2 DEF Bijection, Injection, Surjection, IsInjective, Lists, Covers
<1>4. ExistsBijection(1..n, DOMAIN key)
  BY <1>3 DEF ExistsBijection
<1>5. Cardinality(DOMAIN key) = n
  BY <1>1, <1>4, FS_CountingElements
<1>6. IsFiniteSet(DOMAIN key)
  BY <1>1, <1>4, FS_NatBijection
<1> QED BY <1>1, <1>5, <1>6 DEF n

\* Of an element of a list as many are as large as its place is.
LEMMA Rank ==
    ASSUME NEW key, NEW n \in Nat, NEW list \in [1..n -> DOMAIN key],
           Descends(list, key), Covers(list, DOMAIN key),
           \A x \in DOMAIN key : key[x] \in Nat, NEW i \in 1..n
    PROVE  Cardinality({x \in DOMAIN key : key[x] >= key[list[i]]}) = i
<1> DEFINE above == {x \in DOMAIN key : key[x] >= key[list[i]]}
           f == [k \in 1..i |-> list[k]]
<1>1. i \in Nat /\ \A k \in 1..i : k \in 1..n
  OBVIOUS
<1>2. \A k \in 1..i : list[k] \in above
  <2>1. ASSUME NEW k \in 1..i
        PROVE  list[k] \in above
    <3>1. k \in 1..n
      OBVIOUS
    <3>2. list[k] \in DOMAIN key /\ list[i] \in DOMAIN key
      BY <3>1
    <3>3. k < i \/ k = i
      BY <3>1
    <3>4. key[list[k]] > key[list[i]] \/ list[k] = list[i]
      BY <3>1, <3>3 DEF Descends
    <3> QED BY <3>2, <3>4
  <2> QED BY <2>1
<1>3. \A j, k \in 1..i : list[j] = list[k] => j = k
  <2>1. ASSUME NEW j \in 1..i, NEW k \in 1..i, list[j] = list[k]
        PROVE  j = k
    <3>1. j \in 1..n /\ k \in 1..n
      BY <1>1
    <3>2. key[list[j]] \in Nat /\ key[list[k]] \in Nat
      BY <3>1
    <3>3. ~(j < k) /\ ~(k < j)
      BY <2>1, <3>1, <3>2 DEF Descends
    <3> QED BY <3>1, <3>3
  <2> QED BY <2>1
<1>4. ASSUME NEW x \in above
      PROVE  \E k \in 1..i : list[k] = x
  <2>1. PICK k \in 1..n : list[k] = x
    BY DEF Covers
  <2>2. key[x] >= key[list[i]] /\ key[x] \in Nat /\ key[list[i]] \in Nat
    OBVIOUS
  <2>3. ~(i < k)
    BY <2>1, <2>2 DEF Descends
  <2> QED BY <2>1, <2>3
<1> HIDE DEF above
<1>5. f \in Bijection(1..i, above)
  BY <1>2, <1>3, <1>4 DEF Bijection, Injection, Surjection, IsInjective
<1>6. ExistsBijection(1..i, above)
  BY <1>5 DEF ExistsBijection
<1>7. Cardinality(above) = i
  BY <1>1, <1>6, FS_CountingElements
<1> QED BY <1>7 DEF above

\* There is one such list.
LEMMA DescendingIs ==
    ASSUME NEW key, NEW list, Lists(list, key),
           \A x \in DOMAIN key : key[x] \in Nat
    PROVE  Descending(key) = list
<1> DEFINE n == Len(list)
           p == Descending(key)
<1>1. /\ n \in Nat /\ list \in [1..n -> DOMAIN key]
      /\ IsFiniteSet(DOMAIN key) /\ Cardinality(DOMAIN key) = n
  BY ListCounts
<1> HIDE DEF n
<1>2. Descends(list, key) /\ Covers(list, DOMAIN key)
  BY DEF Lists
<1>3. p \in [1..n -> DOMAIN key] /\ Descends(p, key)
  BY <1>1, <1>2 DEF Descending, Descends
<1> HIDE DEF p
<1>4. \A i, j \in 1..n : p[i] = p[j] => i = j
  <2>1. ASSUME NEW i \in 1..n, NEW j \in 1..n, p[i] = p[j]
        PROVE  i = j
    <3>1. key[p[i]] \in Nat /\ key[p[j]] \in Nat
      BY <1>3
    <3>2. ~(i < j) /\ ~(j < i)
      BY <1>3, <2>1, <3>1 DEF Descends
    <3> QED BY <1>1, <3>2
  <2> QED BY <2>1
<1>5. p \in Injection(1..n, DOMAIN key)
  BY <1>3, <1>4 DEF Injection, IsInjective
<1>6. Cardinality(1..n) = n
  BY <1>1, FS_Interval
<1>7. p \in Surjection(1..n, DOMAIN key)
  BY <1>1, <1>5, <1>6, FS_Injection
<1>8. Covers(p, DOMAIN key)
  BY <1>3, <1>7 DEF Surjection, Covers
<1>9. ASSUME NEW i \in 1..n
      PROVE  p[i] = list[i]
  <2>1. PICK j \in 1..n : list[j] = p[i]
    BY <1>1, <1>2, <1>3 DEF Covers
  <2>2. Cardinality({x \in DOMAIN key : key[x] >= key[p[i]]}) = i
    BY ZenonT(30), <1>1, <1>3, <1>8, Rank
  <2>3. Cardinality({x \in DOMAIN key : key[x] >= key[list[j]]}) = j
    BY <1>1, <1>2, Rank
  <2> QED BY <2>1, <2>2, <2>3
<1>10. p = list
  BY <1>1, <1>3, <1>9
<1> QED BY <1>10 DEF p

\* Rows by id, the newest first.
Ages(table) == [row \in table |-> row.id]
Listed(table) == Lists(Newest(table), Ages(table))

LEMMA NewestIs ==
    ASSUME NEW table, \A row \in table : row.id \in Nat,
           NEW list \in Seq(table), Covers(list, table),
           \A i, j \in DOMAIN list : i < j => list[i].id > list[j].id
    PROVE  Newest(table) = list /\ Listed(table)
<1>1. /\ DOMAIN Ages(table) = table
      /\ \A row \in table : Ages(table)[row] = row.id
  BY DEF Ages
<1>2. \A i \in DOMAIN list : list[i] \in table
  OBVIOUS
<1>3. Lists(list, Ages(table))
  BY <1>1, <1>2 DEF Lists, Descends
<1>4. Descending(Ages(table)) = list
  BY <1>1, <1>3, DescendingIs
<1>5. Newest(table) = list
  BY <1>4 DEF Newest, Ages
<1> QED BY <1>3, <1>5 DEF Listed

LEMMA ListedIs ==
    ASSUME NEW table, Listed(table)
    PROVE  /\ Newest(table) \in Seq(table) /\ Covers(Newest(table), table)
           /\ \A i, j \in DOMAIN Newest(table) :
                 i < j => Newest(table)[i].id > Newest(table)[j].id
<1>1. /\ DOMAIN Ages(table) = table
      /\ \A row \in table : Ages(table)[row] = row.id
  BY DEF Ages
<1>2. Newest(table) \in Seq(table) /\ Covers(Newest(table), table)
  BY <1>1 DEF Listed, Lists
<1>3. \A i \in DOMAIN Newest(table) : Newest(table)[i] \in table
  BY <1>2
<1> QED BY <1>1, <1>2, <1>3 DEF Listed, Lists, Descends

LEMMA NoneListed == Listed({}) /\ Newest({}) = <<>>
<1>1. <<>> \in Seq({}) /\ Covers(<<>>, {}) /\ DOMAIN <<>> = {}
  BY DEF Covers
<1>2. \A i, j \in DOMAIN <<>> : i < j => <<>>[i].id > <<>>[j].id
  BY <1>1
<1>3. \A row \in {} : row.id \in Nat
  OBVIOUS
<1> QED BY <1>1, <1>2, <1>3, NewestIs

LEMMA ConsIs ==
    ASSUME NEW S, NEW x \in S, NEW q \in Seq(S)
    PROVE  /\ <<x>> \o q \in Seq(S) /\ Len(<<x>> \o q) = 1 + Len(q)
           /\ DOMAIN (<<x>> \o q) = 1..1 + Len(q)
           /\ <<x>> \o q \in [1..1 + Len(q) -> S]
           /\ (<<x>> \o q)[1] = x
           /\ \A i \in 2..1 + Len(q) : (<<x>> \o q)[i] = q[i - 1]
<1> DEFINE new == <<x>> \o q
<1>1. <<x>> \in Seq(S) /\ Len(<<x>>) = 1 /\ <<x>>[1] = x
  OBVIOUS
<1>2. Len(q) \in Nat
  OBVIOUS
<1>3. new \in Seq(S) /\ Len(new) = 1 + Len(q)
  BY <1>1, <1>2
<1>4. (<<x>> \o q)[1] = x
  BY <1>1, <1>2
<1>5. \A i \in 2..1 + Len(q) : (<<x>> \o q)[i] = q[i - 1]
  BY <1>1, <1>2
<1> HIDE DEF new
<1>6. DOMAIN new = 1..1 + Len(q) /\ new \in [1..1 + Len(q) -> S]
  BY <1>2, <1>3, SeqLen
<1> QED BY <1>3, <1>4, <1>5, <1>6 DEF new

\* The row with the highest id stands first.
LEMMA OneMore ==
    ASSUME NEW table, Listed(table), \A r \in table : r.id \in Nat,
           NEW row, row.id \in Nat, \A r \in table : r.id < row.id
    PROVE  /\ Listed(table \cup {row})
           /\ Newest(table \cup {row}) = <<row>> \o Newest(table)
<1> DEFINE q == Newest(table)
           all == table \cup {row}
           new == <<row>> \o q
<1>1. /\ q \in Seq(table) /\ Covers(q, table)
      /\ \A i, j \in DOMAIN q : i < j => q[i].id > q[j].id
  BY ListedIs
<1> HIDE DEF q
<1>2. /\ Len(q) \in Nat /\ DOMAIN q = 1..Len(q)
      /\ \A i \in 1..Len(q) : q[i] \in table
  BY <1>1
<1>3. /\ new \in Seq(all) /\ Len(new) = Len(q) + 1
      /\ DOMAIN new = 1..Len(q) + 1 /\ new[1] = row
      /\ \A i \in 2..Len(q) + 1 : new[i] = q[i - 1]
  <2>1. q \in Seq(all) /\ <<row>> \in Seq(all)
    BY <1>1
  <2> QED BY <1>2, <2>1
<1>4. \A i \in 1..Len(q) : i + 1 \in DOMAIN new /\ new[i + 1] = q[i]
  BY <1>2, <1>3
<1>5. Covers(new, all)
  <2>1. 1 \in DOMAIN new
    BY <1>2, <1>3
  <2>2. ASSUME NEW x \in table
        PROVE  \E i \in DOMAIN new : new[i] = x
    <3>1. PICK k \in 1..Len(q) : q[k] = x
      BY <1>1, <1>2 DEF Covers
    <3> QED BY <1>4, <3>1
  <2> QED BY <1>3, <2>1, <2>2 DEF Covers
<1>6. ASSUME NEW i \in DOMAIN new, NEW j \in DOMAIN new, i < j
      PROVE  new[i].id > new[j].id
  <2>1. j - 1 \in 1..Len(q) /\ new[j] = q[j - 1]
    BY <1>2, <1>3, <1>6
  <2>2. CASE i = 1
    BY <1>2, <1>3, <2>1, <2>2
  <2>3. CASE i # 1
    <3>1. i - 1 \in 1..Len(q) /\ new[i] = q[i - 1] /\ i - 1 < j - 1
      BY <1>2, <1>3, <1>6, <2>3
    <3> QED BY <1>1, <1>2, <2>1, <3>1
  <2> QED BY <2>2, <2>3
<1>7. \A r \in all : r.id \in Nat
  OBVIOUS
<1> HIDE DEF new, all
<1>8. Newest(all) = new /\ Listed(all)
  BY <1>3, <1>5, <1>6, <1>7, NewestIs
<1> QED BY <1>8 DEF new, all, q

-----------------------------------------------------------------------------
(* What a page shows.                                                      *)

Owned(P, owner) == {p \in P : p.owner = owner}
Placed(L, s) == {l \in L : l.server = s}

\* The parameters of an owner, as the page shows them.
Has(P, owner, values) ==
    LET list == Newest(Owned(P, owner))
    IN  /\ Listed(Owned(P, owner))
        /\ values = [i \in DOMAIN list |-> list[i].value]

\* A list without its first k elements.
From(list, k) == [i \in 1..Len(list) - k |-> list[i + k]]

\* The locations of a server, of the first of which all but k parameters are
\* there, which the next one will belong to.
HasLocs(L, P, s, boxes, k, owners) ==
    LET list == Newest(Placed(L, s))
    IN  /\ Listed(Placed(L, s)) /\ Len(list) = Len(boxes)
        /\ \A i \in DOMAIN list :
              /\ list[i].place = boxes[i].place
              /\ Has(P, list[i].id,
                     From(boxes[i].params, IF i = 1 THEN k ELSE 0))
        /\ k > 0 => Len(boxes) > 0 /\ owners = {list[1].id}

\* What is left to insert are the first elements, the last of them first.
Undone(todo, list) ==
    /\ todo \in Seq(Range(list)) /\ Len(todo) <= Len(list)
    /\ \A i \in DOMAIN todo : todo[i] = list[Len(todo) + 1 - i]

LEMMA UndoneStart ==
    ASSUME NEW list, list \in Seq(Range(list))
    PROVE  /\ Undone(InReverse(list), list)
           /\ Len(InReverse(list)) = Len(list)
           /\ From(list, Len(list)) = <<>>
<1>1. /\ Len(list) \in Nat /\ DOMAIN list = 1..Len(list)
      /\ \A i \in 1..Len(list) : list[i] \in Range(list)
  BY DEF Range
<1>2. InReverse(list) = [i \in 1..Len(list) |-> list[(Len(list) - i) + 1]]
  BY DEF InReverse, Reverse
<1>3. \A i \in 1..Len(list) : (Len(list) - i) + 1 \in 1..Len(list)
  BY <1>1
<1>4. /\ InReverse(list) \in Seq(Range(list))
      /\ Len(InReverse(list)) = Len(list)
      /\ DOMAIN InReverse(list) = 1..Len(list)
  BY <1>1, <1>2, <1>3
<1>5. \A i \in 1..Len(list) : InReverse(list)[i] = list[Len(list) + 1 - i]
  BY <1>1, <1>2
<1>6. From(list, Len(list)) = <<>>
  BY <1>1 DEF From
<1> QED BY <1>1, <1>4, <1>5, <1>6 DEF Undone

LEMMA UndoneNext ==
    ASSUME NEW list, list \in Seq(Range(list)),
           NEW todo, Undone(todo, list), todo # <<>>
    PROVE  /\ Undone(Tail(todo), list)
           /\ Len(todo) \in 1..Len(list) /\ Len(Tail(todo)) = Len(todo) - 1
           /\ Head(todo) = list[Len(todo)]
           /\ From(list, Len(Tail(todo)))
                = <<Head(todo)>> \o From(list, Len(todo))
<1>1. /\ Len(list) \in Nat /\ DOMAIN list = 1..Len(list)
      /\ list \in [1..Len(list) -> Range(list)]
  BY DEF Range
<1>2. todo \in Seq(Range(list)) /\ Len(todo) <= Len(list)
  BY DEF Undone
<1>3. Len(todo) \in 1..Len(list) /\ DOMAIN todo = 1..Len(todo)
  BY <1>1, <1>2
<1>4. /\ Tail(todo) \in Seq(Range(list)) /\ Len(Tail(todo)) = Len(todo) - 1
      /\ DOMAIN Tail(todo) = 1..Len(todo) - 1
      /\ \A i \in 1..Len(todo) - 1 : Tail(todo)[i] = todo[i + 1]
  BY <1>2, <1>3
<1>5. Head(todo) = todo[1] /\ todo[1] = list[Len(todo)]
  BY <1>2, <1>3 DEF Undone
<1>6. \A i \in 1..Len(todo) - 1 : todo[i + 1] = list[Len(todo) + 1 - (i + 1)]
  BY <1>2, <1>3 DEF Undone
<1>7. Undone(Tail(todo), list)
  BY <1>1, <1>3, <1>4, <1>6 DEF Undone
<1>8. From(list, Len(Tail(todo))) = <<Head(todo)>> \o From(list, Len(todo))
  <2> DEFINE n == Len(todo)
             a == From(list, n - 1)
             b == <<list[n]>> \o From(list, n)
  <2>1. n \in Nat /\ n >= 1 /\ n <= Len(list)
    BY <1>3
  <2> HIDE DEF n
  <2>2. a = [i \in 1..Len(list) - (n - 1) |-> list[i + (n - 1)]]
    BY DEF From
  <2>3. /\ From(list, n) = [i \in 1..Len(list) - n |-> list[i + n]]
        /\ Len(list) - n \in Nat
    BY <1>1, <2>1 DEF From
  <2>4. From(list, n) \in Seq(Range(list)) /\ Len(From(list, n)) = Len(list) - n
    <3>1. \A i \in 1..Len(list) - n : list[i + n] \in Range(list)
      BY <1>1, <2>1
    <3> QED BY <2>3, <3>1
  <2>5. /\ Len(b) = 1 + (Len(list) - n) /\ DOMAIN b = 1..1 + (Len(list) - n)
        /\ b \in [1..1 + (Len(list) - n) -> Range(list)]
        /\ \A i \in 1..1 + (Len(list) - n) :
              b[i] = IF i = 1 THEN list[n] ELSE From(list, n)[i - 1]
    <3>1. list[n] \in Range(list)
      BY <1>1, <2>1
    <3> QED BY <1>1, <2>1, <2>4, <3>1, ConsIs
  <2>6. \A i \in 1..1 + (Len(list) - n) : b[i] = list[i + (n - 1)]
    <3>1. ASSUME NEW i \in 1..1 + (Len(list) - n)
          PROVE  b[i] = list[i + (n - 1)]
      <4>1. CASE i = 1
        BY <2>1, <2>5, <4>1
      <4>2. CASE i # 1
        <5>1. i - 1 \in 1..Len(list) - n /\ (i - 1) + n = i + (n - 1)
          BY <1>1, <2>1, <4>2
        <5> QED BY <2>3, <2>5, <4>2, <5>1
      <4> QED BY <4>1, <4>2
    <3> QED BY <3>1
  <2>7. Len(list) - (n - 1) = 1 + (Len(list) - n)
    BY <1>1, <2>1
  <2> HIDE DEF b
  <2>8. a = b
    BY <2>2, <2>5, <2>6, <2>7
  <2> QED BY <1>4, <1>5, <2>8 DEF a, b, n
<1> QED BY <1>3, <1>4, <1>5, <1>7, <1>8

LEMMA FromAll ==
    ASSUME NEW S, NEW list \in Seq(S)
    PROVE  From(list, 0) = list
BY DEF From

LEMMA FromIs ==
    ASSUME NEW list, Len(list) \in Nat, NEW k \in Nat, k <= Len(list)
    PROVE  /\ Len(From(list, k)) = Len(list) - k
           /\ \A i \in 1..Len(list) - k : From(list, k)[i] = list[i + k]
<1> DEFINE n == Len(list)
<1>1. n \in Nat /\ n - k \in Nat
  OBVIOUS
<1>2. From(list, k) = [i \in 1..n - k |-> list[i + k]]
  BY DEF From
<1> HIDE DEF n
<1>3. Len(From(list, k)) = n - k
  BY <1>1, <1>2
<1>4. \A i \in 1..n - k : From(list, k)[i] = list[i + k]
  BY <1>2
<1> QED BY <1>3, <1>4 DEF n

LEMMA HasNone ==
    ASSUME NEW P, NEW owner, Owned(P, owner) = {}
    PROVE  Has(P, owner, <<>>)
BY NoneListed DEF Has

LEMMA HasKept ==
    ASSUME NEW P, NEW Q, NEW owner, NEW values, Has(P, owner, values),
           Owned(P, owner) = Owned(Q, owner)
    PROVE  Has(Q, owner, values)
BY DEF Has

\* A parameter is inserted before the others.
LEMMA HasMore ==
    ASSUME NEW P, NEW owner, NEW values, Has(P, owner, values),
           NEW n \in Nat, \A p \in P : p.id \in Nat /\ p.id < n, NEW row,
           row.id = n, row.owner = owner
    PROVE  Has(P \cup {row}, owner, <<row.value>> \o values)
<1> DEFINE rows == Owned(P, owner)
           list == Newest(rows)
           new == <<row>> \o list
<1>1. Owned(P \cup {row}, owner) = rows \cup {row}
  BY DEF Owned
<1>2. \A r \in rows : r.id \in Nat /\ r.id < row.id
  BY DEF Owned
<1>3. Listed(rows) /\ values = [i \in DOMAIN list |-> list[i].value]
  BY DEF Has
<1> HIDE DEF rows
<1>4. Listed(rows \cup {row}) /\ Newest(rows \cup {row}) = new
  BY <1>2, <1>3, OneMore
<1>5. list \in Seq(rows)
  BY <1>3, ListedIs
<1> HIDE DEF list
<1>6. /\ Len(list) \in Nat /\ DOMAIN list = 1..Len(list)
      /\ DOMAIN new = 1..Len(list) + 1
      /\ \A i \in 1..Len(list) + 1 :
            new[i] = IF i = 1 THEN row ELSE list[i - 1]
  <2>1. list \in Seq(rows \cup {row}) /\ <<row>> \in Seq(rows \cup {row})
    BY <1>5
  <2> QED BY <1>5, <2>1
<1> HIDE DEF new
<1>7. [i \in DOMAIN new |-> new[i].value] = <<row.value>> \o values
  <2> DEFINE U == {r.value : r \in rows \cup {row}}
             a == [i \in DOMAIN new |-> new[i].value]
             b == <<row.value>> \o values
  <2>1. /\ values \in Seq(U) /\ Len(values) = Len(list)
        /\ \A i \in 1..Len(list) : values[i] = list[i].value
    <3>1. \A i \in 1..Len(list) : list[i].value \in U
      BY <1>5, <1>6
    <3> HIDE DEF U
    <3> QED BY <1>3, <1>6, <3>1
  <2>2. row.value \in U
    OBVIOUS
  <2> HIDE DEF U
  <2>3. /\ DOMAIN b = 1..Len(list) + 1
        /\ b \in [1..Len(list) + 1 -> U]
        /\ \A i \in 1..Len(list) + 1 :
              b[i] = IF i = 1 THEN row.value ELSE values[i - 1]
    BY <1>6, <2>1, <2>2, ConsIs
  <2>4. \A i \in 1..Len(list) + 1 : b[i] = new[i].value
    <3>1. ASSUME NEW i \in 1..Len(list) + 1, i # 1
          PROVE  i - 1 \in 1..Len(list)
      BY <1>6, <3>1
    <3> QED BY <1>6, <2>1, <2>3, <3>1
  <2> HIDE DEF b
  <2>5. a = b
    BY <1>6, <2>3, <2>4
  <2> QED BY <2>5 DEF b
<1> QED BY ZenonT(30), <1>1, <1>4, <1>7 DEF Has, rows, new, list

LEMMA LocsNone ==
    ASSUME NEW L, NEW P, NEW s, NEW owners, Placed(L, s) = {}
    PROVE  HasLocs(L, P, s, <<>>, 0, owners)
<1>1. Listed({}) /\ Newest({}) = <<>>
  BY NoneListed
<1> QED BY <1>1 DEF HasLocs

LEMMA LocsKept ==
    ASSUME NEW L, NEW M, NEW P, NEW Q, NEW s, NEW boxes, NEW k, NEW owners,
           HasLocs(L, P, s, boxes, k, owners), Placed(L, s) = Placed(M, s),
           \A l \in Placed(L, s) : Owned(P, l.id) = Owned(Q, l.id)
    PROVE  HasLocs(M, Q, s, boxes, k, owners)
<1> DEFINE list == Newest(Placed(L, s))
<1>1. Listed(Placed(L, s))
  BY DEF HasLocs
<1>2. list \in Seq(Placed(L, s))
  BY <1>1, ListedIs
<1>3. \A i \in DOMAIN list : list[i] \in Placed(L, s)
  BY <1>2
<1>4. \A i \in DOMAIN list :
         Has(Q, list[i].id, From(boxes[i].params, IF i = 1 THEN k ELSE 0))
  BY <1>3, HasKept DEF HasLocs
<1> QED BY <1>1, <1>4 DEF HasLocs

\* A location is inserted before the others, as yet without parameters.
LEMMA LocsMore ==
    ASSUME NEW L, NEW P, NEW s, NEW boxes, NEW owners,
           HasLocs(L, P, s, boxes, 0, owners),
           NEW n \in Nat, \A l \in L : l.id \in Nat /\ l.id < n,
           Owned(P, n) = {}, NEW row, row.id = n, row.server = s,
           NEW box, box.place = row.place, box.params \in Seq(Range(box.params)),
           NEW B, box \in B, boxes \in Seq(B)
    PROVE  HasLocs(L \cup {row}, P, s, <<box>> \o boxes, Len(box.params), {n})
<1> DEFINE rows == Placed(L, s)
           list == Newest(rows)
           new == <<row>> \o list
           all == <<box>> \o boxes
           k == Len(box.params)
<1>1. Placed(L \cup {row}, s) = rows \cup {row}
  BY DEF Placed
<1>2. \A r \in rows : r.id \in Nat /\ r.id < row.id
  BY DEF Placed
<1>3. /\ Listed(rows) /\ Len(list) = Len(boxes)
      /\ \A i \in DOMAIN list :
            /\ list[i].place = boxes[i].place
            /\ Has(P, list[i].id, From(boxes[i].params, IF i = 1 THEN 0 ELSE 0))
  BY DEF HasLocs
<1> HIDE DEF rows
<1>4. Listed(rows \cup {row}) /\ Newest(rows \cup {row}) = new
  BY <1>2, <1>3, OneMore
<1>5. list \in Seq(rows)
  BY <1>3, ListedIs
<1> HIDE DEF list
<1>6. /\ Len(list) \in Nat /\ DOMAIN list = 1..Len(list)
      /\ DOMAIN new = 1..1 + Len(list) /\ Len(new) = 1 + Len(list)
      /\ new[1] = row /\ \A i \in 2..1 + Len(list) : new[i] = list[i - 1]
  <2>1. list \in Seq(rows \cup {row}) /\ row \in rows \cup {row}
    BY <1>5
  <2> QED BY <1>5, <2>1, ConsIs, SeqLen
<1>7. /\ Len(all) = 1 + Len(list) /\ all[1] = box
      /\ \A i \in 2..1 + Len(list) : all[i] = boxes[i - 1]
      /\ Len(all) > 0
  BY <1>3, <1>6, ConsIs
<1>8. Has(P, n, From(box.params, k))
  BY HasNone, UndoneStart
<1> HIDE DEF new, all, k
<1>9. ASSUME NEW i \in DOMAIN new
      PROVE  /\ new[i].place = all[i].place
             /\ Has(P, new[i].id, From(all[i].params, IF i = 1 THEN k ELSE 0))
  <2>1. CASE i = 1
    BY <1>6, <1>7, <1>8, <2>1
  <2>2. CASE i # 1
    <3>1. i \in 2..1 + Len(list) /\ i - 1 \in DOMAIN list
      BY <1>6, <2>2
    <3>2. new[i] = list[i - 1] /\ all[i] = boxes[i - 1]
      BY <1>6, <1>7, <3>1
    <3> QED BY <1>3, <2>2, <3>1, <3>2
  <2> QED BY <2>1, <2>2
<1> QED BY ZenonT(30), <1>1, <1>4, <1>6, <1>7, <1>9 DEF HasLocs, all, k

\* A parameter of the newest location.
LEMMA LocsParam ==
    ASSUME NEW L, NEW P, NEW s, NEW boxes, NEW todo, NEW owners,
           HasLocs(L, P, s, boxes, Len(todo), owners),
           Undone(todo, boxes[1].params), todo # <<>>,
           boxes[1].params \in Seq(Range(boxes[1].params)),
           \A l \in L : l.id \in Nat,
           NEW n \in Nat, \A p \in P : p.id \in Nat /\ p.id < n, NEW row,
           row.id = n, row.owner \in owners, row.value = Head(todo)
    PROVE  HasLocs(L, P \cup {row}, s, boxes, Len(Tail(todo)), owners)
<1> DEFINE rows == Placed(L, s)
           list == Newest(rows)
           k == Len(todo)
<1>1. Len(todo) \in Nat /\ Len(todo) > 0 /\ Len(Tail(todo)) = Len(todo) - 1
  BY UndoneNext
<1>2. /\ Listed(rows) /\ Len(list) = Len(boxes) /\ Len(boxes) > 0
      /\ owners = {list[1].id}
      /\ \A i \in DOMAIN list :
            /\ list[i].place = boxes[i].place
            /\ Has(P, list[i].id, From(boxes[i].params, IF i = 1 THEN k ELSE 0))
  BY <1>1 DEF HasLocs
<1>3. /\ list \in Seq(rows)
      /\ \A i, j \in DOMAIN list : i < j => list[i].id > list[j].id
  BY <1>2, ListedIs
<1>4. \A i \in DOMAIN list : list[i].id \in Nat
  BY <1>3 DEF Placed
<1> HIDE DEF rows, list
<1>5. row.owner = list[1].id
  BY <1>2
<1>6. ASSUME NEW i \in DOMAIN list
      PROVE  Has(P \cup {row}, list[i].id,
                 From(boxes[i].params, IF i = 1 THEN Len(Tail(todo)) ELSE 0))
  <2>1. CASE i = 1
    <3>1. Has(P \cup {row}, list[1].id,
              <<row.value>> \o From(boxes[1].params, k))
      BY <1>2, <1>5, <1>6, <2>1, HasMore
    <3>2. From(boxes[1].params, Len(Tail(todo)))
            = <<row.value>> \o From(boxes[1].params, k)
      BY UndoneNext
    <3> QED BY <2>1, <3>1, <3>2
  <2>2. CASE i # 1
    <3>1. 1 \in DOMAIN list /\ 1 < i
      BY <1>3, <2>2, SeqLen
    <3>2. list[i].id # row.owner
      BY <1>3, <1>4, <1>5, <3>1
    <3>3. Owned(P \cup {row}, list[i].id) = Owned(P, list[i].id)
      BY <3>2 DEF Owned
    <3>4. Has(P, list[i].id, From(boxes[i].params, 0))
      BY <1>2, <2>2
    <3> QED BY <2>2, <3>3, <3>4, HasKept
  <2> QED BY <2>1, <2>2
<1> QED BY <1>2, <1>6 DEF HasLocs, rows, list

\* A location is described anew.
LEMMA LocsDescribed ==
    ASSUME NEW L, NEW P, NEW s, NEW boxes, NEW k, NEW owners,
           HasLocs(L, P, s, boxes, k, owners),
           \A l \in L : l.id \in Nat,
           NEW old \in L, NEW new, new.id = old.id, new.server = old.server,
           new.place = old.place
    PROVE  HasLocs((L \ {old}) \cup {new}, P, s, boxes, k, owners)
<1> DEFINE M == (L \ {old}) \cup {new}
           rows == Placed(L, s)
           list == Newest(rows)
           other == [i \in DOMAIN list |->
                       IF list[i] = old THEN new ELSE list[i]]
<1>1. /\ Listed(rows) /\ Len(list) = Len(boxes)
      /\ \A i \in DOMAIN list :
            /\ list[i].place = boxes[i].place
            /\ Has(P, list[i].id, From(boxes[i].params, IF i = 1 THEN k ELSE 0))
      /\ k > 0 => Len(boxes) > 0 /\ owners = {list[1].id}
  BY DEF HasLocs
<1>2. /\ list \in Seq(rows) /\ Covers(list, rows)
      /\ \A i, j \in DOMAIN list : i < j => list[i].id > list[j].id
  BY <1>1, ListedIs
<1>3. /\ Len(list) \in Nat /\ DOMAIN list = 1..Len(list)
      /\ \A i \in 1..Len(list) : list[i] \in rows
  BY <1>2
<1>4. \A r \in rows : r \in L /\ r.server = s
  BY DEF Placed
<1>5. Placed(M, s) = {r \in M : r.server = s}
  BY DEF Placed
<1>6. rows = {r \in L : r.server = s}
  BY DEF Placed
<1> HIDE DEF list, rows
<1>7. ASSUME NEW i \in 1..Len(list)
      PROVE  /\ other[i] \in Placed(M, s)
             /\ other[i].id = list[i].id /\ other[i].place = list[i].place
  BY <1>3, <1>4, <1>5, <1>7
<1>8. DOMAIN other = 1..Len(list) /\ other \in Seq(Placed(M, s))
      /\ Len(other) = Len(list)
  <2>1. DOMAIN other = 1..Len(list)
    BY <1>3
  <2>2. \A i \in 1..Len(list) : other[i] \in Placed(M, s)
    BY <1>7
  <2>3. other = [i \in 1..Len(list) |-> other[i]]
    BY <2>1
  <2> HIDE DEF other, M
  <2> QED BY <1>3, <2>1, <2>2, <2>3
<1>9. Covers(other, Placed(M, s))
  <2>1. ASSUME NEW r \in Placed(M, s)
        PROVE  \E i \in DOMAIN other : other[i] = r
    <3>1. r \in M /\ r.server = s
      BY <1>5
    <3>2. CASE r \in rows /\ r # old
      <4>1. PICK i \in 1..Len(list) : list[i] = r
        BY <1>2, <1>3, <3>2 DEF Covers
      <4> QED BY <1>3, <1>8, <3>2, <4>1
    <3>3. CASE r = new
      <4>1. old \in rows
        BY <1>6, <3>1, <3>3
      <4>2. PICK i \in 1..Len(list) : list[i] = old
        BY <1>2, <1>3, <4>1 DEF Covers
      <4> QED BY <1>3, <1>8, <3>3, <4>2
    <3> QED BY <1>6, <3>1, <3>2, <3>3
  <2> QED BY <2>1 DEF Covers
<1>10. \A i, j \in DOMAIN other : i < j => other[i].id > other[j].id
  BY <1>2, <1>3, <1>7, <1>8
<1>11. \A r \in Placed(M, s) : r.id \in Nat
  BY <1>5
<1> HIDE DEF other, M
<1>12. Newest(Placed(M, s)) = other /\ Listed(Placed(M, s))
  BY <1>8, <1>9, <1>10, <1>11, NewestIs
<1>13. Len(other) = Len(boxes)
  BY <1>1, <1>8
<1>14. \A i \in DOMAIN other :
          /\ other[i].place = boxes[i].place
          /\ Has(P, other[i].id, From(boxes[i].params, IF i = 1 THEN k ELSE 0))
  BY <1>1, <1>3, <1>7, <1>8
<1>15. ASSUME Len(boxes) > 0, owners = {list[1].id}
       PROVE  owners = {other[1].id}
  <2>1. 1 \in 1..Len(list)
    BY <1>1, <1>3, <1>15
  <2> QED BY <1>7, <1>15, <2>1
<1> QED BY <1>1, <1>12, <1>13, <1>14, <1>15 DEF HasLocs, M

-----------------------------------------------------------------------------
(* The invariant about pages.                                              *)

Pending(job) == job.pc \in {"ids", "clear", "params", "drop", "locs"}

\* What a save that is alone has inserted.
Done(job, L, P) ==
    LET boxes == From(job.form.locs, Len(job.left))
    IN  /\ job.pc = "params" =>
              /\ job.ids = {job.sid} /\ Undone(job.todo, job.form.params)
              /\ Has(P, job.sid, From(job.form.params, Len(job.todo)))
        /\ job.pc = "drop" => job.todo = <<>>
        /\ job.pc \in {"drop", "locs"} => Has(P, job.sid, job.form.params)
        /\ job.pc = "locs" =>
              /\ Undone(job.left, job.form.locs)
              /\ HasLocs(L, P, job.sid, boxes, Len(job.todo), job.ids)
              /\ job.todo # <<>> => Undone(job.todo, boxes[1].params)

\* A save inserts and deletes nothing of another server: S are the servers,
\* H those whose page is known, n is the next id.
JobOk(job, L, P, S, H, n) ==
    /\ job.pc = "write" => job.ids = {}
    /\ Pending(job) =>
          \A x \in {job.sid} \cup job.ids :
             /\ x \in Nat /\ x < n /\ (x \in S => x = job.sid)
             /\ \A l \in L : l.id = x => l.server = job.sid
    /\ Pending(job) \/ job.pc = "delLocs" => job.sid \notin H
    /\ Pending(job) /\ job.alone => job.sid \in S
    /\ Pending(job) /\ job.alone => Done(job, L, P)

RowsInv ==
    /\ \A p \in params : /\ {p.id, p.owner} \subseteq Nat
                         /\ p.id < nextId /\ p.owner < nextId
    /\ \A l, m \in locs : l.id = m.id => l = m
    /\ \A l \in locs : l.id \notin DOMAIN servers
    /\ DOMAIN shown \subseteq DOMAIN servers
JobsInv ==
    \A t \in Workers :
       JobOk(jobs[t], locs, params, DOMAIN servers, DOMAIN shown, nextId)
ShownInv ==
    \A s \in DOMAIN shown :
       /\ IsForm(shown[s]) /\ Has(params, s, shown[s].params)
       /\ HasLocs(locs, params, s, shown[s].locs, 0, {})
PageInv == RowsInv /\ JobsInv /\ ShownInv

LEMMA BoxesOf ==
    ASSUME NEW form, IsForm(form)
    PROVE  /\ form.params \in Seq(Range(form.params))
           /\ form.locs \in Seq(Range(form.locs))
           /\ \A i \in 1..Len(form.locs) :
                 /\ form.locs[i] \in Range(form.locs)
                 /\ form.locs[i].params \in Seq(Range(form.locs[i].params))
                 /\ form.locs[i] = [place |-> form.locs[i].place,
                                    params |-> form.locs[i].params]
<1>1. /\ form.params \in Seq(Range(form.params))
      /\ form.locs \in Seq(Range(form.locs))
  BY DEF IsForm
<1>2. \A i \in 1..Len(form.locs) : form.locs[i] \in Range(form.locs)
  BY <1>1, SeqLen
<1>3. ASSUME NEW i \in 1..Len(form.locs)
      PROVE  /\ form.locs[i].params \in Seq(Range(form.locs[i].params))
             /\ form.locs[i] = [place |-> form.locs[i].place,
                                params |-> form.locs[i].params]
  <2>1. PICK box : box = form.locs[i]
    OBVIOUS
  <2>2. box \in [place : {box.place}, params : Seq(Range(box.params))]
    BY <1>2, <2>1 DEF IsForm
  <2>3. PICK T : T = Seq(Range(box.params))
    OBVIOUS
  <2>4. box \in [place : {box.place}, params : T]
    BY <2>2, <2>3
  <2>5. box.params \in T /\ box = [place |-> box.place, params |-> box.params]
    BY <2>4
  <2> QED BY <2>1, <2>3, <2>5
<1> QED BY <1>1, <1>2, <1>3

\* The page shows what it has.
LEMMA PageShows ==
    ASSUME NEW s \in DOMAIN shown, IsForm(shown[s]),
           Has(params, s, shown[s].params),
           HasLocs(locs, params, s, shown[s].locs, 0, {})
    PROVE  Shown(s) = shown[s]
<1> DEFINE form == shown[s]
           list == Newest(LocsOf(s))
<1>1. /\ \A o : RowsOf(o) = Owned(params, o)
      /\ LocsOf(s) = Placed(locs, s)
  BY DEF RowsOf, Owned, LocsOf, Placed
<1>2. \A o, values : Has(params, o, values) => ParamsOf(o) = values
  BY <1>1 DEF Has, ParamsOf
<1>3. ParamsOf(s) = form.params
  BY <1>2
<1>4. /\ form.locs \in Seq(Range(form.locs))
      /\ \A i \in 1..Len(form.locs) :
            /\ form.locs[i].params \in Seq(Range(form.locs[i].params))
            /\ form.locs[i] = [place |-> form.locs[i].place,
                               params |-> form.locs[i].params]
  BY BoxesOf
<1>5. /\ Listed(LocsOf(s)) /\ Len(list) = Len(form.locs)
      /\ \A i \in DOMAIN list :
            /\ list[i].place = form.locs[i].place
            /\ Has(params, list[i].id,
                   From(form.locs[i].params, IF i = 1 THEN 0 ELSE 0))
  BY <1>1 DEF HasLocs
<1>6. list \in Seq(LocsOf(s))
  BY <1>5, ListedIs
<1>7. form = [params |-> form.params, locs |-> form.locs]
  <2>1. PICK T, U : T = Seq(Range(form.params)) /\ U = Seq(Range(form.locs))
    OBVIOUS
  <2>2. form \in [params : T, locs : U]
    BY <2>1 DEF IsForm
  <2> QED BY <2>2
<1> HIDE DEF form, list
<1>8. DOMAIN list = 1..Len(form.locs) /\ DOMAIN form.locs = 1..Len(form.locs)
  BY <1>4, <1>5, <1>6, SeqLen
<1>9. ASSUME NEW i \in 1..Len(form.locs)
      PROVE  [place |-> list[i].place, params |-> ParamsOf(list[i].id)]
               = form.locs[i]
  <2>1. From(form.locs[i].params, 0) = form.locs[i].params
    BY <1>4, FromAll
  <2>2. Has(params, list[i].id, form.locs[i].params)
    BY <1>5, <1>8, <2>1
  <2>3. ParamsOf(list[i].id) = form.locs[i].params
    BY <1>2, <2>2
  <2> QED BY <1>4, <1>5, <1>8, <2>3
<1>10. [i \in DOMAIN list |-> [place |-> list[i].place,
                               params |-> ParamsOf(list[i].id)]] = form.locs
  <2>1. form.locs = [i \in 1..Len(form.locs) |-> form.locs[i]]
    BY <1>4
  <2> QED BY <1>8, <1>9, <2>1
<1> QED BY <1>3, <1>7, <1>10 DEF Shown, form, list

-----------------------------------------------------------------------------
(* What a step does not touch stays.                                       *)

LEMMA DoneKept ==
    ASSUME NEW job, NEW L, NEW P, NEW M, NEW Q, Done(job, L, P),
           Owned(P, job.sid) = Owned(Q, job.sid),
           Placed(L, job.sid) = Placed(M, job.sid),
           \A l \in Placed(L, job.sid) : Owned(P, l.id) = Owned(Q, l.id)
    PROVE  Done(job, M, Q)
<1>1. \A values : Has(P, job.sid, values) => Has(Q, job.sid, values)
  BY HasKept
<1>2. \A boxes, k, owners : HasLocs(L, P, job.sid, boxes, k, owners) =>
                               HasLocs(M, Q, job.sid, boxes, k, owners)
  BY LocsKept
<1> QED BY <1>1, <1>2 DEF Done

LEMMA DoneLike ==
    ASSUME NEW job, NEW k, Like(job, k), NEW L, NEW P, Done(job, L, P)
    PROVE  Done(k, L, P)
BY DEF Like, Done

\* The job of another thread.
LEMMA JobKept ==
    ASSUME NEW job, NEW k, Like(job, k), NEW L, NEW P, NEW S, NEW H,
           NEW n \in Nat, JobOk(job, L, P, S, H, n),
           NEW M, NEW Q, NEW R, NEW G, NEW m \in Nat, n <= m,
           R \subseteq S \cup {n},
           \A l \in M : \/ l.id = n
                        \/ \E o \in L : o.id = l.id /\ o.server = l.server,
           Pending(job) \/ job.pc = "delLocs" => job.sid \notin G,
           Pending(job) /\ k.alone => job.sid \in R /\ Done(job, M, Q)
    PROVE  JobOk(k, M, Q, R, G, m)
<1>1. /\ k.pc = job.pc /\ k.sid = job.sid /\ k.ids = job.ids
      /\ k.alone => job.alone
  BY DEF Like
<1>2. Pending(k) = Pending(job)
  BY <1>1 DEF Pending
<1>3. ASSUME Pending(job), NEW x \in {job.sid} \cup job.ids
      PROVE  /\ x \in Nat /\ x < m /\ (x \in R => x = job.sid)
             /\ \A l \in M : l.id = x => l.server = job.sid
  <2>1. /\ x \in Nat /\ x < n /\ (x \in S => x = job.sid)
        /\ \A l \in L : l.id = x => l.server = job.sid
    BY <1>3 DEF JobOk
  <2>2. x # n /\ x < m
    BY <2>1
  <2> QED BY <2>1, <2>2
<1>4. Pending(job) /\ k.alone => Done(k, M, Q)
  BY DoneLike
<1> QED BY <1>1, <1>2, <1>3, <1>4 DEF JobOk

\* A step that leaves parameters and locations alone.
LEMMA QuietStays ==
    ASSUME IInv, PageInv, UNCHANGED <<locs, params>>,
           nextId' \in Nat, nextId <= nextId', DOMAIN jobs' = Workers,
           \A u \in Workers :
              \/ JobOk(jobs'[u], locs', params', DOMAIN servers', DOMAIN shown',
                       nextId')
              \/ /\ Like(jobs[u], jobs'[u])
                 /\ Saving(u) /\ jobs'[u].alone =>
                       jobs[u].sid \in DOMAIN servers',
           DOMAIN servers' \subseteq DOMAIN servers \cup {nextId},
           DOMAIN shown' \subseteq DOMAIN shown \cap DOMAIN servers',
           \A s \in DOMAIN shown' : shown'[s] = shown[s]
    PROVE  PageInv'
<1>1. nextId \in Nat
  BY DEF IInv, TypeInv
<1>2. RowsInv'
  <2>1. \A p \in params : {p.id, p.owner} \subseteq Nat
                          /\ p.id < nextId' /\ p.owner < nextId'
    BY <1>1 DEF PageInv, RowsInv
  <2>2. \A l \in locs : l.id # nextId
    BY <1>1 DEF IInv, TypeInv
  <2> QED BY <2>1, <2>2 DEF PageInv, RowsInv
<1>3. ASSUME NEW u \in Workers, Like(jobs[u], jobs'[u]),
             Saving(u) /\ jobs'[u].alone => jobs[u].sid \in DOMAIN servers'
      PROVE  JobOk(jobs'[u], locs', params', DOMAIN servers', DOMAIN shown',
                   nextId')
  <2>1. JobOk(jobs[u], locs, params, DOMAIN servers, DOMAIN shown, nextId)
    BY DEF PageInv, JobsInv
  <2>2. Like(jobs[u], jobs'[u])
    BY <1>3
  <2>3. jobs'[u].alone => jobs[u].alone
    BY <2>2 DEF Like
  <2>4. Pending(jobs[u]) \/ jobs[u].pc = "delLocs" =>
           jobs[u].sid \notin DOMAIN shown'
    BY <2>1 DEF JobOk
  <2>5. Pending(jobs[u]) /\ jobs'[u].alone =>
           jobs[u].sid \in DOMAIN servers' /\ Done(jobs[u], locs', params')
    BY <1>3, <2>1, <2>3 DEF JobOk, Pending, Saving
  <2>6. \A l \in locs' : \E o \in locs : o.id = l.id /\ o.server = l.server
    OBVIOUS
  <2> QED BY <1>1, <2>1, <2>2, <2>4, <2>5, <2>6, JobKept
<1>4. JobsInv'
  BY <1>3 DEF JobsInv
<1>5. ShownInv'
  BY DEF PageInv, ShownInv
<1> QED BY <1>2, <1>4, <1>5 DEF PageInv

\* A save or deletion changes nothing of another server.
LEMMA OthersKept ==
    ASSUME IInv, PageInv, NEW t \in Workers, Storing(t),
           \A s : s # jobs[t].sid => Placed(locs, s) = Placed(locs', s),
           \A o : \/ Saving(t) /\ o \in {jobs[t].sid} \cup jobs[t].ids
                  \/ Owned(params, o) = Owned(params', o),
           NEW s \in DOMAIN servers, s # jobs[t].sid
    PROVE  /\ Placed(locs, s) = Placed(locs', s)
           /\ Owned(params, s) = Owned(params', s)
           /\ \A l \in Placed(locs, s) :
                 Owned(params, l.id) = Owned(params', l.id)
<1>1. Saving(t) =>
         \A x \in {jobs[t].sid} \cup jobs[t].ids :
            /\ x \in DOMAIN servers => x = jobs[t].sid
            /\ \A l \in locs : l.id = x => l.server = jobs[t].sid
  BY DEF PageInv, JobsInv, JobOk, Saving, Pending
<1>2. Owned(params, s) = Owned(params', s)
  BY <1>1
<1>3. ASSUME NEW l \in Placed(locs, s)
      PROVE  Owned(params, l.id) = Owned(params', l.id)
  <2>1. l \in locs /\ l.server = s
    BY DEF Placed
  <2> QED BY <1>1, <2>1
<1> QED BY <1>2, <1>3

LEMMA TablesStay ==
    ASSUME IInv, PageInv, NEW t \in Workers, Storing(t),
           UNCHANGED <<servers, shown>>,
           nextId' \in Nat, nextId <= nextId', DOMAIN jobs' = Workers,
           \A u \in Workers \ {t} : Like(jobs[u], jobs'[u]),
           \A s : s # jobs[t].sid => Placed(locs, s) = Placed(locs', s),
           \A o : \/ Saving(t) /\ o \in {jobs[t].sid} \cup jobs[t].ids
                  \/ Owned(params, o) = Owned(params', o),
           \A p \in params' : /\ {p.id, p.owner} \subseteq Nat
                              /\ p.id < nextId' /\ p.owner < nextId',
           \A l, m \in locs' : l.id = m.id => l = m,
           \A l \in locs' : l.id = nextId \/ l \in locs,
           JobOk(jobs[t], locs, params, DOMAIN servers, DOMAIN shown, nextId)'
    PROVE  PageInv'
<1>1. nextId \in Nat /\ \A s \in DOMAIN servers : s \in Nat /\ s < nextId
  BY DEF IInv, TypeInv
<1>2. RowsInv'
  <2>1. \A l \in locs' : l.id \notin DOMAIN servers
    BY <1>1 DEF PageInv, RowsInv
  <2> QED BY <2>1 DEF PageInv, RowsInv
<1>3. ASSUME NEW u \in Workers \ {t}
      PROVE  JobOk(jobs'[u], locs', params', DOMAIN servers', DOMAIN shown',
                   nextId')
  <2>1. JobOk(jobs[u], locs, params, DOMAIN servers, DOMAIN shown, nextId)
    BY DEF PageInv, JobsInv
  <2>2. Like(jobs[u], jobs'[u])
    BY <1>3
  <2>3. jobs'[u].alone => jobs[u].alone
    BY <2>2 DEF Like
  <2>4. Pending(jobs[u]) \/ jobs[u].pc = "delLocs" =>
           jobs[u].sid \notin DOMAIN shown'
    BY <2>1 DEF JobOk
  <2>5. ASSUME Pending(jobs[u]), jobs[u].alone
        PROVE  jobs[u].sid \in DOMAIN servers' /\ Done(jobs[u], locs', params')
    <3>1. jobs[u].sid \in DOMAIN servers /\ Done(jobs[u], locs, params)
      BY <2>1, <2>5 DEF JobOk
    <3>2. jobs[u].sid # jobs[t].sid
      BY <1>3, <2>5 DEF IInv, AloneInv, Pending, Saving
    <3>3. PICK s : s = jobs[u].sid
      OBVIOUS
    <3>4. /\ Placed(locs, s) = Placed(locs', s)
          /\ Owned(params, s) = Owned(params', s)
          /\ \A l \in Placed(locs, s) :
                Owned(params, l.id) = Owned(params', l.id)
      BY <3>1, <3>2, <3>3, OthersKept
    <3>5. Done(jobs[u], locs', params')
      BY <3>1, <3>3, <3>4, DoneKept
    <3> QED BY <3>1, <3>5
  <2>6. \A l \in locs' : \/ l.id = nextId
                         \/ \E o \in locs : o.id = l.id /\ o.server = l.server
    OBVIOUS
  <2>7. DOMAIN servers' \subseteq DOMAIN servers \cup {nextId}
    OBVIOUS
  <2>8. Pending(jobs[u]) /\ jobs'[u].alone =>
           jobs[u].sid \in DOMAIN servers' /\ Done(jobs[u], locs', params')
    BY <2>3, <2>5
  <2> QED BY <1>1, <2>1, <2>2, <2>4, <2>6, <2>7, <2>8, JobKept
<1>4. JobsInv'
  BY <1>3 DEF JobsInv
<1>5. ShownInv'
  <2>1. ASSUME NEW s \in DOMAIN shown
        PROVE  /\ Has(params', s, shown[s].params)
               /\ HasLocs(locs', params', s, shown[s].locs, 0, {})
    <3>1. /\ Has(params, s, shown[s].params)
          /\ HasLocs(locs, params, s, shown[s].locs, 0, {})
      BY DEF PageInv, ShownInv
    <3>2. s \in DOMAIN servers
      BY DEF PageInv, RowsInv
    <3>3. s # jobs[t].sid
      BY DEF PageInv, JobsInv, JobOk, Storing, Saving, Pending
    <3>4. /\ Placed(locs, s) = Placed(locs', s)
          /\ Owned(params, s) = Owned(params', s)
          /\ \A l \in Placed(locs, s) :
                Owned(params, l.id) = Owned(params', l.id)
      BY <3>2, <3>3, OthersKept
    <3> QED BY <3>1, <3>4, HasKept, LocsKept
  <2> QED BY <2>1 DEF PageInv, ShownInv
<1> QED BY <1>2, <1>4, <1>5 DEF PageInv

-----------------------------------------------------------------------------
(* Steps that leave parameters and locations alone.                        *)

LEMMA OtherJob ==
    ASSUME NEW job, job.pc \in {"idle", "list", "update"},
           NEW L, NEW P, NEW S, NEW H, NEW n
    PROVE  JobOk(job, L, P, S, H, n)
BY DEF JobOk, Pending

\* The servers of saves that are alone, where none is deleted.
LEMMA AloneThere ==
    ASSUME IInv, PageInv, NEW u \in Workers, Like(jobs[u], jobs'[u]),
           DOMAIN servers \subseteq DOMAIN servers'
    PROVE  Saving(u) /\ jobs'[u].alone => jobs[u].sid \in DOMAIN servers'
<1>1. jobs'[u].alone => jobs[u].alone
  BY DEF Like
<1> QED BY <1>1 DEF PageInv, JobsInv, JobOk, Saving, Pending

\* A step that changes no page and starts or ends no save.
LEMMA PagesStay ==
    ASSUME IInv, PageInv, UNCHANGED <<locs, params, shown>>,
           nextId' \in Nat, nextId <= nextId', DOMAIN jobs' = Workers,
           \A u \in Workers : \/ jobs'[u].pc \in {"idle", "list", "update"}
                              \/ Like(jobs[u], jobs'[u]),
           DOMAIN servers \subseteq DOMAIN servers',
           DOMAIN servers' \subseteq DOMAIN servers \cup {nextId}
    PROVE  PageInv'
<1>1. ASSUME NEW u \in Workers
      PROVE  \/ JobOk(jobs'[u], locs', params', DOMAIN servers', DOMAIN shown',
                      nextId')
             \/ /\ Like(jobs[u], jobs'[u])
                /\ Saving(u) /\ jobs'[u].alone =>
                      jobs[u].sid \in DOMAIN servers'
  BY OtherJob, AloneThere
<1>2. DOMAIN shown' \subseteq DOMAIN shown \cap DOMAIN servers'
  BY DEF PageInv, RowsInv
<1> QED BY <1>1, <1>2, QuietStays

LEMMA SetIs ==
    ASSUME NEW f, NEW s, NEW x
    PROVE  DOMAIN Set(f, s, x) = DOMAIN f \cup {s}
BY DEF Set

LEMMA SavePage ==
    ASSUME ServerAssumption, IInv, PageInv, NEW t \in Workers,
           NEW s \in {0} \cup 1..NServers, NEW form \in Forms, Save(t, s, form)
    PROVE  PageInv'
<1> DEFINE job == [Resting EXCEPT !.pc = "write", !.sid = s, !.form = form,
                                  !.seq = IF s = 0 THEN nextId ELSE 0]
<1>1. /\ jobs' = [jobs EXCEPT ![t] = job] /\ nextId' \in {nextId, nextId + 1}
      /\ UNCHANGED <<servers, locs, params, shown>>
  BY DEF Save, Begin, hist
<1>2. job.pc = "write" /\ job.ids = {}
  BY DEF Resting
<1> HIDE DEF job
<1>3. /\ DOMAIN jobs' = Workers /\ jobs'[t] = job
      /\ \A u \in Workers \ {t} : Like(jobs[u], jobs'[u])
  BY <1>1, GotoIs DEF IInv
<1>4. \A L, P, S, H, n : JobOk(job, L, P, S, H, n)
  BY <1>2 DEF JobOk, Pending
<1>5. ASSUME NEW u \in Workers
      PROVE  \/ JobOk(jobs'[u], locs', params', DOMAIN servers', DOMAIN shown',
                      nextId')
             \/ /\ Like(jobs[u], jobs'[u])
                /\ Saving(u) /\ jobs'[u].alone =>
                      jobs[u].sid \in DOMAIN servers'
  BY <1>1, <1>3, <1>4, AloneThere
<1>6. DOMAIN shown' \subseteq DOMAIN shown \cap DOMAIN servers'
  BY <1>1 DEF PageInv, RowsInv
<1>7. nextId' \in Nat /\ nextId <= nextId'
  BY <1>1 DEF IInv, TypeInv
<1> QED BY <1>1, <1>3, <1>5, <1>6, <1>7, QuietStays

LEMMA WriteNewPage ==
    ASSUME ServerAssumption, IInv, PageInv, NEW t \in Workers, WriteNew(t)
    PROVE  PageInv'
<1> DEFINE job == [jobs[t] EXCEPT !.pc = "ids", !.sid = nextId]
<1>1. /\ jobs[t].pc = "write" /\ jobs' = [Startled EXCEPT ![t] = job]
      /\ nextId' = nextId + 1 /\ UNCHANGED <<locs, params, shown>>
      /\ DOMAIN servers' = DOMAIN servers \cup {nextId}
  BY SetIs DEF WriteNew
<1>2. nextId \in Nat /\ DOMAIN jobs[t] = JobFields
      /\ \A s \in DOMAIN servers : s # nextId
  BY DEF IInv, TypeInv
<1>3. job.pc = "ids" /\ job.sid = nextId /\ job.ids = jobs[t].ids
  BY <1>2 DEF JobFields
<1> HIDE DEF job
<1>4. /\ DOMAIN jobs' = Workers /\ jobs'[t] = job
      /\ \A u \in Workers \ {t} : Like(jobs[u], jobs'[u])
  BY <1>1, StartledIs DEF IInv
<1>5. jobs[t].ids = {}
  BY <1>1 DEF PageInv, JobsInv, JobOk
<1>6. DOMAIN shown \subseteq DOMAIN servers
  BY DEF PageInv, RowsInv
<1>7. \A l \in locs : l.id # nextId
  BY <1>2 DEF IInv, TypeInv
<1>8. JobOk(job, locs', params', DOMAIN servers', DOMAIN shown', nextId')
  BY <1>1, <1>2, <1>3, <1>5, <1>6, <1>7 DEF JobOk, Pending, Done
<1>9. ASSUME NEW u \in Workers
      PROVE  \/ JobOk(jobs'[u], locs', params', DOMAIN servers', DOMAIN shown',
                      nextId')
             \/ /\ Like(jobs[u], jobs'[u])
                /\ Saving(u) /\ jobs'[u].alone =>
                      jobs[u].sid \in DOMAIN servers'
  BY <1>1, <1>4, <1>8, AloneThere
<1>10. DOMAIN shown' \subseteq DOMAIN shown \cap DOMAIN servers'
  BY <1>1, <1>6
<1>11. nextId' \in Nat /\ nextId <= nextId'
  BY <1>1, <1>2
<1> QED BY <1>1, <1>4, <1>9, <1>10, <1>11, QuietStays

LEMMA WriteOldPage ==
    ASSUME ServerAssumption, IInv, PageInv, NEW t \in Workers, WriteOld(t)
    PROVE  PageInv'
<1> DEFINE s == jobs[t].sid
           job == [jobs[t] EXCEPT !.pc = "ids",
                     !.alone = \A u \in Workers \ {t} : ~Busy(u, s)]
<1>1. /\ jobs[t].pc = "write" /\ s \in DOMAIN servers
      /\ jobs' = [Disturbed(s) EXCEPT ![t] = job]
      /\ UNCHANGED <<locs, params, nextId>> /\ shown' = Forget(s)
      /\ DOMAIN servers' = DOMAIN servers
  BY DEF WriteOld
<1>2. nextId \in Nat /\ DOMAIN jobs[t] = JobFields /\ s \in Nat /\ s < nextId
  BY DEF IInv, TypeInv
<1>3. job.pc = "ids" /\ job.sid = s /\ job.ids = jobs[t].ids
  BY <1>2 DEF JobFields
<1> HIDE DEF job
<1>4. /\ DOMAIN jobs' = Workers /\ jobs'[t] = job
      /\ \A u \in Workers \ {t} : Like(jobs[u], jobs'[u])
  BY <1>1, DisturbedIs DEF IInv
<1>5. jobs[t].ids = {}
  BY <1>1 DEF PageInv, JobsInv, JobOk
<1>6. DOMAIN shown \subseteq DOMAIN servers
  BY DEF PageInv, RowsInv
<1>7. \A l \in locs : l.id # s
  BY <1>1 DEF PageInv, RowsInv
<1>8. /\ DOMAIN shown' = DOMAIN shown \ {s}
      /\ \A r \in DOMAIN shown' : shown'[r] = shown[r]
  BY <1>1 DEF Forget
<1>9. JobOk(job, locs', params', DOMAIN servers', DOMAIN shown', nextId')
  BY <1>1, <1>2, <1>3, <1>5, <1>7, <1>8 DEF JobOk, Pending, Done
<1>10. ASSUME NEW u \in Workers
       PROVE  \/ JobOk(jobs'[u], locs', params', DOMAIN servers', DOMAIN shown',
                       nextId')
              \/ /\ Like(jobs[u], jobs'[u])
                 /\ Saving(u) /\ jobs'[u].alone =>
                       jobs[u].sid \in DOMAIN servers'
  BY <1>1, <1>4, <1>9, AloneThere
<1>11. DOMAIN shown' \subseteq DOMAIN shown \cap DOMAIN servers'
  BY <1>1, <1>6, <1>8
<1>12. nextId' \in Nat /\ nextId <= nextId'
  BY <1>1, <1>2
<1>13. DOMAIN servers' \subseteq DOMAIN servers \cup {nextId}
  BY <1>1
<1> QED BY <1>1, <1>4, <1>8, <1>10, <1>11, <1>12, <1>13, QuietStays

LEMMA DelPage ==
    ASSUME ServerAssumption, IInv, PageInv, NEW t \in Workers,
           NEW s \in DOMAIN servers, Del(t, s)
    PROVE  PageInv'
<1> DEFINE job == [Resting EXCEPT !.pc = "delLocs", !.sid = s]
<1>1. /\ UNCHANGED <<locs, params, nextId>> /\ shown' = Forget(s)
      /\ DOMAIN servers' = DOMAIN servers \ {s}
      /\ jobs' = [u \in Workers |->
                    IF u = t THEN job
                    ELSE IF Busy(u, s) \/ Moving(u)
                         THEN [jobs[u] EXCEPT !.alone = FALSE] ELSE jobs[u]]
  BY DEF Del
<1>2. job.pc = "delLocs" /\ job.sid = s
  BY DEF Resting
<1>3. /\ DOMAIN jobs' = Workers /\ jobs'[t] = job
      /\ \A u \in Workers \ {t} : /\ Like(jobs[u], jobs'[u])
                                  /\ Busy(u, s) => ~jobs'[u].alone
  BY <1>1, LikeItself, LikeWithout DEF IInv
<1> HIDE DEF job
<1>4. /\ DOMAIN shown' = DOMAIN shown \ {s}
      /\ \A r \in DOMAIN shown' : shown'[r] = shown[r]
  BY <1>1 DEF Forget
<1>5. JobOk(job, locs', params', DOMAIN servers', DOMAIN shown', nextId')
  BY <1>2, <1>4 DEF JobOk, Pending
<1>6. ASSUME NEW u \in Workers \ {t}, Saving(u), jobs'[u].alone
      PROVE  jobs[u].sid \in DOMAIN servers'
  <2>1. jobs[u].sid \in DOMAIN servers
    BY <1>3, <1>6 DEF PageInv, JobsInv, JobOk, Saving, Pending, Like
  <2>2. jobs[u].sid # s
    BY <1>3, <1>6 DEF Busy, Saving
  <2> QED BY <1>1, <2>1, <2>2
<1>7. ASSUME NEW u \in Workers
      PROVE  \/ JobOk(jobs'[u], locs', params', DOMAIN servers', DOMAIN shown',
                      nextId')
             \/ /\ Like(jobs[u], jobs'[u])
                /\ Saving(u) /\ jobs'[u].alone =>
                      jobs[u].sid \in DOMAIN servers'
  BY <1>3, <1>5, <1>6
<1>8. DOMAIN shown' \subseteq DOMAIN shown \cap DOMAIN servers'
  BY <1>1, <1>4 DEF PageInv, RowsInv
<1>9. nextId' \in Nat /\ nextId <= nextId'
  BY <1>1 DEF IInv, TypeInv
<1>10. DOMAIN servers' \subseteq DOMAIN servers \cup {nextId}
  BY <1>1
<1> QED BY <1>1, <1>3, <1>4, <1>7, <1>8, <1>9, <1>10, QuietStays

LEMMA ReadLocationIdsPage ==
    ASSUME ServerAssumption, IInv, PageInv, NEW t \in Workers,
           ReadLocationIds(t)
    PROVE  PageInv'
<1> DEFINE s == jobs[t].sid
           ids == Ids(LocsOf(s))
           job == [jobs[t] EXCEPT !.pc = "clear", !.ids = ids]
<1>1. /\ jobs[t].pc = "ids" /\ jobs' = [jobs EXCEPT ![t] = job]
      /\ UNCHANGED <<servers, locs, params, nextId, shown>>
  BY DEF ReadLocationIds, Goto, storeRows, hist
<1>2. DOMAIN jobs[t] = JobFields
  BY DEF IInv, TypeInv
<1>3. job.pc = "clear" /\ job.sid = s /\ job.ids = ids
      /\ job.alone = jobs[t].alone
  BY <1>2 DEF JobFields
<1> HIDE DEF job
<1>4. /\ DOMAIN jobs' = Workers /\ jobs'[t] = job
      /\ \A u \in Workers \ {t} : Like(jobs[u], jobs'[u])
  BY <1>1, GotoIs DEF IInv
<1>5. /\ s \in Nat /\ s < nextId /\ \A l \in locs : l.id = s => l.server = s
      /\ s \notin DOMAIN shown /\ (jobs[t].alone => s \in DOMAIN servers)
  BY <1>1 DEF PageInv, JobsInv, JobOk, Pending
<1>6. ASSUME NEW x \in ids
      PROVE  /\ x \in Nat /\ x < nextId /\ x \notin DOMAIN servers
             /\ \A l \in locs : l.id = x => l.server = s
  <2>1. PICK m \in locs : m.server = s /\ m.id = x
    BY DEF Ids, LocsOf
  <2> QED BY <2>1 DEF IInv, TypeInv, PageInv, RowsInv
<1> HIDE DEF ids
<1>7. JobOk(job, locs', params', DOMAIN servers', DOMAIN shown', nextId')
  BY <1>1, <1>3, <1>5, <1>6 DEF JobOk, Pending, Done
<1>8. ASSUME NEW u \in Workers
      PROVE  \/ JobOk(jobs'[u], locs', params', DOMAIN servers', DOMAIN shown',
                      nextId')
             \/ /\ Like(jobs[u], jobs'[u])
                /\ Saving(u) /\ jobs'[u].alone =>
                      jobs[u].sid \in DOMAIN servers'
  BY <1>1, <1>4, <1>7, AloneThere
<1>9. DOMAIN shown' \subseteq DOMAIN shown \cap DOMAIN servers'
  BY <1>1 DEF PageInv, RowsInv
<1>10. nextId' \in Nat /\ nextId <= nextId'
  BY <1>1 DEF IInv, TypeInv
<1> QED BY <1>1, <1>4, <1>8, <1>9, <1>10, QuietStays

LEMMA ReadOldsPage ==
    ASSUME ServerAssumption, IInv, PageInv, NEW t \in Workers, ReadOlds(t)
    PROVE  PageInv'
<1> DEFINE s == jobs[t].sid
           job == [jobs[t] EXCEPT !.pc = "drop", !.olds = Olds(s)]
<1>1. /\ jobs[t].pc = "params" /\ jobs[t].todo = <<>>
      /\ jobs' = [jobs EXCEPT ![t] = job]
      /\ UNCHANGED <<servers, locs, params, nextId, shown>>
  BY DEF ReadOlds, Goto, storeRows, hist
<1>2. DOMAIN jobs[t] = JobFields
  BY DEF IInv, TypeInv
<1>3. /\ job.pc = "drop" /\ job.sid = s /\ job.ids = jobs[t].ids
      /\ job.alone = jobs[t].alone /\ job.todo = jobs[t].todo
      /\ job.form = jobs[t].form
  BY <1>2 DEF JobFields
<1> HIDE DEF job
<1>4. /\ DOMAIN jobs' = Workers /\ jobs'[t] = job
      /\ \A u \in Workers \ {t} : Like(jobs[u], jobs'[u])
  BY <1>1, GotoIs DEF IInv
<1>5. JobOk(jobs[t], locs, params, DOMAIN servers, DOMAIN shown, nextId)
  BY DEF PageInv, JobsInv
<1>6. ASSUME jobs[t].alone
      PROVE  Has(params, s, jobs[t].form.params)
  <2>1. Has(params, s, From(jobs[t].form.params, 0))
    BY <1>1, <1>5, <1>6 DEF JobOk, Pending, Done
  <2>2. IsForm(jobs[t].form)
    BY <1>1 DEF IInv, FormInv, ServerAssumption, Saving
  <2> QED BY <2>1, <2>2, BoxesOf, FromAll
<1>7. JobOk(job, locs', params', DOMAIN servers', DOMAIN shown', nextId')
  BY <1>1, <1>3, <1>5, <1>6 DEF JobOk, Pending, Done
<1>8. ASSUME NEW u \in Workers
      PROVE  \/ JobOk(jobs'[u], locs', params', DOMAIN servers', DOMAIN shown',
                      nextId')
             \/ /\ Like(jobs[u], jobs'[u])
                /\ Saving(u) /\ jobs'[u].alone =>
                      jobs[u].sid \in DOMAIN servers'
  BY <1>1, <1>4, <1>7, AloneThere
<1>9. DOMAIN shown' \subseteq DOMAIN shown \cap DOMAIN servers'
  BY <1>1 DEF PageInv, RowsInv
<1>10. nextId' \in Nat /\ nextId <= nextId'
  BY <1>1 DEF IInv, TypeInv
<1> QED BY <1>1, <1>4, <1>8, <1>9, <1>10, QuietStays

\* One thread goes on, and saves nothing.
LEMMA JobPage ==
    ASSUME IInv, PageInv, NEW t \in Workers, NEW job,
           jobs' = [jobs EXCEPT ![t] = job],
           job.pc \in {"idle", "list", "update"},
           UNCHANGED <<locs, params, shown>>,
           \/ nextId' = nextId /\ DOMAIN servers' = DOMAIN servers
           \/ /\ nextId' = nextId + 1
              /\ DOMAIN servers' = DOMAIN servers \cup {nextId}
    PROVE  PageInv'
<1>1. /\ DOMAIN jobs' = Workers /\ jobs'[t] = job
      /\ \A u \in Workers \ {t} : Like(jobs[u], jobs'[u])
  BY GotoIs DEF IInv
<1>2. nextId' \in Nat /\ nextId <= nextId'
  BY DEF IInv, TypeInv
<1> QED BY <1>1, <1>2, PagesStay

\* Edits, moves and failures.
LEMMA OtherPage ==
    ASSUME ServerAssumption, IInv, PageInv,
           \/ \E s \in DOMAIN servers : Edit(s)
           \/ \E s \in 1..NServers : EditGone(s)
           \/ \E t \in Workers : \/ \E s \in DOMAIN servers : Move(t, s)
                                 \/ MoveStep(t) \/ Fail(t)
    PROVE  PageInv'
<1>1. nextId \in Nat /\ DOMAIN jobs = Workers
      /\ \A u \in Workers : Like(jobs[u], jobs[u])
  BY LikeItself DEF IInv, TypeInv
<1>2. CASE \E s \in DOMAIN servers : Edit(s)
  <2>1. /\ UNCHANGED <<locs, params, shown, nextId, jobs>>
        /\ DOMAIN servers' = DOMAIN servers
    BY <1>2 DEF Edit
  <2> QED BY <1>1, <2>1, PagesStay
<1>3. CASE \E s \in 1..NServers : EditGone(s)
  <2>1. /\ UNCHANGED <<locs, params, shown>> /\ nextId' = nextId + 1
        /\ jobs' = Startled /\ DOMAIN servers' = DOMAIN servers \cup {nextId}
    BY <1>3, SetIs DEF EditGone
  <2>2. \A u \in Workers : Like(jobs[u], Startled[u])
    BY LikeWithout, <1>1 DEF Startled, IInv
  <2>3. DOMAIN jobs' = Workers
    BY <2>1 DEF Startled
  <2> QED BY <1>1, <2>1, <2>2, <2>3, PagesStay
<1>4. ASSUME NEW t \in Workers, NEW s \in DOMAIN servers, Move(t, s)
      PROVE  PageInv'
  <2> DEFINE job == [Resting EXCEPT !.pc = "list", !.alone = Movers = {},
                                    !.rows = <<WithId(s, servers[s])>>]
  <2>1. /\ UNCHANGED <<locs, params, shown, nextId, servers>>
        /\ jobs' = [Startled EXCEPT ![t] = job]
    BY <1>4 DEF Move, storeRows, hist
  <2>2. job.pc = "list"
    BY DEF Resting
  <2> HIDE DEF job
  <2>3. /\ DOMAIN jobs' = Workers /\ jobs'[t] = job
        /\ \A u \in Workers \ {t} : Like(jobs[u], jobs'[u])
    BY <2>1, StartledIs DEF IInv
  <2> QED BY SMTT(30), <1>1, <2>1, <2>2, <2>3, PagesStay
<1>5. ASSUME NEW t \in Workers, ChooseTarget(t)
      PROVE  PageInv'
  <2>1. PICK up \in BOOLEAN, r \in DOMAIN servers :
          LET row == jobs[t].rows[1].row
              id == jobs[t].rows[1].id
          IN  Goto(t, [jobs[t] EXCEPT !.pc = "update",
                         !.order = AfterMove(id, up),
                         !.rows = <<WithId(r, Exchanged(servers[r], row)),
                                    WithId(id, Exchanged(row, servers[r]))>>])
    BY <1>5 DEF ChooseTarget, Targets, Beyond
  <2>2. PICK job : /\ jobs' = [jobs EXCEPT ![t] = job] /\ job.pc = "update"
    <3>1. "pc" \in DOMAIN jobs[t]
      BY DEF IInv, TypeInv, JobFields
    <3>2. PICK order, rows :
             jobs' = [jobs EXCEPT ![t] = [jobs[t] EXCEPT
                        !.pc = "update", !.order = order, !.rows = rows]]
      BY <2>1 DEF Goto
    <3> DEFINE job == [jobs[t] EXCEPT !.pc = "update", !.order = order,
                                      !.rows = rows]
    <3>3. job.pc = "update"
      BY <3>1
    <3>4. jobs' = [jobs EXCEPT ![t] = job]
      BY <3>2
    <3> HIDE DEF job
    <3> QED BY <3>3, <3>4
  <2>3. UNCHANGED <<servers, locs, params, shown, nextId>>
    BY <1>5 DEF ChooseTarget, storeRows, hist
  <2> QED BY <2>2, <2>3, JobPage
<1>6. ASSUME NEW t \in Workers, NoTarget(t)
      PROVE  PageInv'
  <2>1. /\ jobs' = [jobs EXCEPT ![t] = Resting]
        /\ UNCHANGED <<servers, locs, params, shown, nextId>>
    BY <1>6 DEF NoTarget, Goto, storeRows, hist
  <2> QED BY <2>1, RestingIs, JobPage
<1>7. ASSUME NEW t \in Workers, Fail(t)
      PROVE  PageInv'
  <2>1. /\ jobs' = [jobs EXCEPT ![t] = Resting]
        /\ UNCHANGED <<servers, locs, params, shown, nextId>>
    BY <1>7 DEF Fail, storeRows
  <2> QED BY <2>1, RestingIs, JobPage
<1>8. ASSUME NEW t \in Workers, UpdateRow(t)
      PROVE  PageInv'
  <2>1. /\ jobs[t].pc = "update" /\ UNCHANGED <<locs, params, shown>>
        /\ \/ nextId' = nextId /\ DOMAIN servers' = DOMAIN servers
           \/ /\ nextId' = nextId + 1
              /\ DOMAIN servers' = DOMAIN servers \cup {nextId}
    <3> DEFINE s == Head(jobs[t].rows).id
               id == IF s \in DOMAIN servers THEN s ELSE nextId
    <3>1. /\ jobs[t].pc = "update" /\ UNCHANGED <<locs, params, shown>>
          /\ DOMAIN servers' = DOMAIN servers \cup {id}
          /\ nextId' = IF id = s THEN nextId ELSE nextId + 1
      BY <1>8, SetIs DEF UpdateRow
    <3>2. CASE s \in DOMAIN servers
      BY <3>1, <3>2
    <3>3. CASE s \notin DOMAIN servers
      <4>1. s # nextId
        <5>1. jobs[t].rows \in Seq(Entries) /\ jobs[t].rows # <<>>
          BY <3>1 DEF IInv, HeldInv, Moving
        <5>2. Head(jobs[t].rows) = jobs[t].rows[1]
              /\ 1 \in DOMAIN jobs[t].rows /\ jobs[t].rows[1] \in Entries
          BY <5>1
        <5>3. s < nextId /\ s \in Nat
          BY <3>1, <5>2 DEF IInv, HeldInv, Moving, Entries
        <5> QED BY <1>1, <5>3
      <4> QED BY <3>1, <3>3, <4>1
    <3> QED BY <3>2, <3>3
  <2>2. PICK job : /\ jobs' = [jobs EXCEPT ![t] = job]
                   /\ job.pc \in {"idle", "update"}
    <3>1. DOMAIN jobs[t] = JobFields
      BY DEF IInv, TypeInv
    <3>2. \/ jobs' = [jobs EXCEPT ![t] = [jobs[t] EXCEPT
                                            !.rows = Tail(jobs[t].rows)]]
          \/ jobs' = [jobs EXCEPT ![t] = Resting]
      BY <1>8 DEF UpdateRow, Goto
    <3> QED BY <2>1, <3>1, <3>2, RestingIs DEF JobFields
  <2> QED BY <2>1, <2>2, JobPage
<1> QED BY <1>2, <1>3, <1>4, <1>5, <1>6, <1>7, <1>8 DEF MoveStep

-----------------------------------------------------------------------------
(* Steps that insert and delete parameters and locations.                  *)

\* What every step of a save starts from.
LEMMA SaveKnows ==
    ASSUME ServerAssumption, IInv, PageInv, NEW t \in Workers, Saving(t)
    PROVE  /\ JobOk(jobs[t], locs, params, DOMAIN servers, DOMAIN shown, nextId)
           /\ IsForm(jobs[t].form) /\ DOMAIN jobs[t] = JobFields
           /\ nextId \in Nat /\ jobs[t].sid \in Nat /\ jobs[t].sid < nextId
           /\ \A p \in params : /\ {p.id, p.owner} \subseteq Nat
                                /\ p.id < nextId /\ p.owner < nextId
           /\ \A l, m \in locs : l.id = m.id => l = m
           /\ \A l \in locs : l.id \in Nat /\ l.id < nextId
                              /\ l.id \notin DOMAIN servers
           /\ \A s \in DOMAIN servers : s # nextId
           /\ DOMAIN shown \subseteq DOMAIN servers
BY DEF PageInv, JobsInv, RowsInv, IInv, TypeInv, FormInv, ServerAssumption

LEMMA ClearParamsPage ==
    ASSUME ServerAssumption, IInv, PageInv, NEW t \in Workers, ClearParams(t)
    PROVE  PageInv'
<1> DEFINE s == jobs[t].sid
           form == jobs[t].form
           todo == InReverse(form.params)
           job == [jobs[t] EXCEPT !.pc = "params", !.ids = {s}, !.todo = todo]
<1>1. /\ jobs[t].pc = "clear" /\ jobs' = [jobs EXCEPT ![t] = job]
      /\ params' = params \ OldParams(s, jobs[t].ids)
      /\ UNCHANGED <<servers, locs, nextId, shown>>
  BY DEF ClearParams, Goto, hist
<1>2. /\ Saving(t) /\ Storing(t) /\ Pending(jobs[t])
  BY <1>1 DEF Saving, Storing, Pending
<1>3. /\ JobOk(jobs[t], locs, params, DOMAIN servers, DOMAIN shown, nextId)
      /\ IsForm(form) /\ DOMAIN jobs[t] = JobFields /\ nextId \in Nat
      /\ \A p \in params : /\ {p.id, p.owner} \subseteq Nat
                           /\ p.id < nextId /\ p.owner < nextId
      /\ \A l, m \in locs : l.id = m.id => l = m
  BY <1>2, SaveKnows
<1>4. /\ job.pc = "params" /\ job.sid = s /\ job.ids = {s} /\ job.todo = todo
      /\ job.form = form /\ job.alone = jobs[t].alone
  BY <1>3 DEF JobFields
<1> HIDE DEF job
<1>5. /\ DOMAIN jobs' = Workers /\ jobs'[t] = job
      /\ \A u \in Workers \ {t} : Like(jobs[u], jobs'[u])
  BY <1>1, GotoIs DEF IInv
<1>6. \A o : o \in {s} \cup jobs[t].ids \/ Owned(params, o) = Owned(params', o)
  BY <1>1 DEF Owned, OldParams
<1>7. Owned(params', s) = {}
  BY <1>1 DEF Owned, OldParams
<1>8. /\ Undone(todo, form.params)
      /\ From(form.params, Len(todo)) = <<>>
  <2>1. form.params \in Seq(Range(form.params))
    BY <1>3, BoxesOf
  <2> QED BY <2>1, UndoneStart
<1> HIDE DEF todo
<1>9. Has(params', s, From(form.params, Len(todo)))
  BY <1>7, <1>8, HasNone
<1>10. Done(job, locs', params')
  BY <1>4, <1>8, <1>9 DEF Done
<1>11. JobOk(job, locs', params', DOMAIN servers', DOMAIN shown', nextId')
  BY <1>1, <1>2, <1>3, <1>4, <1>10 DEF JobOk, Pending
<1>12. \A p \in params' : p \in params
  BY <1>1
<1>13. nextId' \in Nat /\ nextId <= nextId'
  BY <1>1, <1>3
<1>14. \A r : r # s => Placed(locs, r) = Placed(locs', r)
  BY <1>1
<1> QED BY <1>1, <1>2, <1>3, <1>5, <1>6, <1>11, <1>12, <1>13, <1>14, TablesStay

LEMMA InsertParamPage ==
    ASSUME ServerAssumption, IInv, PageInv, NEW t \in Workers, InsertParam(t)
    PROVE  PageInv'
<1> DEFINE s == jobs[t].sid
           form == jobs[t].form
           todo == jobs[t].todo
           boxes == From(form.locs, Len(jobs[t].left))
           job == [jobs[t] EXCEPT !.todo = Tail(todo)]
<1>1. /\ jobs[t].pc \in {"params", "locs"} /\ todo # <<>>
      /\ jobs' = [jobs EXCEPT ![t] = job] /\ nextId' = nextId + 1
      /\ UNCHANGED <<servers, locs, shown>>
  BY DEF InsertParam, Goto, hist
<1>2. PICK owner, row :
         /\ owner \in jobs[t].ids
         /\ row = [id |-> nextId, owner |-> owner, value |-> Head(todo)]
         /\ params' = params \cup {row}
  BY DEF InsertParam
<1>3. row.id = nextId /\ row.owner = owner /\ row.value = Head(todo)
  BY <1>2
<1>4. /\ Saving(t) /\ Storing(t) /\ Pending(jobs[t])
  BY <1>1 DEF Saving, Storing, Pending
<1>5. /\ JobOk(jobs[t], locs, params, DOMAIN servers, DOMAIN shown, nextId)
      /\ IsForm(form) /\ DOMAIN jobs[t] = JobFields /\ nextId \in Nat
      /\ s \in Nat /\ s < nextId
      /\ \A p \in params : /\ {p.id, p.owner} \subseteq Nat
                           /\ p.id < nextId /\ p.owner < nextId
      /\ \A l, m \in locs : l.id = m.id => l = m
      /\ \A l \in locs : l.id \in Nat /\ l.id < nextId
                         /\ l.id \notin DOMAIN servers
      /\ \A r \in DOMAIN servers : r # nextId
  BY <1>4, SaveKnows
<1>6. /\ job.pc = jobs[t].pc /\ job.sid = s /\ job.ids = jobs[t].ids
      /\ job.todo = Tail(todo) /\ job.form = form /\ job.left = jobs[t].left
      /\ job.alone = jobs[t].alone
  BY <1>5 DEF JobFields
<1> HIDE DEF job
<1>7. /\ DOMAIN jobs' = Workers /\ jobs'[t] = job
      /\ \A u \in Workers \ {t} : Like(jobs[u], jobs'[u])
  BY <1>1, GotoIs DEF IInv
<1>8. \A x \in {s} \cup jobs[t].ids :
         /\ x \in Nat /\ x < nextId /\ (x \in DOMAIN servers => x = s)
         /\ \A l \in locs : l.id = x => l.server = s
  BY <1>4, <1>5 DEF JobOk
<1>9. owner \in Nat /\ owner < nextId
  BY <1>2, <1>8
<1>10. \A o : o = owner \/ Owned(params, o) = Owned(params', o)
  BY <1>2, <1>3 DEF Owned
<1>11. \A p \in params : p.id \in Nat /\ p.id < nextId
  BY <1>5
<1>12. /\ form.params \in Seq(Range(form.params))
       /\ form.locs \in Seq(Range(form.locs))
       /\ \A i \in 1..Len(form.locs) :
             form.locs[i].params \in Seq(Range(form.locs[i].params))
  BY <1>5, BoxesOf
<1>13. ASSUME jobs[t].alone, jobs[t].pc = "params"
       PROVE  Done(job, locs', params')
  <2>1. /\ jobs[t].ids = {s} /\ Undone(todo, form.params)
        /\ Has(params, s, From(form.params, Len(todo)))
    BY <1>4, <1>5, <1>13 DEF JobOk, Done
  <2>2. owner = s
    BY <1>2, <2>1
  <2>3. Has(params', s, <<Head(todo)>> \o From(form.params, Len(todo)))
    BY SMTT(30), <1>2, <1>3, <1>5, <1>11, <2>1, <2>2, HasMore
  <2>4. /\ Undone(Tail(todo), form.params)
        /\ From(form.params, Len(Tail(todo)))
             = <<Head(todo)>> \o From(form.params, Len(todo))
    BY <1>1, <1>12, <2>1, UndoneNext
  <2> QED BY <1>6, <1>13, <2>1, <2>3, <2>4 DEF Done
<1>14. ASSUME jobs[t].alone, jobs[t].pc = "locs"
       PROVE  Done(job, locs', params')
  <2>1. /\ Has(params, s, form.params)
        /\ Undone(jobs[t].left, form.locs)
        /\ HasLocs(locs, params, s, boxes, Len(todo), jobs[t].ids)
        /\ Undone(todo, boxes[1].params)
        /\ s \in DOMAIN servers
    BY SMTT(30), <1>1, <1>4, <1>5, <1>14 DEF JobOk, Done
  <2>2. Len(todo) > 0
    BY <1>1, <2>1 DEF Undone
  <2>3. /\ Len(boxes) > 0 /\ Listed(Placed(locs, s))
        /\ Len(Newest(Placed(locs, s))) = Len(boxes)
        /\ jobs[t].ids = {Newest(Placed(locs, s))[1].id}
    BY <2>1, <2>2 DEF HasLocs
  <2>4. Newest(Placed(locs, s))[1] \in Placed(locs, s)
    <3>1. Newest(Placed(locs, s)) \in Seq(Placed(locs, s))
      BY <2>3, ListedIs
    <3> QED BY <2>3, <3>1, SeqLen
  <2>5. owner # s
    BY <1>2, <1>5, <2>1, <2>3, <2>4 DEF Placed
  <2>6. Has(params', s, form.params)
    BY <1>10, <2>1, <2>5, HasKept
  <2>7. boxes[1].params \in Seq(Range(boxes[1].params))
    <3>1. /\ Len(jobs[t].left) \in Nat /\ Len(form.locs) \in Nat
          /\ Len(jobs[t].left) <= Len(form.locs)
      BY <1>12, <2>1 DEF Undone
    <3>2. /\ Len(boxes) = Len(form.locs) - Len(jobs[t].left)
          /\ 1 \in 1..Len(form.locs) - Len(jobs[t].left) =>
                boxes[1] = form.locs[1 + Len(jobs[t].left)]
      BY <3>1, FromIs
    <3>3. /\ boxes[1] = form.locs[1 + Len(jobs[t].left)]
          /\ 1 + Len(jobs[t].left) \in 1..Len(form.locs)
      <4> DEFINE n == Len(form.locs)
                 k == Len(jobs[t].left)
      <4>1. n \in Nat /\ k \in Nat /\ Len(boxes) = n - k /\ Len(boxes) > 0
        BY <2>3, <3>1, <3>2
      <4> HIDE DEF n, k, boxes
      <4>2. 1 \in 1..n - k /\ 1 + k \in 1..n
        BY <4>1
      <4> QED BY <3>2, <4>2 DEF n, k, boxes
    <3> QED BY <1>12, <3>3
  <2>8. HasLocs(locs, params', s, boxes, Len(Tail(todo)), jobs[t].ids)
    BY <1>1, <1>2, <1>3, <1>5, <1>11, <2>1, <2>7, LocsParam
  <2>9. Undone(Tail(todo), boxes[1].params)
    BY <1>1, <2>1, <2>7, UndoneNext
  <2> QED BY <1>1, <1>6, <1>14, <2>1, <2>6, <2>8, <2>9 DEF Done
<1>15. JobOk(job, locs', params', DOMAIN servers', DOMAIN shown', nextId')
  <2>1. jobs[t].alone => Done(job, locs', params') /\ s \in DOMAIN servers
    BY <1>1, <1>4, <1>5, <1>13, <1>14 DEF JobOk
  <2>2. s \notin DOMAIN shown
    BY <1>4, <1>5 DEF JobOk
  <2>3. Pending(job)
    BY <1>4, <1>6 DEF Pending
  <2>4. \A x \in {s} \cup jobs[t].ids : x < nextId + 1
    BY <1>5, <1>8
  <2> QED BY <1>1, <1>6, <1>8, <2>1, <2>2, <2>3, <2>4 DEF JobOk, Pending
<1>16. \A p \in params' : /\ {p.id, p.owner} \subseteq Nat
                          /\ p.id < nextId' /\ p.owner < nextId'
  BY <1>1, <1>2, <1>3, <1>5, <1>9
<1>17. nextId' \in Nat /\ nextId <= nextId'
  BY <1>1, <1>5
<1>18. \A r : r # s => Placed(locs, r) = Placed(locs', r)
  BY <1>1
<1>19. \A o : \/ Saving(t) /\ o \in {s} \cup jobs[t].ids
              \/ Owned(params, o) = Owned(params', o)
  BY <1>2, <1>4, <1>10
<1> QED BY <1>1, <1>4, <1>5, <1>7, <1>15, <1>16, <1>17, <1>18, <1>19, TablesStay

LEMMA DropLocsPage ==
    ASSUME ServerAssumption, IInv, PageInv, NEW t \in Workers, DropLocs(t)
    PROVE  PageInv'
<1> DEFINE s == jobs[t].sid
           form == jobs[t].form
           left == InReverse(form.locs)
           job == [jobs[t] EXCEPT !.pc = "locs", !.left = left]
<1>1. /\ jobs[t].pc = "drop" /\ jobs' = [jobs EXCEPT ![t] = job]
      /\ locs' = {l \in locs : l.server # s}
      /\ UNCHANGED <<servers, params, nextId, shown>>
  BY DEF DropLocs, Goto, hist
<1>2. /\ Saving(t) /\ Storing(t) /\ Pending(jobs[t])
  BY <1>1 DEF Saving, Storing, Pending
<1>3. /\ JobOk(jobs[t], locs, params, DOMAIN servers, DOMAIN shown, nextId)
      /\ IsForm(form) /\ DOMAIN jobs[t] = JobFields /\ nextId \in Nat
      /\ \A p \in params : /\ {p.id, p.owner} \subseteq Nat
                           /\ p.id < nextId /\ p.owner < nextId
      /\ \A l, m \in locs : l.id = m.id => l = m
  BY <1>2, SaveKnows
<1>4. /\ job.pc = "locs" /\ job.sid = s /\ job.ids = jobs[t].ids
      /\ job.todo = jobs[t].todo /\ job.left = left
      /\ job.form = form /\ job.alone = jobs[t].alone
  BY <1>3 DEF JobFields
<1> HIDE DEF job
<1>5. /\ DOMAIN jobs' = Workers /\ jobs'[t] = job
      /\ \A u \in Workers \ {t} : Like(jobs[u], jobs'[u])
  BY <1>1, GotoIs DEF IInv
<1>6. Placed(locs', s) = {}
  BY <1>1 DEF Placed
<1>7. /\ Undone(left, form.locs) /\ From(form.locs, Len(left)) = <<>>
  <2>1. form.locs \in Seq(Range(form.locs))
    BY <1>3, BoxesOf
  <2> QED BY <2>1, UndoneStart
<1> HIDE DEF left
<1>8. HasLocs(locs', params', s, From(form.locs, Len(left)), 0, job.ids)
  BY <1>6, <1>7, LocsNone
<1>9. ASSUME jobs[t].alone
      PROVE  Done(job, locs', params')
  <2>1. jobs[t].todo = <<>> /\ Has(params, s, form.params)
    BY <1>1, <1>2, <1>3, <1>9 DEF JobOk, Done
  <2> QED BY <1>1, <1>4, <1>7, <1>8, <2>1 DEF Done
<1>10. JobOk(job, locs', params', DOMAIN servers', DOMAIN shown', nextId')
  BY <1>1, <1>2, <1>3, <1>4, <1>9 DEF JobOk, Pending
<1>11. \A l \in locs' : l \in locs
  BY <1>1
<1>12. nextId' \in Nat /\ nextId <= nextId'
  BY <1>1, <1>3
<1>13. \A r : r # s => Placed(locs, r) = Placed(locs', r)
  BY <1>1 DEF Placed
<1>14. \A o : Owned(params, o) = Owned(params', o)
  BY <1>1
<1> QED BY <1>1, <1>2, <1>3, <1>5, <1>10, <1>11, <1>12, <1>13, <1>14, TablesStay

LEMMA InsertLocPage ==
    ASSUME ServerAssumption, IInv, PageInv, NEW t \in Workers, InsertLoc(t)
    PROVE  PageInv'
<1> DEFINE s == jobs[t].sid
           form == jobs[t].form
           left == jobs[t].left
           loc == Head(left)
           todo == InReverse(loc.params)
           boxes == From(form.locs, Len(left))
           job == [jobs[t] EXCEPT !.left = Tail(left), !.ids = {nextId},
                                  !.todo = todo]
<1>1. /\ jobs[t].pc = "locs" /\ jobs[t].todo = <<>> /\ left # <<>>
      /\ jobs' = [jobs EXCEPT ![t] = job] /\ nextId' = nextId + 1
      /\ UNCHANGED <<servers, params, shown>>
  BY DEF InsertLoc, Goto, hist
<1>2. PICK row : /\ row.id = nextId /\ row.server = s /\ row.place = loc.place
                 /\ locs' = locs \cup {row}
  <2>1. PICK d : locs' = locs \cup {[id |-> nextId, server |-> s,
                                     place |-> loc.place, descr |-> d]}
    BY DEF InsertLoc
  <2> QED BY <2>1
<1>3. /\ Saving(t) /\ Storing(t) /\ Pending(jobs[t])
  BY <1>1 DEF Saving, Storing, Pending
<1>4. /\ JobOk(jobs[t], locs, params, DOMAIN servers, DOMAIN shown, nextId)
      /\ IsForm(form) /\ DOMAIN jobs[t] = JobFields /\ nextId \in Nat
      /\ s \in Nat /\ s < nextId
      /\ \A p \in params : /\ {p.id, p.owner} \subseteq Nat
                           /\ p.id < nextId /\ p.owner < nextId
      /\ \A l, m \in locs : l.id = m.id => l = m
      /\ \A l \in locs : l.id \in Nat /\ l.id < nextId
                         /\ l.id \notin DOMAIN servers
      /\ \A r \in DOMAIN servers : r # nextId
  BY <1>3, SaveKnows
<1>5. /\ job.pc = "locs" /\ job.sid = s /\ job.ids = {nextId}
      /\ job.todo = todo /\ job.form = form /\ job.left = Tail(left)
      /\ job.alone = jobs[t].alone
  BY <1>1, <1>4 DEF JobFields
<1> HIDE DEF job
<1>6. /\ DOMAIN jobs' = Workers /\ jobs'[t] = job
      /\ \A u \in Workers \ {t} : Like(jobs[u], jobs'[u])
  BY <1>1, GotoIs DEF IInv
<1>7. /\ form.locs \in Seq(Range(form.locs))
      /\ \A i \in 1..Len(form.locs) :
            /\ form.locs[i] \in Range(form.locs)
            /\ form.locs[i].params \in Seq(Range(form.locs[i].params))
  BY <1>4, BoxesOf
<1>8. ASSUME jobs[t].alone
      PROVE  Done(job, locs', params')
  <2>1. /\ Has(params, s, form.params) /\ Undone(left, form.locs)
        /\ HasLocs(locs, params, s, boxes, 0, jobs[t].ids)
    <3>1. Len(jobs[t].todo) = 0
      BY <1>1
    <3> QED BY <1>1, <1>3, <1>4, <1>8, <3>1 DEF JobOk, Done
  <2>2. /\ Undone(Tail(left), form.locs)
        /\ Len(left) \in 1..Len(form.locs)
        /\ loc = form.locs[Len(left)]
        /\ From(form.locs, Len(Tail(left))) = <<loc>> \o boxes
    BY <1>1, <1>7, <2>1, UndoneNext
  <2>3. /\ loc.params \in Seq(Range(loc.params)) /\ loc \in Range(form.locs)
    BY <1>7, <2>2
  <2>4. boxes \in Seq(Range(form.locs))
    <3> DEFINE n == Len(form.locs)
               k == Len(left)
    <3>1. n \in Nat /\ k \in Nat /\ k <= n
      BY <1>7, <2>2
    <3>2. \A i \in 1..n - k : form.locs[i + k] \in Range(form.locs)
      BY <1>7, <3>1
    <3>3. boxes = [i \in 1..n - k |-> form.locs[i + k]] /\ n - k \in Nat
      BY <3>1 DEF From
    <3> HIDE DEF n, k, boxes
    <3> QED BY SMTT(30), <3>2, <3>3
  <2>5. Owned(params, nextId) = {}
    BY <1>4 DEF Owned
  <2>6. HasLocs(locs', params, s, <<loc>> \o boxes, Len(loc.params), {nextId})
    BY <1>2, <1>4, <2>1, <2>3, <2>4, <2>5, LocsMore
  <2>7. Undone(todo, loc.params) /\ Len(todo) = Len(loc.params)
    BY <2>3, UndoneStart
  <2>8. (<<loc>> \o boxes)[1] = loc
    BY <2>3, <2>4, ConsIs
  <2> HIDE DEF todo, boxes, loc, left
  <2> QED BY <1>1, <1>5, <2>1, <2>2, <2>6, <2>7, <2>8 DEF Done
<1>9. JobOk(job, locs', params', DOMAIN servers', DOMAIN shown', nextId')
  <2>1. jobs[t].alone => Done(job, locs', params') /\ s \in DOMAIN servers
    BY <1>3, <1>4, <1>8 DEF JobOk
  <2>2. s \notin DOMAIN shown /\ \A l \in locs : l.id = s => l.server = s
    BY <1>3, <1>4 DEF JobOk
  <2>3. Pending(job)
    BY <1>5 DEF Pending
  <2>4. s < nextId + 1 /\ nextId < nextId + 1
    BY <1>4
  <2>5. \A l \in locs' : l.id = s \/ l.id = nextId => l.server = s
    BY <1>2, <1>4, <2>2
  <2> QED BY <1>1, <1>4, <1>5, <2>1, <2>2, <2>3, <2>4, <2>5 DEF JobOk, Pending
<1>10. \A p \in params' : /\ {p.id, p.owner} \subseteq Nat
                          /\ p.id < nextId' /\ p.owner < nextId'
  BY <1>1, <1>4
<1>11. nextId' \in Nat /\ nextId <= nextId'
  BY <1>1, <1>4
<1>12. \A r : r # s => Placed(locs, r) = Placed(locs', r)
  BY <1>2 DEF Placed
<1>13. \A o : Owned(params, o) = Owned(params', o)
  BY <1>1
<1>14. \A l, m \in locs' : l.id = m.id => l = m
  BY <1>2, <1>4
<1>15. \A l \in locs' : l.id = nextId \/ l \in locs
  BY <1>2
<1> QED BY <1>1, <1>3, <1>6, <1>9, <1>10, <1>11, <1>12, <1>13, <1>14, <1>15,
           TablesStay

LEMMA DelLocsPage ==
    ASSUME ServerAssumption, IInv, PageInv, NEW t \in Workers, DelLocs(t)
    PROVE  PageInv'
<1> DEFINE s == jobs[t].sid
<1>1. /\ jobs[t].pc = "delLocs" /\ jobs' = [jobs EXCEPT ![t] = Resting]
      /\ locs' = {l \in locs : l.server # s}
      /\ UNCHANGED <<servers, params, nextId, shown>>
  BY DEF DelLocs, Goto, hist
<1>2. Storing(t)
  BY <1>1 DEF Storing
<1>3. /\ DOMAIN jobs' = Workers /\ jobs'[t] = Resting
      /\ \A u \in Workers \ {t} : Like(jobs[u], jobs'[u])
  BY <1>1, GotoIs DEF IInv
<1>4. JobOk(Resting, locs', params', DOMAIN servers', DOMAIN shown', nextId')
  BY RestingIs, OtherJob
<1>5. nextId' \in Nat /\ nextId <= nextId'
  BY <1>1 DEF IInv, TypeInv
<1>6. \A r : r # s => Placed(locs, r) = Placed(locs', r)
  BY <1>1 DEF Placed
<1>7. \A o : Owned(params, o) = Owned(params', o)
  BY <1>1
<1>8. /\ \A l, m \in locs' : l.id = m.id => l = m
      /\ \A l \in locs' : l \in locs
  BY <1>1 DEF PageInv, RowsInv
<1>9. \A p \in params' : /\ {p.id, p.owner} \subseteq Nat
                         /\ p.id < nextId' /\ p.owner < nextId'
  BY <1>1 DEF PageInv, RowsInv
<1> QED BY <1>1, <1>2, <1>3, <1>4, <1>5, <1>6, <1>7, <1>8, <1>9, TablesStay

\* The page of a server whose save was alone becomes known.
LEMMA SaveDonePage ==
    ASSUME ServerAssumption, IInv, PageInv, NEW t \in Workers, SaveDone(t)
    PROVE  PageInv'
<1> DEFINE s == jobs[t].sid
           form == jobs[t].form
<1>1. /\ jobs[t].pc = "locs" /\ jobs[t].todo = <<>> /\ jobs[t].left = <<>>
      /\ jobs' = [jobs EXCEPT ![t] = Resting]
      /\ shown' = IF jobs[t].alone THEN Set(shown, s, form) ELSE Forget(s)
      /\ UNCHANGED <<servers, locs, params, nextId>>
  BY DEF SaveDone, Goto, storeRows
<1>2. /\ Saving(t) /\ Storing(t) /\ Pending(jobs[t])
  BY <1>1 DEF Saving, Storing, Pending
<1>3. /\ JobOk(jobs[t], locs, params, DOMAIN servers, DOMAIN shown, nextId)
      /\ IsForm(form) /\ nextId \in Nat
      /\ DOMAIN shown \subseteq DOMAIN servers
  BY <1>2, SaveKnows
<1>4. /\ DOMAIN jobs' = Workers /\ jobs'[t] = Resting
      /\ \A u \in Workers \ {t} : Like(jobs[u], jobs'[u])
  BY <1>1, GotoIs DEF IInv
<1>5. CASE ~jobs[t].alone
  <2>1. /\ DOMAIN shown' = DOMAIN shown \ {s}
        /\ \A r \in DOMAIN shown' : shown'[r] = shown[r]
    BY <1>1, <1>5 DEF Forget
  <2>2. ASSUME NEW u \in Workers
        PROVE  \/ JobOk(jobs'[u], locs', params', DOMAIN servers',
                        DOMAIN shown', nextId')
               \/ /\ Like(jobs[u], jobs'[u])
                  /\ Saving(u) /\ jobs'[u].alone =>
                        jobs[u].sid \in DOMAIN servers'
    BY <1>1, <1>4, AloneThere, OtherJob, RestingIs
  <2>3. DOMAIN shown' \subseteq DOMAIN shown \cap DOMAIN servers'
    BY <1>1, <1>3, <2>1
  <2>4. nextId' \in Nat /\ nextId <= nextId'
    BY <1>1, <1>3
  <2>5. DOMAIN servers' \subseteq DOMAIN servers \cup {nextId}
    BY <1>1
  <2> QED BY <1>1, <1>4, <2>1, <2>2, <2>3, <2>4, <2>5, QuietStays
<1>6. CASE jobs[t].alone
  <2>1. /\ DOMAIN shown' = DOMAIN shown \cup {s} /\ shown'[s] = form
        /\ \A r \in DOMAIN shown \ {s} : shown'[r] = shown[r]
    BY <1>1, <1>6 DEF Set
  <2>2. /\ Has(params, s, form.params) /\ s \in DOMAIN servers
        /\ HasLocs(locs, params, s, form.locs, 0, {})
    <3>1. /\ Has(params, s, form.params) /\ s \in DOMAIN servers
          /\ HasLocs(locs, params, s, From(form.locs, 0), 0, jobs[t].ids)
      <4>1. Len(jobs[t].todo) = 0 /\ Len(jobs[t].left) = 0
        BY <1>1
      <4> QED BY <1>1, <1>2, <1>3, <1>6, <4>1 DEF JobOk, Done
    <3>2. From(form.locs, 0) = form.locs
      BY <1>3, BoxesOf, FromAll
    <3> QED BY <3>1, <3>2 DEF HasLocs
  <2>3. RowsInv'
    BY <1>1, <2>1, <2>2 DEF PageInv, RowsInv
  <2>4. ShownInv'
    BY <1>1, <1>3, <2>1, <2>2 DEF PageInv, ShownInv
  <2>5. ASSUME NEW u \in Workers \ {t}
        PROVE  JobOk(jobs'[u], locs', params', DOMAIN servers', DOMAIN shown',
                     nextId')
    <3>1. JobOk(jobs[u], locs, params, DOMAIN servers, DOMAIN shown, nextId)
      BY DEF PageInv, JobsInv
    <3>2. Like(jobs[u], jobs'[u])
      BY <1>4
    <3>3. jobs'[u].alone => jobs[u].alone
      BY <3>2 DEF Like
    <3>4. Pending(jobs[u]) \/ jobs[u].pc = "delLocs" => jobs[u].sid # s
      BY <1>2, <1>6, <2>5 DEF IInv, AloneInv, Storing, Saving, Pending
    <3>5. Pending(jobs[u]) \/ jobs[u].pc = "delLocs" =>
             jobs[u].sid \notin DOMAIN shown'
      BY <2>1, <3>1, <3>4 DEF JobOk
    <3>6. Pending(jobs[u]) /\ jobs'[u].alone =>
             jobs[u].sid \in DOMAIN servers' /\ Done(jobs[u], locs', params')
      BY <1>1, <3>1, <3>3 DEF JobOk
    <3>7. DOMAIN servers' \subseteq DOMAIN servers \cup {nextId}
      BY <1>1
    <3>8. \A l \in locs' : \E o \in locs : o.id = l.id /\ o.server = l.server
      BY <1>1
    <3>9. nextId' \in Nat /\ nextId <= nextId'
      BY <1>1, <1>3
    <3> QED BY <1>3, <3>1, <3>2, <3>5, <3>6, <3>7, <3>8, <3>9, JobKept
  <2>6. JobsInv'
    BY <1>4, <2>5, OtherJob, RestingIs DEF JobsInv
  <2> QED BY <2>3, <2>4, <2>6 DEF PageInv
<1> QED BY <1>5, <1>6

LEMMA SetLocationDescrPage ==
    ASSUME ServerAssumption, IInv, PageInv, NEW l \in locs, NEW d \in Descrs,
           SetLocationDescr(l, d)
    PROVE  PageInv'
<1> DEFINE new == [l EXCEPT !.descr = d]
<1>1. /\ locs' = (locs \ {l}) \cup {new}
      /\ UNCHANGED <<servers, params, nextId, jobs, shown>>
  BY DEF SetLocationDescr
<1>2. DOMAIN l = {"id", "server", "place", "descr"} /\ nextId \in Nat
      /\ \A m \in locs : m.id \in Nat
  BY DEF IInv, TypeInv
<1>3. new.id = l.id /\ new.server = l.server /\ new.place = l.place
  BY <1>2
<1> HIDE DEF new
<1>4. \A m \in locs' : \E o \in locs : o.id = m.id /\ o.server = m.server
  BY <1>1, <1>3
<1>5. RowsInv'
  <2>1. \A m, o \in locs' : m.id = o.id => m = o
    BY <1>1, <1>3 DEF PageInv, RowsInv
  <2>2. \A m \in locs' : m.id \notin DOMAIN servers
    BY <1>4 DEF PageInv, RowsInv
  <2> QED BY <1>1, <2>1, <2>2 DEF PageInv, RowsInv
<1>6. \A P, s, boxes, k, owners : HasLocs(locs, P, s, boxes, k, owners) =>
                                     HasLocs(locs', P, s, boxes, k, owners)
  BY <1>1, <1>2, <1>3, LocsDescribed
<1>7. ShownInv'
  BY <1>1, <1>6 DEF PageInv, ShownInv
<1>8. ASSUME NEW u \in Workers
      PROVE  JobOk(jobs[u], locs', params, DOMAIN servers, DOMAIN shown, nextId)
  <2>1. JobOk(jobs[u], locs, params, DOMAIN servers, DOMAIN shown, nextId)
    BY DEF PageInv, JobsInv
  <2>2. Done(jobs[u], locs, params) => Done(jobs[u], locs', params)
    BY <1>6 DEF Done
  <2> QED BY <1>4, <2>1, <2>2 DEF JobOk
<1>9. JobsInv'
  BY <1>1, <1>8 DEF JobsInv
<1> QED BY <1>5, <1>7, <1>9 DEF PageInv

-----------------------------------------------------------------------------
(* The order of the servers.                                               *)

\* The numbers after a move has written its rows, which order then lists.
Prepared(rows, numbers, order, n) ==
    \E key :
       /\ DOMAIN key = DOMAIN numbers /\ Lists(order, key)
       /\ \A x \in DOMAIN key : key[x] \in Nat /\ key[x] # 0 /\ key[x] < n
       /\ \A x \in DOMAIN key :
             (\A i \in DOMAIN rows : rows[i].id # x) => key[x] = numbers[x]
       /\ \A i \in DOMAIN rows : /\ rows[i].id \in DOMAIN key
                                 /\ key[rows[i].id] = rows[i].row.seq

ListInv ==
    wanted # Unknown =>
       /\ Lists(wanted, Numbers)
       /\ \A s \in DOMAIN servers : /\ servers[s].seq # 0
                                    /\ servers[s].seq < nextId

\* A move that is alone knows the numbers.
MoverInv ==
    \A t \in Workers : Moving(t) /\ jobs[t].alone =>
       /\ \A u \in Workers : Moving(u) => u = t
       /\ jobs[t].pc = "list" =>
             LET held == jobs[t].rows[1]
             IN  /\ held.id \in DOMAIN servers
                 /\ held.row.seq = servers[held.id].seq
       /\ jobs[t].pc = "update" /\ jobs[t].order # Unknown =>
             Prepared(jobs[t].rows, Numbers, jobs[t].order, nextId)

OrderInv == ListInv /\ MoverInv

\* A number that was drawn and not yet written is that of no other server, of
\* no row that a move will write, and of no other save.
InUse(n) ==
    \/ \E s \in DOMAIN servers : servers[s].seq = n
    \/ \E t \in Workers : Moving(t) /\ \E i \in DOMAIN jobs[t].rows :
                                           jobs[t].rows[i].row.seq = n
Drawn(t, n) == jobs[t].pc = "write" /\ jobs[t].seq = n /\ n # 0
NumberInv ==
    /\ \A n : InUse(n) => n \in Nat /\ n < nextId
    /\ \A t \in Workers : \A n : Drawn(t, n) => /\ n \in Nat /\ n < nextId
                                                /\ ~InUse(n)
    /\ \A t, u \in Workers : \A n : Drawn(t, n) /\ Drawn(u, n) => t = u

\* A step that gives no server a number and draws none.
SameNumbers ==
    /\ wanted' = wanted /\ DOMAIN servers' = DOMAIN servers
    /\ \A s \in DOMAIN servers : servers'[s].seq = servers[s].seq
    /\ nextId' \in Nat /\ nextId <= nextId'
    /\ \A u \in Workers : \/ Like(jobs[u], jobs'[u])
                          \/ jobs'[u].pc \notin {"list", "update", "write"}

LEMMA NumbersAre ==
    ASSUME IInv
    PROVE  /\ DOMAIN Numbers = DOMAIN servers
           /\ \A s \in DOMAIN servers : /\ Numbers[s] = servers[s].seq
                                        /\ Numbers[s] \in Nat
BY DEF Numbers, IInv, TypeInv, Settings

\* As many stand above a number as there are larger ones.
LEMMA AboveCounts ==
    ASSUME NEW key, NEW list, Lists(list, key),
           \A x \in DOMAIN key : key[x] \in Nat, NEW v \in Nat
    PROVE  LET k == Cardinality({x \in DOMAIN key : key[x] > v})
           IN  /\ k \in 0..Len(list)
               /\ \A i \in 1..Len(list) : i <= k <=> key[list[i]] > v
<1> DEFINE n == Len(list)
           larger == {x \in DOMAIN key : key[x] > v}
           below == {i \in 1..n : ~(key[list[i]] > v)}
<1>1. n \in Nat /\ DOMAIN list = 1..n /\ list \in [1..n -> DOMAIN key]
  BY SeqLen DEF Lists
<1>2. Descends(list, key) /\ Covers(list, DOMAIN key)
  BY DEF Lists
<1> HIDE DEF n
<1>3. PICK k \in 0..n : \A i \in 1..n : i <= k <=> key[list[i]] > v
  <2>1. CASE below = {}
    <3>1. \A i \in 1..n : key[list[i]] > v
      BY <2>1
    <3>2. n \in 0..n /\ \A i \in 1..n : i <= n
      BY <1>1
    <3> QED BY <3>1, <3>2
  <2>2. CASE below # {}
    <3>1. below \subseteq Nat
      BY <1>1
    <3>2. PICK m \in below : \A i \in below : ~(<<i, m>> \in OpToRel(<, Nat))
      BY <2>2, <3>1, NatLessThanWellFounded, WFMin
    <3>3. \A i \in below : ~(i < m)
      BY <3>1, <3>2 DEF OpToRel
    <3>4. m \in 1..n /\ ~(key[list[m]] > v)
      OBVIOUS
    <3>5. ASSUME NEW i \in 1..n
          PROVE  i <= m - 1 <=> key[list[i]] > v
      <4>1. CASE i < m
        <5>1. i \notin below
          BY <3>3, <4>1
        <5> QED BY <1>1, <3>4, <4>1, <5>1
      <4>2. CASE i = m
        BY <1>1, <3>4, <4>2
      <4>3. CASE i > m
        <5>1. key[list[m]] > key[list[i]]
          BY <1>1, <1>2, <3>4, <4>3 DEF Descends
        <5>2. key[list[m]] \in Nat /\ key[list[i]] \in Nat
          BY <1>1, <3>4
        <5> QED BY <1>1, <3>4, <4>3, <5>1, <5>2
      <4> QED BY <1>1, <3>4, <4>1, <4>2, <4>3
    <3>6. m - 1 \in 0..n
      BY <1>1, <3>4
    <3> QED BY <3>5, <3>6
  <2> QED BY <2>1, <2>2
<1>4. Cardinality(larger) = k
  <2>1. CASE k = 0
    <3>1. larger = {}
      BY <1>1, <1>2, <1>3, <2>1 DEF Covers
    <3> QED BY <2>1, <3>1, FS_EmptySet
  <2>2. CASE k # 0
    <3>1. k \in 1..n /\ list[k] \in DOMAIN key
      BY <1>1, <1>3, <2>2
    <3>2. ASSUME NEW x \in DOMAIN key
          PROVE  key[x] > v <=> key[x] >= key[list[k]]
      <4>1. PICK i \in 1..n : list[i] = x
        BY <1>1, <1>2 DEF Covers
      <4>2. key[x] \in Nat /\ key[list[k]] \in Nat
        BY <3>1
      <4>3. CASE i < k
        BY <1>1, <1>2, <1>3, <3>1, <4>1, <4>2, <4>3 DEF Descends
      <4>4. CASE i = k
        BY <1>1, <1>3, <3>1, <4>1, <4>2, <4>4
      <4>5. CASE i > k
        <5>1. key[list[k]] > key[x]
          BY <1>1, <1>2, <3>1, <4>1, <4>5 DEF Descends
        <5>2. ~(key[x] > v)
          BY <1>1, <1>3, <4>1, <4>5
        <5> QED BY <4>2, <5>1, <5>2
      <4> QED BY <1>1, <3>1, <4>3, <4>4, <4>5
    <3>3. larger = {x \in DOMAIN key : key[x] >= key[list[k]]}
      BY <3>2
    <3> QED BY SMTT(30), <1>1, <1>2, <3>1, <3>3, Rank
  <2> QED BY <2>1, <2>2
<1> QED BY <1>3, <1>4 DEF n

\* The list with one more at a place.
Inserted(new, list, i, x) ==
    /\ DOMAIN new = 1..Len(list) + 1
    /\ \A k \in 1..Len(list) + 1 : new[k] = IF k < i THEN list[k]
                                           ELSE IF k = i THEN x
                                           ELSE list[k - 1]

LEMMA InsertIs ==
    ASSUME NEW S, NEW list, list \in Seq(S), NEW x, x \in S,
           NEW i, i \in 1..Len(list) + 1
    PROVE  /\ InsertAt(list, i, x) \in Seq(S)
           /\ Inserted(InsertAt(list, i, x), list, i, x)
<1> DEFINE n == Len(list)
           a == SubSeq(list, 1, i - 1)
           b == SubSeq(list, i, n)
           c == a \o <<x>>
           new == InsertAt(list, i, x)
<1>1. n \in Nat /\ i \in Nat /\ 1 <= i /\ i <= n + 1
  OBVIOUS
<1>2. /\ a \in Seq(S) /\ Len(a) = i - 1
      /\ \A k \in 1..i - 1 : a[k] = list[k]
  BY <1>1
<1>3. /\ b \in Seq(S) /\ Len(b) = n + 1 - i
      /\ \A k \in 1..n + 1 - i : b[k] = list[i + k - 1]
  BY <1>1
<1>4. new = c \o b
  BY DEF InsertAt
<1> HIDE DEF a, b, new
<1>5. /\ c \in Seq(S) /\ Len(c) = i /\ c[i] = x
      /\ \A k \in 1..i - 1 : c[k] = list[k]
  <2>1. <<x>> \in Seq(S) /\ Len(<<x>>) = 1 /\ <<x>>[1] = x
    OBVIOUS
  <2>2. /\ c \in Seq(S) /\ Len(c) = Len(a) + 1
        /\ \A k \in 1..Len(a) + 1 :
              c[k] = IF k <= Len(a) THEN a[k] ELSE <<x>>[k - Len(a)]
    BY <1>2, <2>1, ConcatProperties
  <2> HIDE DEF c, n
  <2>3. Len(c) = i
    BY <1>1, <1>2, <2>2
  <2>4. c[i] = x
    <3>1. i \in 1..Len(a) + 1 /\ ~(i <= Len(a)) /\ i - Len(a) = 1
      BY <1>1, <1>2
    <3> QED BY <2>1, <2>2, <3>1
  <2>5. ASSUME NEW k \in 1..i - 1
        PROVE  c[k] = list[k]
    <3>1. k \in 1..Len(a) + 1 /\ k <= Len(a)
      BY <1>1, <1>2
    <3> QED BY <1>2, <2>2, <3>1
  <2> QED BY <2>2, <2>3, <2>4, <2>5
<1> HIDE DEF c, n
<1>6. /\ new \in Seq(S) /\ Len(new) = Len(c) + Len(b)
      /\ \A k \in 1..Len(c) + Len(b) :
            new[k] = IF k <= Len(c) THEN c[k] ELSE b[k - Len(c)]
  BY <1>3, <1>4, <1>5, ConcatProperties
<1>7. Len(c) + Len(b) = n + 1 /\ DOMAIN new = 1..n + 1
  <2>1. Len(c) + Len(b) = n + 1
    BY <1>1, <1>3, <1>5
  <2> QED BY <1>6, <2>1
<1>8. ASSUME NEW k \in 1..n + 1
      PROVE  new[k] = IF k < i THEN list[k] ELSE IF k = i THEN x
                      ELSE list[k - 1]
  <2>1. new[k] = IF k <= i THEN c[k] ELSE b[k - i]
    BY <1>5, <1>6, <1>7
  <2>2. CASE k < i
    <3>1. k \in 1..i - 1 /\ k <= i
      BY <1>1, <2>2
    <3> QED BY <1>5, <2>1, <2>2, <3>1
  <2>3. CASE k = i
    <3>1. k <= i /\ ~(k < i)
      BY <1>1, <2>3
    <3> QED BY <1>5, <2>1, <2>3, <3>1
  <2>4. CASE k > i
    <3>1. k - i \in 1..n + 1 - i /\ i + (k - i) - 1 = k - 1
      BY <1>1, <2>4
    <3>2. b[k - i] = list[k - 1]
      BY <1>3, <3>1
    <3>3. ~(k <= i) /\ ~(k < i) /\ k # i
      BY <1>1, <2>4
    <3> QED BY <2>1, <3>2, <3>3
  <2> QED BY <1>1, <2>2, <2>3, <2>4
<1> QED BY <1>6, <1>7, <1>8 DEF n, new, Inserted

\* One more in the list, behind those with a larger number.
LEMMA ListsMore ==
    ASSUME NEW key, NEW list, Lists(list, key), NEW x, NEW more,
           \A y \in DOMAIN key : key[y] \in Nat,
           DOMAIN more = DOMAIN key \cup {x}, more[x] \in Nat,
           \A y \in DOMAIN key : more[y] = key[y] /\ more[x] # key[y],
           NEW k, k = Cardinality({y \in DOMAIN key : key[y] > more[x]})
    PROVE  Lists(InsertAt(list, k + 1, x), more)
<1> DEFINE new == InsertAt(list, k + 1, x)
           n == Len(list)
           S == DOMAIN more
<1>1. list \in Seq(S) /\ x \in S
  BY DEF Lists
<1>2. /\ n \in Nat /\ DOMAIN list = 1..n /\ list \in [1..n -> DOMAIN key]
  BY SeqLen DEF Lists
<1>3. k \in 0..n /\ \A i \in 1..n : i <= k <=> key[list[i]] > more[x]
  BY AboveCounts
<1>4. k + 1 \in 1..n + 1
  BY <1>2, <1>3
<1> HIDE DEF S
<1>5. /\ new \in Seq(S) /\ DOMAIN new = 1..n + 1
      /\ \A i \in 1..n + 1 : new[i] = IF i < k + 1 THEN list[i]
                                      ELSE IF i = k + 1 THEN x ELSE list[i - 1]
  <2> DEFINE at == k + 1
  <2>1. at \in 1..Len(list) + 1
    BY <1>4
  <2> HIDE DEF at
  <2>2. /\ InsertAt(list, at, x) \in Seq(S)
        /\ Inserted(InsertAt(list, at, x), list, at, x)
    BY <1>1, <2>1, InsertIs
  <2>3. at = k + 1 /\ InsertAt(list, at, x) = new /\ Len(list) = n
    BY DEF at
  <2> HIDE DEF new, n
  <2>4. /\ new \in Seq(S) /\ DOMAIN new = 1..n + 1
        /\ \A i \in 1..n + 1 : new[i] = IF i < at THEN list[i]
                                        ELSE IF i = at THEN x ELSE list[i - 1]
    BY <2>2, <2>3 DEF Inserted
  <2>5. at = k + 1
    BY <2>3
  <2> HIDE DEF n
  <2> QED BY <2>4, <2>5
<1> HIDE DEF new, n
<1>6. ASSUME NEW i \in 1..n
      PROVE  /\ list[i] \in DOMAIN key /\ more[list[i]] = key[list[i]]
             /\ key[list[i]] \in Nat
             /\ i <= k => more[list[i]] > more[x]
             /\ i > k => more[x] > more[list[i]]
  <2>1. list[i] \in DOMAIN key
    BY <1>2
  <2>2. more[list[i]] = key[list[i]] /\ key[list[i]] \in Nat
        /\ more[x] # key[list[i]]
    BY <2>1
  <2>3. i <= k <=> key[list[i]] > more[x]
    BY <1>3
  <2>4. k \in Nat /\ more[x] \in Nat /\ i \in Nat
    BY <1>2, <1>3
  <2>5. PICK a \in Nat, b \in Nat : a = key[list[i]] /\ b = more[x]
    BY <2>2, <2>4
  <2>6. (i <= k <=> a > b) /\ a # b
    BY <2>2, <2>3, <2>5
  <2>7. (i <= k => a > b) /\ (i > k => b > a)
    BY <2>4, <2>5, <2>6
  <2> QED BY <2>1, <2>2, <2>5, <2>7
<1>7. ASSUME NEW i \in 1..n, NEW j \in 1..n, i < j
      PROVE  more[list[i]] > more[list[j]]
  BY <1>2, <1>6, <1>7 DEF Lists, Descends
<1>8. ASSUME NEW i \in DOMAIN new, NEW j \in DOMAIN new, i < j
      PROVE  more[new[i]] > more[new[j]]
  <2>1. i \in 1..n + 1 /\ j \in 1..n + 1 /\ k \in Nat
    BY <1>3, <1>5
  <2>2. CASE i < k + 1 /\ j < k + 1
    <3>1. i \in 1..n /\ j \in 1..n
      BY <1>2, <1>3, <2>1, <2>2
    <3> QED BY <1>5, <1>7, <1>8, <2>1, <2>2, <3>1
  <2>3. CASE i < k + 1 /\ j = k + 1
    <3>1. i \in 1..n /\ i <= k
      BY <1>2, <1>3, <2>1, <2>3
    <3> QED BY <1>5, <1>6, <2>1, <2>3, <3>1
  <2>4. CASE i < k + 1 /\ j > k + 1
    <3>1. i \in 1..n /\ j - 1 \in 1..n /\ i < j - 1
      BY SMTT(30), <1>2, <1>3, <2>1, <2>4
    <3>2. new[i] = list[i] /\ new[j] = list[j - 1]
      BY <1>5, <2>1, <2>4
    <3> QED BY <1>7, <3>1, <3>2
  <2>5. CASE i = k + 1
    <3>1. j - 1 \in 1..n /\ j - 1 > k
      BY <1>2, <1>3, <1>8, <2>1, <2>5
    <3>2. new[i] = x /\ new[j] = list[j - 1]
      BY <1>5, <1>8, <2>1, <2>5
    <3> QED BY <1>6, <3>1, <3>2
  <2>6. CASE i > k + 1
    <3>1. i - 1 \in 1..n /\ j - 1 \in 1..n /\ i - 1 < j - 1
      BY SMTT(30), <1>2, <1>3, <1>8, <2>1, <2>6
    <3>2. new[i] = list[i - 1] /\ new[j] = list[j - 1]
      BY <1>5, <1>8, <2>1, <2>6
    <3> QED BY <1>7, <3>1, <3>2
  <2> QED BY <1>8, <2>1, <2>2, <2>3, <2>4, <2>5, <2>6
<1>9. ASSUME NEW y \in S
      PROVE  \E i \in DOMAIN new : new[i] = y
  <2>1. CASE y = x
    BY <1>2, <1>3, <1>4, <1>5, <2>1
  <2>2. CASE y # x
    <3>1. PICK m \in 1..n : list[m] = y
      BY <1>2, <2>2 DEF Lists, Covers, S
    <3>2. CASE m <= k
      <4>1. m \in 1..n + 1 /\ m < k + 1
        BY <1>2, <1>3, <3>2
      <4> QED BY <1>5, <3>1, <4>1
    <3>3. CASE m > k
      <4>1. m + 1 \in 1..n + 1 /\ m + 1 > k + 1 /\ (m + 1) - 1 = m
        BY <1>2, <1>3, <3>3
      <4>2. new[m + 1] = list[m]
        BY <1>3, <1>5, <4>1
      <4> QED BY <1>5, <3>1, <4>1, <4>2
    <3> QED BY <1>2, <1>3, <3>2, <3>3
  <2> QED BY <2>1, <2>2
<1>10. Covers(new, S)
  BY <1>9 DEF Covers
<1> QED BY <1>5, <1>8, <1>10 DEF Lists, Descends, new, S

LEMMA RemoveIs ==
    ASSUME NEW S, NEW list \in Seq(S), NEW i \in 1..Len(list)
    PROVE  /\ RemoveAt(list, i) \in Seq(S)
           /\ DOMAIN RemoveAt(list, i) = 1..Len(list) - 1
           /\ \A k \in 1..Len(list) - 1 :
                 RemoveAt(list, i)[k] = IF k < i THEN list[k] ELSE list[k + 1]
<1> DEFINE n == Len(list)
           a == SubSeq(list, 1, i - 1)
           b == SubSeq(list, i + 1, n)
           c == RemoveAt(list, i)
<1>1. n \in Nat /\ i \in Nat /\ 1 <= i /\ i <= n
  OBVIOUS
<1>2. /\ a \in Seq(S) /\ Len(a) = i - 1
      /\ \A k \in 1..i - 1 : a[k] = list[k]
  BY <1>1
<1>3. /\ b \in Seq(S) /\ Len(b) = n - i
      /\ \A k \in 1..n - i : b[k] = list[i + k]
  BY <1>1
<1>4. c = a \o b
  BY DEF RemoveAt
<1> HIDE DEF a, b, c, n
<1>5. /\ c \in Seq(S) /\ Len(c) = (i - 1) + (n - i)
      /\ \A k \in 1..(i - 1) + (n - i) :
            c[k] = IF k <= i - 1 THEN a[k] ELSE b[k - (i - 1)]
  <2>1. a \in Seq(S) /\ b \in Seq(S)
    BY <1>2, <1>3
  <2>2. /\ c \in Seq(S) /\ Len(c) = Len(a) + Len(b)
        /\ \A k \in 1..Len(a) + Len(b) :
              c[k] = IF k <= Len(a) THEN a[k] ELSE b[k - Len(a)]
    BY <1>4, <2>1, ConcatProperties
  <2>3. Len(a) = i - 1 /\ Len(b) = n - i
    BY <1>2, <1>3
  <2> QED BY <2>2, <2>3
<1>6. (i - 1) + (n - i) = n - 1 /\ DOMAIN c = 1..n - 1
  <2>1. (i - 1) + (n - i) = n - 1
    BY <1>1
  <2> QED BY <1>5, <2>1
<1>7. ASSUME NEW k \in 1..n - 1
      PROVE  c[k] = IF k < i THEN list[k] ELSE list[k + 1]
  <2>1. CASE k < i
    BY <1>1, <1>2, <1>5, <1>6, <2>1
  <2>2. CASE ~(k < i)
    <3>1. k - (i - 1) \in 1..n - i /\ i + (k - (i - 1)) = k + 1
      BY <1>1, <2>2
    <3>2. c[k] = b[k - (i - 1)]
      BY <1>1, <1>5, <1>6, <2>2
    <3> QED BY <1>3, <2>2, <3>1, <3>2
  <2> QED BY <2>1, <2>2
<1> QED BY <1>5, <1>6, <1>7 DEF c, n

LEMMA ListsLess ==
    ASSUME NEW key, NEW list, Lists(list, key), NEW i \in DOMAIN list, NEW less,
           DOMAIN less = DOMAIN key \ {list[i]},
           \A x \in DOMAIN less : less[x] = key[x],
           \A x \in DOMAIN key : key[x] \in Nat
    PROVE  Lists(RemoveAt(list, i), less)
<1> DEFINE new == RemoveAt(list, i)
           n == Len(list)
<1>1. n \in Nat /\ DOMAIN list = 1..n /\ list \in [1..n -> DOMAIN key]
  BY SeqLen DEF Lists
<1>2. list \in Seq(DOMAIN key) /\ i \in 1..n
  BY <1>1 DEF Lists
<1>3. /\ new \in Seq(DOMAIN key) /\ DOMAIN new = 1..n - 1
      /\ \A k \in 1..n - 1 : new[k] = IF k < i THEN list[k] ELSE list[k + 1]
  BY <1>2, RemoveIs
<1> HIDE DEF new, n
<1>4. \A k, m \in 1..n : list[k] = list[m] => k = m
  <2>1. ASSUME NEW k \in 1..n, NEW m \in 1..n, list[k] = list[m]
        PROVE  k = m
    <3>1. key[list[k]] \in Nat
      BY <1>1
    <3>2. ~(k < m) /\ ~(m < k)
      BY <1>1, <2>1, <3>1 DEF Lists, Descends
    <3> QED BY <1>1, <3>2
  <2> QED BY <2>1
<1>5. ASSUME NEW k \in 1..n - 1
      PROVE  new[k] \in DOMAIN less
  <2>1. k \in 1..n /\ k + 1 \in 1..n
    BY <1>1
  <2>2. k < i \/ k + 1 > i
    BY <1>2
  <2>3. new[k] # list[i]
    BY <1>2, <1>3, <1>4, <2>1, <2>2
  <2> QED BY <1>1, <1>3, <2>1, <2>3
<1>6. new \in Seq(DOMAIN less)
  <2>1. new = [k \in 1..n - 1 |-> new[k]] /\ n - 1 \in Nat
    BY <1>1, <1>2, <1>3
  <2> QED BY <1>5, <2>1
<1>7. ASSUME NEW j \in 1..n - 1, NEW k \in 1..n - 1, j < k
      PROVE  less[new[j]] > less[new[k]]
  <2>1. PICK a, b \in 1..n : new[j] = list[a] /\ new[k] = list[b] /\ a < b
    <3> DEFINE a == IF j < i THEN j ELSE j + 1
               b == IF k < i THEN k ELSE k + 1
    <3>1. a \in 1..n /\ b \in 1..n /\ a < b
      BY <1>1, <1>2, <1>7
    <3>2. new[j] = list[a] /\ new[k] = list[b]
      BY <1>3
    <3> QED BY <3>1, <3>2
  <2>2. key[list[a]] > key[list[b]]
    BY <1>1, <2>1 DEF Lists, Descends
  <2> QED BY <1>5, <2>1, <2>2
<1>8. ASSUME NEW x \in DOMAIN less
      PROVE  \E k \in 1..n - 1 : new[k] = x
  <2>1. PICK m \in 1..n : list[m] = x
    BY <1>1 DEF Lists, Covers
  <2>2. m # i
    BY <2>1
  <2>3. CASE m < i
    <3>1. m \in 1..n - 1
      BY <1>1, <1>2, <2>3
    <3> QED BY <1>3, <2>1, <2>3, <3>1
  <2>4. CASE m > i
    <3>1. m - 1 \in 1..n - 1 /\ ~(m - 1 < i) /\ (m - 1) + 1 = m
      BY <1>1, <1>2, <2>4
    <3> QED BY <1>3, <2>1, <3>1
  <2> QED BY <1>1, <1>2, <2>2, <2>3, <2>4
<1> QED BY <1>3, <1>6, <1>7, <1>8 DEF Lists, Descends, Covers, new

LEMMA ListsSwapped ==
    ASSUME NEW key, NEW list, Lists(list, key),
           \A x \in DOMAIN key : key[x] \in Nat,
           NEW i \in DOMAIN list, NEW j \in DOMAIN list, i # j, NEW a, NEW b,
           a = list[i], b = list[j]
    PROVE  Lists([list EXCEPT ![i] = b, ![j] = a],
                 [x \in DOMAIN key |-> IF x = a THEN key[b]
                                       ELSE IF x = b THEN key[a] ELSE key[x]])
<1> DEFINE n == Len(list)
           new == [list EXCEPT ![i] = b, ![j] = a]
           S == DOMAIN key
           other == [x \in S |-> IF x = a THEN key[b]
                                 ELSE IF x = b THEN key[a] ELSE key[x]]
<1>1. n \in Nat /\ DOMAIN list = 1..n /\ list \in [1..n -> S]
  BY SeqLen DEF Lists
<1> HIDE DEF n
<1>2. /\ DOMAIN new = 1..n /\ new[i] = b /\ new[j] = a
      /\ \A k \in 1..n \ {i, j} : new[k] = list[k]
  BY <1>1
<1>3. a \in S /\ b \in S /\ \A k \in 1..n : new[k] \in S
  BY <1>1, <1>2
<1>4. new \in Seq(S)
  <2>1. new = [k \in 1..n |-> new[k]]
    BY <1>2
  <2> HIDE DEF new
  <2> QED BY SMTT(30), <1>1, <1>3, <2>1
<1>5. \A k, m \in 1..n : list[k] = list[m] => k = m
  <2>1. ASSUME NEW k \in 1..n, NEW m \in 1..n, list[k] = list[m]
        PROVE  k = m
    <3>1. key[list[k]] \in Nat
      BY <1>1
    <3>2. ~(k < m) /\ ~(m < k)
      BY <1>1, <2>1, <3>1 DEF Lists, Descends
    <3> QED BY <1>1, <3>2
  <2> QED BY <2>1
<1> HIDE DEF new
<1>6. ASSUME NEW k \in 1..n
      PROVE  other[new[k]] = key[list[k]]
  <2>1. CASE k = i
    BY <1>1, <1>2, <1>3, <1>5, <2>1
  <2>2. CASE k = j
    BY <1>1, <1>2, <1>3, <1>5, <2>2
  <2>3. CASE k # i /\ k # j
    <3>1. new[k] = list[k] /\ list[k] # a /\ list[k] # b
      BY <1>1, <1>2, <1>5, <2>3
    <3> QED BY <1>3, <3>1
  <2> QED BY <2>1, <2>2, <2>3
<1>7. ASSUME NEW x \in S
      PROVE  \E k \in 1..n : new[k] = x
  <2>1. PICK k \in 1..n : list[k] = x
    BY <1>1 DEF Lists, Covers
  <2>2. CASE x = a
    BY <1>1, <1>2, <2>2
  <2>3. CASE x = b
    BY <1>1, <1>2, <2>3
  <2>4. CASE x # a /\ x # b
    BY <1>1, <1>2, <2>1, <2>4
  <2> QED BY <2>2, <2>3, <2>4
<1>8. DOMAIN other = S
  OBVIOUS
<1> HIDE DEF other
<1>9. Descends(new, other)
  BY <1>1, <1>2, <1>6 DEF Lists, Descends
<1>10. Lists(new, other)
  BY <1>2, <1>4, <1>7, <1>8, <1>9 DEF Lists, Covers
<1> QED BY <1>10 DEF new, other, S

LEMMA PreparedLonger ==
    ASSUME NEW rows, NEW numbers, NEW order, NEW n \in Nat, NEW m \in Nat,
           n <= m, Prepared(rows, numbers, order, n)
    PROVE  Prepared(rows, numbers, order, m)
<1>1. PICK key :
         /\ DOMAIN key = DOMAIN numbers /\ Lists(order, key)
         /\ \A x \in DOMAIN key : key[x] \in Nat /\ key[x] # 0 /\ key[x] < n
         /\ \A x \in DOMAIN key :
               (\A i \in DOMAIN rows : rows[i].id # x) => key[x] = numbers[x]
         /\ \A i \in DOMAIN rows : /\ rows[i].id \in DOMAIN key
                                   /\ key[rows[i].id] = rows[i].row.seq
  BY DEF Prepared
<1>2. \A x \in DOMAIN key : key[x] \in Nat /\ key[x] # 0 /\ key[x] < m
  BY <1>1
<1> QED BY <1>1, <1>2 DEF Prepared

\* A step that changes no number and starts no move.
LEMMA OrderStays ==
    ASSUME IInv, OrderInv, wanted' = wanted, DOMAIN servers' = DOMAIN servers,
           \A s \in DOMAIN servers : servers'[s].seq = servers[s].seq,
           nextId' \in Nat, nextId <= nextId',
           \A u \in Workers : Like(jobs[u], jobs'[u]) \/ ~Moving(u)'
    PROVE  OrderInv'
<1>1. Numbers' = Numbers
  BY DEF Numbers
<1>2. nextId \in Nat /\ \A s \in DOMAIN servers : servers[s].seq \in Nat
  BY DEF IInv, TypeInv, Settings
<1>3. ListInv'
  BY <1>1, <1>2 DEF OrderInv, ListInv
<1>4. ASSUME NEW u \in Workers, Moving(u)'
      PROVE  /\ Moving(u) /\ (jobs'[u].alone => jobs[u].alone)
             /\ jobs'[u].pc = jobs[u].pc /\ jobs'[u].rows = jobs[u].rows
             /\ jobs'[u].order = jobs[u].order
  BY <1>4 DEF Moving, Like
<1>5. ASSUME NEW u \in Workers, Moving(u)', jobs'[u].alone
      PROVE  /\ \A v \in Workers : Moving(v)' => v = u
             /\ jobs'[u].pc = "list" =>
                   LET held == jobs'[u].rows[1]
                   IN  /\ held.id \in DOMAIN servers'
                       /\ held.row.seq = servers'[held.id].seq
             /\ jobs'[u].pc = "update" /\ jobs'[u].order # Unknown =>
                   Prepared(jobs'[u].rows, Numbers', jobs'[u].order, nextId')
  <2>1. Moving(u) /\ jobs[u].alone
    BY <1>4, <1>5
  <2>2. \A v \in Workers : Moving(v)' => v = u
    BY <1>4, <2>1 DEF OrderInv, MoverInv
  <2>3. jobs'[u].pc = "list" =>
           LET held == jobs'[u].rows[1]
           IN  /\ held.id \in DOMAIN servers'
               /\ held.row.seq = servers'[held.id].seq
    BY <1>4, <1>5, <2>1 DEF OrderInv, MoverInv
  <2>4. jobs'[u].pc = "update" /\ jobs'[u].order # Unknown =>
           Prepared(jobs'[u].rows, Numbers', jobs'[u].order, nextId')
    BY <1>1, <1>2, <1>4, <1>5, <2>1, PreparedLonger DEF OrderInv, MoverInv
  <2> QED BY <2>2, <2>3, <2>4
<1>6. MoverInv'
  BY <1>5 DEF MoverInv, Moving
<1> QED BY <1>3, <1>6 DEF OrderInv

\* A step that startles all moves.
LEMMA StartledOrder ==
    ASSUME \A u \in Workers : Moving(u)' => ~jobs'[u].alone, ListInv'
    PROVE  OrderInv'
<1>1. MoverInv'
  BY DEF MoverInv, Moving
<1> QED BY <1>1 DEF OrderInv

LEMMA StartledMoves ==
    ASSUME IInv, NEW u \in Workers
    PROVE  \/ Startled[u].pc \notin {"list", "update"} \/ ~Startled[u].alone
BY LikeWithout DEF Startled, Moving, IInv

\* The steps of a save other than the first two, and those that change neither
\* a number nor the list of servers.
LEMMA OtherSteps ==
    ASSUME ServerAssumption, IInv,
           \/ \E t \in Workers :
                 \/ WriteOld(t) \/ ReadLocationIds(t) \/ ClearParams(t)
                 \/ InsertParam(t) \/ ReadOlds(t) \/ DropLocs(t) \/ InsertLoc(t)
                 \/ SaveDone(t) \/ DelLocs(t) \/ NoTarget(t) \/ Fail(t)
           \/ \E s \in DOMAIN servers : Edit(s)
           \/ \E l \in locs, d \in Descrs : SetLocationDescr(l, d)
    PROVE  SameNumbers
<1>1. nextId \in Nat /\ DOMAIN jobs = Workers
      /\ \A u \in Workers : Like(jobs[u], jobs[u])
  BY LikeItself DEF IInv, TypeInv
<1>2. \A s \in DOMAIN servers : \A edit :
         [servers[s] EXCEPT !.edit = edit].seq = servers[s].seq
  BY DEF IInv, TypeInv, Settings
<1>3. ASSUME NEW t \in Workers,
             \/ ReadLocationIds(t) \/ ClearParams(t) \/ InsertParam(t)
             \/ ReadOlds(t) \/ DropLocs(t) \/ InsertLoc(t) \/ SaveDone(t)
             \/ DelLocs(t) \/ NoTarget(t) \/ Fail(t)
      PROVE  SameNumbers
  <2>1. /\ UNCHANGED <<servers, wanted>>
        /\ nextId' = nextId \/ nextId' = nextId + 1
    BY <1>3 DEF ReadLocationIds, ClearParams, InsertParam, ReadOlds, DropLocs,
       InsertLoc, SaveDone, DelLocs, NoTarget, Fail, storeRows, hist
  <2>2. "pc" \in DOMAIN jobs[t]
    BY DEF IInv, TypeInv, JobFields
  <2>3. PICK job : /\ jobs' = [jobs EXCEPT ![t] = job]
                   /\ job.pc \notin {"list", "update", "write"}
    <3>2. CASE ReadLocationIds(t)
      <4> DEFINE new == [jobs[t] EXCEPT !.pc = "clear",
                                        !.ids = Ids(LocsOf(jobs[t].sid))]
      <4>1. jobs' = [jobs EXCEPT ![t] = new] /\ new.pc = "clear"
        BY <2>2, <3>2 DEF ReadLocationIds, Goto
      <4> HIDE DEF new
      <4> QED BY <4>1
    <3>3. CASE ClearParams(t)
      <4> DEFINE new == [jobs[t] EXCEPT !.pc = "params", !.ids = {jobs[t].sid},
                                        !.todo = InReverse(jobs[t].form.params)]
      <4>1. jobs' = [jobs EXCEPT ![t] = new] /\ new.pc = "params"
        BY <2>2, <3>3 DEF ClearParams, Goto
      <4> HIDE DEF new
      <4> QED BY <4>1
    <3>4. CASE InsertParam(t)
      <4> DEFINE new == [jobs[t] EXCEPT !.todo = Tail(@)]
      <4>1. jobs' = [jobs EXCEPT ![t] = new] /\ new.pc \in {"params", "locs"}
        BY <2>2, <3>4 DEF InsertParam, Goto
      <4> HIDE DEF new
      <4> QED BY <4>1
    <3>5. CASE ReadOlds(t)
      <4> DEFINE new == [jobs[t] EXCEPT !.pc = "drop",
                                        !.olds = Olds(jobs[t].sid)]
      <4>1. jobs' = [jobs EXCEPT ![t] = new] /\ new.pc = "drop"
        BY <2>2, <3>5 DEF ReadOlds, Goto
      <4> HIDE DEF new
      <4> QED BY <4>1
    <3>6. CASE DropLocs(t)
      <4> DEFINE new == [jobs[t] EXCEPT !.pc = "locs",
                                        !.left = InReverse(jobs[t].form.locs)]
      <4>1. jobs' = [jobs EXCEPT ![t] = new] /\ new.pc = "locs"
        BY <2>2, <3>6 DEF DropLocs, Goto
      <4> HIDE DEF new
      <4> QED BY <4>1
    <3>7. CASE InsertLoc(t)
      <4> DEFINE new == [jobs[t] EXCEPT !.left = Tail(@), !.ids = {nextId},
                             !.todo = InReverse(Head(jobs[t].left).params)]
      <4>1. jobs' = [jobs EXCEPT ![t] = new] /\ new.pc = "locs"
        BY <2>2, <3>7 DEF InsertLoc, Goto
      <4> HIDE DEF new
      <4> QED BY <4>1
    <3>8. CASE SaveDone(t) \/ DelLocs(t) \/ NoTarget(t) \/ Fail(t)
      BY <3>8, RestingIs DEF SaveDone, DelLocs, NoTarget, Fail, Goto
    <3> QED BY <1>3, <3>2, <3>3, <3>4, <3>5, <3>6, <3>7, <3>8
  <2>4. /\ jobs'[t] = job
        /\ \A u \in Workers \ {t} : Like(jobs[u], jobs'[u])
    BY <2>3, GotoIs DEF IInv
  <2>5. \A u \in Workers : Like(jobs[u], jobs'[u]) \/ jobs'[u].pc \notin {"list", "update", "write"}
    BY <2>3, <2>4
  <2>6. nextId' \in Nat /\ nextId <= nextId'
    BY <1>1, <2>1
  <2> QED BY SMTT(30), <2>1, <2>5, <2>6 DEF SameNumbers
<1>4. ASSUME NEW t \in Workers, WriteOld(t)
      PROVE  SameNumbers
  <2> DEFINE s == jobs[t].sid
             job == [jobs[t] EXCEPT !.pc = "ids",
                       !.alone = \A u \in Workers \ {t} : ~Busy(u, s)]
  <2>1. /\ s \in DOMAIN servers /\ UNCHANGED <<nextId, wanted>>
        /\ servers' = [servers EXCEPT ![s].edit = requests]
        /\ jobs' = [Disturbed(s) EXCEPT ![t] = job]
    BY <1>4 DEF WriteOld
  <2>2. job.pc = "ids"
    BY DEF IInv, TypeInv, JobFields
  <2> HIDE DEF job
  <2>3. /\ jobs'[t] = job
        /\ \A u \in Workers \ {t} : Like(jobs[u], jobs'[u])
    BY <2>1, DisturbedIs DEF IInv
  <2>4. \A u \in Workers : Like(jobs[u], jobs'[u]) \/ jobs'[u].pc \notin {"list", "update", "write"}
    BY <2>2, <2>3
  <2>5. /\ DOMAIN servers' = DOMAIN servers
        /\ \A r \in DOMAIN servers : servers'[r].seq = servers[r].seq
    BY <1>2, <2>1
  <2>6. nextId' \in Nat /\ nextId <= nextId'
    BY <1>1, <2>1
  <2> QED BY <2>1, <2>4, <2>5, <2>6 DEF SameNumbers
<1>5. ASSUME NEW s \in DOMAIN servers, Edit(s)
      PROVE  SameNumbers
  <2>1. /\ UNCHANGED <<nextId, wanted, jobs>>
        /\ servers' = [servers EXCEPT ![s].edit = requests + 1]
    BY <1>5 DEF Edit
  <2>2. /\ DOMAIN servers' = DOMAIN servers
        /\ \A r \in DOMAIN servers : servers'[r].seq = servers[r].seq
    BY <1>2, <2>1
  <2>3. nextId' \in Nat /\ nextId <= nextId'
    BY <1>1, <2>1
  <2> QED BY <1>1, <2>1, <2>2, <2>3 DEF SameNumbers
<1>6. ASSUME NEW l \in locs, NEW d \in Descrs, SetLocationDescr(l, d)
      PROVE  SameNumbers
  <2>1. UNCHANGED <<servers, nextId, wanted, jobs>>
    BY <1>6 DEF SetLocationDescr
  <2>2. nextId' \in Nat /\ nextId <= nextId'
    BY <1>1, <2>1
  <2> QED BY <1>1, <2>1, <2>2 DEF SameNumbers
<1> QED BY <1>3, <1>4, <1>5, <1>6

LEMMA OtherOrder ==
    ASSUME IInv, OrderInv, SameNumbers
    PROVE  OrderInv'
<1>1. \A u \in Workers : Like(jobs[u], jobs'[u]) \/ ~Moving(u)'
  BY DEF SameNumbers, Moving
<1> QED BY <1>1, OrderStays DEF SameNumbers

\* A save draws a number.
LEMMA SaveIs ==
    ASSUME ServerAssumption, IInv, NEW t \in Workers,
           NEW s \in {0} \cup 1..NServers, NEW form \in Forms, Save(t, s, form)
    PROVE  /\ UNCHANGED <<servers, wanted>>
           /\ nextId' = IF s = 0 THEN nextId + 1 ELSE nextId
           /\ jobs'[t].pc = "write"
           /\ jobs'[t].seq = IF s = 0 THEN nextId ELSE 0
           /\ \A u \in Workers \ {t} : Like(jobs[u], jobs'[u])
<1> DEFINE seq == IF s = 0 THEN nextId ELSE 0
           job == [Resting EXCEPT !.pc = "write", !.sid = s, !.form = form,
                                  !.seq = seq]
<1>1. /\ UNCHANGED <<servers, wanted>> /\ jobs' = [jobs EXCEPT ![t] = job]
      /\ nextId' = IF s = 0 THEN nextId + 1 ELSE nextId
  BY DEF Save, Begin, hist
<1>2. job.pc = "write" /\ job.seq = seq
  BY DEF Resting
<1> HIDE DEF job
<1>3. jobs'[t] = job /\ \A u \in Workers \ {t} : Like(jobs[u], jobs'[u])
  BY <1>1, GotoIs DEF IInv
<1> QED BY <1>1, <1>2, <1>3

LEMMA SaveOrder ==
    ASSUME ServerAssumption, IInv, OrderInv, NEW t \in Workers,
           NEW s \in {0} \cup 1..NServers, NEW form \in Forms, Save(t, s, form)
    PROVE  OrderInv'
<1>1. /\ UNCHANGED <<servers, wanted>> /\ jobs'[t].pc = "write"
      /\ nextId' = nextId \/ nextId' = nextId + 1
      /\ \A u \in Workers \ {t} : Like(jobs[u], jobs'[u])
  BY SaveIs
<1>2. \A u \in Workers : Like(jobs[u], jobs'[u]) \/ ~Moving(u)'
  BY <1>1 DEF Moving
<1>3. nextId \in Nat
  BY DEF IInv, TypeInv
<1>4. nextId' \in Nat /\ nextId <= nextId'
  BY <1>1, <1>3
<1> QED BY <1>1, <1>2, <1>4, OrderStays

\* A new server stands behind those with a larger number.
LEMMA WriteNewOrder ==
    ASSUME ServerAssumption, IInv, NumberInv, OrderInv, NEW t \in Workers,
           WriteNew(t)
    PROVE  OrderInv'
<1> DEFINE seq == jobs[t].seq
           row == [seq |-> seq, edit |-> requests]
           job == [jobs[t] EXCEPT !.pc = "ids", !.sid = nextId]
<1>1. /\ servers' = Set(servers, nextId, row) /\ nextId' = nextId + 1
      /\ wanted' = IF seq = 0 \/ wanted = Unknown \/ Movers # {}
                   THEN Unknown
                   ELSE InsertAt(wanted, Cardinality(Above(seq)) + 1, nextId)
      /\ jobs' = [Startled EXCEPT ![t] = job] /\ jobs[t].pc = "write"
  BY DEF WriteNew
<1>2. /\ nextId \in Nat /\ \A s \in DOMAIN servers : s # nextId
      /\ \A s \in DOMAIN servers : servers[s].seq \in Nat
  BY DEF IInv, TypeInv, Settings
<1>3. job.pc = "ids"
  BY DEF IInv, TypeInv, JobFields
<1> HIDE DEF job
<1>4. \A u \in Workers : Moving(u)' => ~jobs'[u].alone
  <2>1. jobs'[t] = job /\ \A u \in Workers \ {t} : jobs'[u] = Startled[u]
    BY <1>1 DEF Startled
  <2> QED BY <1>3, <2>1, StartledMoves DEF Moving
<1>5. ListInv'
  <2>1. ASSUME wanted' # Unknown
        PROVE  /\ Lists(wanted', Numbers')
               /\ \A s \in DOMAIN servers' : /\ servers'[s].seq # 0
                                             /\ servers'[s].seq < nextId'
    <3>1. /\ seq # 0 /\ wanted # Unknown
          /\ wanted' = InsertAt(wanted, Cardinality(Above(seq)) + 1, nextId)
      BY <1>1, <2>1
    <3>2. /\ DOMAIN servers' = DOMAIN servers \cup {nextId}
          /\ servers'[nextId].seq = seq
          /\ \A s \in DOMAIN servers : servers'[s] = servers[s]
      BY <1>1, <1>2, <3>1 DEF Set
    <3>3. /\ Lists(wanted, Numbers)
          /\ \A s \in DOMAIN servers : /\ servers[s].seq # 0
                                       /\ servers[s].seq < nextId
      BY <3>1 DEF OrderInv, ListInv
    <3>4. /\ seq \in Nat /\ seq < nextId
          /\ \A s \in DOMAIN servers : servers[s].seq # seq
      <4>1. Drawn(t, seq)
        BY <1>1, <3>1 DEF Drawn
      <4> QED BY <4>1 DEF NumberInv, InUse
    <3>5. PICK key, more, list, new, k : /\ key = Numbers /\ more = Numbers'
                                         /\ list = wanted /\ new = nextId
                                         /\ k = Cardinality(Above(seq))
      OBVIOUS
    <3>6. /\ DOMAIN more = DOMAIN key \cup {new} /\ more[new] \in Nat
          /\ \A s \in DOMAIN key : /\ key[s] \in Nat /\ more[s] = key[s]
                                   /\ more[new] # key[s]
      BY <1>2, <3>2, <3>4, <3>5 DEF Numbers
    <3>7. k = Cardinality({s \in DOMAIN key : key[s] > more[new]})
      <4>1. Above(seq) = {s \in DOMAIN key : key[s] > more[new]}
        <5>1. more[new] = seq
          BY <3>2, <3>5 DEF Numbers
        <5>2. DOMAIN key = DOMAIN servers
              /\ \A s \in DOMAIN servers : key[s] = servers[s].seq
          BY <3>5 DEF Numbers
        <5> QED BY <5>1, <5>2 DEF Above
      <4> QED BY <3>5, <4>1
    <3>8. Lists(InsertAt(list, k + 1, new), more)
      BY <3>3, <3>5, <3>6, <3>7, ListsMore
    <3>9. \A s \in DOMAIN servers' : /\ servers'[s].seq # 0
                                     /\ servers'[s].seq < nextId'
      BY <1>1, <1>2, <3>1, <3>2, <3>3, <3>4
    <3> QED BY <3>1, <3>5, <3>8, <3>9
  <2> QED BY <2>1 DEF ListInv, Unknown
<1> QED BY <1>4, <1>5, StartledOrder

LEMMA EditGoneOrder ==
    ASSUME ServerAssumption, IInv, OrderInv, NEW s \in 1..NServers, EditGone(s)
    PROVE  OrderInv'
<1>1. jobs' = Startled /\ wanted' = Unknown
  BY DEF EditGone
<1>2. \A u \in Workers : Moving(u)' => ~jobs'[u].alone
  BY <1>1, StartledMoves DEF Moving
<1>3. ListInv'
  BY <1>1 DEF ListInv, Unknown
<1> QED BY <1>2, <1>3, StartledOrder

\* A deletion leaves the others where they are.
LEMMA DelOrder ==
    ASSUME ServerAssumption, IInv, OrderInv, NEW t \in Workers,
           NEW s \in DOMAIN servers, Del(t, s)
    PROVE  OrderInv'
<1> DEFINE job == [Resting EXCEPT !.pc = "delLocs", !.sid = s]
<1>1. /\ servers' = [r \in DOMAIN servers \ {s} |-> servers[r]]
      /\ nextId' = nextId
      /\ wanted' = IF wanted = Unknown \/ Movers # {} THEN Unknown
                   ELSE RemoveAt(wanted, Place(s))
      /\ jobs' = [u \in Workers |->
                    IF u = t THEN job
                    ELSE IF Busy(u, s) \/ Moving(u)
                         THEN [jobs[u] EXCEPT !.alone = FALSE] ELSE jobs[u]]
  BY DEF Del
<1>2. job.pc = "delLocs"
  BY DEF Resting
<1> HIDE DEF job
<1>3. \A u \in Workers : Moving(u)' => ~jobs'[u].alone
  BY <1>1, <1>2, LikeWithout DEF Moving, IInv
<1>4. ListInv'
  <2>1. ASSUME wanted' # Unknown
        PROVE  /\ Lists(wanted', Numbers')
               /\ \A r \in DOMAIN servers' : /\ servers'[r].seq # 0
                                             /\ servers'[r].seq < nextId'
    <3>1. wanted # Unknown /\ wanted' = RemoveAt(wanted, Place(s))
      BY <1>1, <2>1
    <3>2. /\ Lists(wanted, Numbers)
          /\ \A r \in DOMAIN servers : /\ servers[r].seq # 0
                                       /\ servers[r].seq < nextId
      BY <3>1 DEF OrderInv, ListInv
    <3>3. /\ DOMAIN Numbers = DOMAIN servers
          /\ \A r \in DOMAIN Numbers : Numbers[r] \in Nat
      BY NumbersAre
    <3>4. Place(s) \in DOMAIN wanted /\ wanted[Place(s)] = s
      <4>1. \E i \in DOMAIN wanted : wanted[i] = s
        BY <3>2, <3>3 DEF Lists, Covers
      <4> QED BY <4>1 DEF Place
    <3>5. /\ DOMAIN Numbers' = DOMAIN Numbers \ {s}
          /\ \A r \in DOMAIN Numbers' : Numbers'[r] = Numbers[r]
      BY <1>1 DEF Numbers
    <3>6. PICK key, less, i : key = Numbers /\ less = Numbers' /\ i = Place(s)
      OBVIOUS
    <3>7. Lists(RemoveAt(wanted, i), less)
      <4>1. Lists(wanted, key) /\ i \in DOMAIN wanted /\ wanted[i] = s
        BY <3>2, <3>4, <3>6
      <4>2. /\ DOMAIN less = DOMAIN key \ {wanted[i]}
            /\ \A x \in DOMAIN less : less[x] = key[x]
        BY <3>5, <3>6, <4>1
      <4>3. \A x \in DOMAIN key : key[x] \in Nat
        BY <3>3, <3>6
      <4>4. PICK list : list = wanted
        OBVIOUS
      <4>5. Lists(RemoveAt(list, i), less)
        BY <4>1, <4>2, <4>3, <4>4, ListsLess
      <4> QED BY <4>4, <4>5
    <3> QED BY <1>1, <3>1, <3>2, <3>6, <3>7
  <2> QED BY <2>1 DEF ListInv, Unknown
<1> QED BY <1>3, <1>4, StartledOrder

LEMMA MoveOrder ==
    ASSUME ServerAssumption, IInv, OrderInv, NEW t \in Workers,
           NEW s \in DOMAIN servers, Move(t, s)
    PROVE  OrderInv'
<1> DEFINE job == [Resting EXCEPT !.pc = "list", !.alone = Movers = {},
                                  !.rows = <<WithId(s, servers[s])>>]
<1>1. /\ UNCHANGED <<servers, wanted, nextId>> /\ jobs[t] = Resting
      /\ jobs' = [Startled EXCEPT ![t] = job]
  BY DEF Move, storeRows, hist
<1>2. /\ job.pc = "list" /\ (job.alone => Movers = {})
      /\ job.rows[1].id = s /\ job.rows[1].row = servers[s]
  BY DEF Resting, WithId
<1> HIDE DEF job
<1>3. /\ jobs'[t] = job
      /\ \A u \in Workers \ {t} : /\ jobs'[u] = Startled[u]
                                  /\ Like(jobs[u], jobs'[u])
  BY <1>1, StartledIs DEF IInv, Startled
<1>4. \A u \in Workers \ {t} : Moving(u)' => ~jobs'[u].alone /\ Moving(u)
  BY <1>3, StartledMoves DEF Moving, Like
<1>5. ListInv'
  BY <1>1 DEF OrderInv, ListInv, Numbers
<1>6. MoverInv'
  <2>1. ASSUME NEW u \in Workers, Moving(u)', jobs'[u].alone
        PROVE  u = t
    BY <1>4, <2>1
  <2>2. jobs'[t].alone => \A u \in Workers : Moving(u)' => u = t
    BY <1>2, <1>3, <1>4 DEF Movers
  <2>3. jobs'[t].pc = "list" /\ jobs'[t].rows[1].id \in DOMAIN servers'
        /\ jobs'[t].rows[1].row.seq = servers'[jobs'[t].rows[1].id].seq
    BY <1>1, <1>2, <1>3
  <2> QED BY <2>1, <2>2, <2>3 DEF MoverInv, Moving
<1> QED BY <1>5, <1>6 DEF OrderInv

LEMMA ListsSame ==
    ASSUME NEW key, NEW other, NEW list, Lists(list, key),
           DOMAIN other = DOMAIN key, \A x \in DOMAIN key : other[x] = key[x]
    PROVE  Lists(list, other)
<1>1. DOMAIN list = 1..Len(list) /\ list \in [1..Len(list) -> DOMAIN key]
  BY SeqLen DEF Lists
<1>2. Descends(list, other)
  BY <1>1 DEF Lists, Descends
<1> QED BY <1>2 DEF Lists

\* What is next above or below an element stands next to it.
LEMMA NextAbove ==
    ASSUME NEW key, NEW list, Lists(list, key),
           \A x \in DOMAIN key : key[x] \in Nat,
           NEW i \in DOMAIN list, NEW r \in DOMAIN key, key[r] > key[list[i]],
           \A q \in DOMAIN key : key[q] > key[list[i]] => key[r] <= key[q]
    PROVE  i - 1 \in DOMAIN list /\ list[i - 1] = r
<1> DEFINE n == Len(list)
<1>1. n \in Nat /\ DOMAIN list = 1..n /\ list \in [1..n -> DOMAIN key]
  BY SeqLen DEF Lists
<1> HIDE DEF n
<1>2. PICK k \in 1..n : list[k] = r
  BY <1>1 DEF Lists, Covers
<1>3. \A j \in 1..n : list[j] \in DOMAIN key /\ key[list[j]] \in Nat
  BY <1>1
<1>4. k < i
  BY <1>1, <1>2, <1>3 DEF Lists, Descends
<1>5. i - 1 \in 1..n /\ i - 1 < i /\ ~(k < i - 1)
  <2>1. i - 1 \in 1..n /\ i - 1 < i
    BY <1>1, <1>4
  <2>2. key[list[i - 1]] > key[list[i]]
    BY <1>1, <2>1 DEF Lists, Descends
  <2>3. key[list[k]] <= key[list[i - 1]]
    BY <1>2, <1>3, <2>1, <2>2
  <2>4. k < i - 1 => key[list[k]] > key[list[i - 1]]
    BY <1>1, <2>1 DEF Lists, Descends
  <2> QED BY <1>3, <2>1, <2>3, <2>4
<1>6. k = i - 1
  BY <1>1, <1>4, <1>5
<1> QED BY <1>1, <1>2, <1>5, <1>6

LEMMA NextBelow ==
    ASSUME NEW key, NEW list, Lists(list, key),
           \A x \in DOMAIN key : key[x] \in Nat,
           NEW i \in DOMAIN list, NEW r \in DOMAIN key, key[r] < key[list[i]],
           \A q \in DOMAIN key : key[q] < key[list[i]] => key[q] <= key[r]
    PROVE  i + 1 \in DOMAIN list /\ list[i + 1] = r
<1> DEFINE n == Len(list)
<1>1. n \in Nat /\ DOMAIN list = 1..n /\ list \in [1..n -> DOMAIN key]
  BY SeqLen DEF Lists
<1> HIDE DEF n
<1>2. PICK k \in 1..n : list[k] = r
  BY <1>1 DEF Lists, Covers
<1>3. \A j \in 1..n : list[j] \in DOMAIN key /\ key[list[j]] \in Nat
  BY <1>1
<1>4. i < k
  BY <1>1, <1>2, <1>3 DEF Lists, Descends
<1>5. i + 1 \in 1..n /\ i < i + 1 /\ ~(i + 1 < k)
  <2>1. i + 1 \in 1..n /\ i < i + 1
    BY <1>1, <1>4
  <2>2. key[list[i]] > key[list[i + 1]]
    BY <1>1, <2>1 DEF Lists, Descends
  <2>3. key[list[i + 1]] <= key[list[k]]
    BY <1>2, <1>3, <2>1, <2>2
  <2>4. i + 1 < k => key[list[i + 1]] > key[list[k]]
    BY <1>1, <2>1 DEF Lists, Descends
  <2> QED BY <1>3, <2>1, <2>3, <2>4
<1>6. k = i + 1
  BY <1>1, <1>4, <1>5
<1> QED BY <1>1, <1>2, <1>5, <1>6

\* The target of a move is the neighbour of its server.
LEMMA TargetIs ==
    ASSUME IInv, OrderInv, wanted # Unknown, NEW s \in DOMAIN servers,
           NEW up \in BOOLEAN, NEW r \in Targets(servers[s].seq, up)
    PROVE  LET i == Place(s)
               j == IF up THEN i - 1 ELSE i + 1
           IN  /\ {i, j} \subseteq DOMAIN wanted /\ i # j
               /\ wanted[i] = s /\ wanted[j] = r
<1> DEFINE i == Place(s)
<1>1. /\ Lists(wanted, Numbers)
      /\ \A x \in DOMAIN servers : servers[x].seq # 0
  BY DEF OrderInv, ListInv
<1>2. /\ DOMAIN Numbers = DOMAIN servers
      /\ \A x \in DOMAIN servers : /\ Numbers[x] = servers[x].seq
                                   /\ Numbers[x] \in Nat
  BY NumbersAre
<1>3. i \in DOMAIN wanted /\ wanted[i] = s
  <2>1. \E k \in DOMAIN wanted : wanted[k] = s
    BY <1>1, <1>2 DEF Lists, Covers
  <2> QED BY <2>1 DEF Place
<1> HIDE DEF i
<1>4. PICK key, list : key = Numbers /\ list = wanted
  OBVIOUS
<1>5. /\ Lists(list, key) /\ i \in DOMAIN list /\ list[i] = s
      /\ \A x \in DOMAIN key : key[x] \in Nat
      /\ r \in DOMAIN servers /\ DOMAIN key = DOMAIN servers
      /\ \A x \in DOMAIN servers : key[x] = servers[x].seq
  BY <1>1, <1>2, <1>3, <1>4 DEF Targets, Beyond
<1>6. i \in Nat
  BY <1>5, SeqLen DEF Lists
<1>7. CASE up
  <2>1. key[r] > key[list[i]]
    BY <1>5, <1>7 DEF Targets, Beyond
  <2>2. \A q \in DOMAIN key : key[q] > key[list[i]] => key[r] <= key[q]
    BY <1>1, <1>5, <1>7 DEF Targets, Beyond
  <2>3. i - 1 \in DOMAIN list /\ list[i - 1] = r
    BY <1>5, <2>1, <2>2, NextAbove
  <2> QED BY <1>4, <1>5, <1>6, <1>7, <2>3 DEF i
<1>8. CASE ~up
  <2>1. key[r] < key[list[i]]
    BY <1>5, <1>8 DEF Targets, Beyond
  <2>2. \A q \in DOMAIN key : key[q] < key[list[i]] => key[q] <= key[r]
    BY <1>1, <1>5, <1>8 DEF Targets, Beyond
  <2>3. i + 1 \in DOMAIN list /\ list[i + 1] = r
    BY <1>5, <2>1, <2>2, NextBelow
  <2> QED BY <1>4, <1>5, <1>6, <1>8, <2>3 DEF i
<1> QED BY <1>7, <1>8

LEMMA ChooseTargetOrder ==
    ASSUME ServerAssumption, IInv, OrderInv, NEW t \in Workers, ChooseTarget(t)
    PROVE  OrderInv'
<1> DEFINE s == jobs[t].rows[1].id
           row == jobs[t].rows[1].row
<1>1. /\ jobs[t].pc = "list" /\ UNCHANGED <<servers, wanted, nextId>>
  BY SMTT(30) DEF ChooseTarget, storeRows, hist
<1>2. PICK up \in BOOLEAN, r \in DOMAIN servers :
         /\ r \in Targets(row.seq, up)
         /\ jobs' = [jobs EXCEPT ![t] = [jobs[t] EXCEPT
               !.pc = "update", !.order = AfterMove(s, up),
               !.rows = <<WithId(r, Exchanged(servers[r], row)),
                          WithId(s, Exchanged(row, servers[r]))>>]]
  BY DEF ChooseTarget, Goto, Targets, Beyond
<1> DEFINE rows == <<WithId(r, Exchanged(servers[r], row)),
                     WithId(s, Exchanged(row, servers[r]))>>
           job == [jobs[t] EXCEPT !.pc = "update", !.order = AfterMove(s, up),
                                  !.rows = rows]
<1>3. /\ job.pc = "update" /\ job.alone = jobs[t].alone
      /\ job.order = AfterMove(s, up) /\ job.rows = rows
  BY DEF IInv, TypeInv, JobFields
<1>4. /\ jobs' = [jobs EXCEPT ![t] = job] /\ DOMAIN jobs = Workers
  BY <1>2 DEF IInv, TypeInv
<1> HIDE DEF job, rows
<1>5. jobs'[t] = job /\ \A u \in Workers \ {t} : jobs'[u] = jobs[u]
  BY <1>4
<1>6. Moving(t) /\ \A u \in Workers : /\ Moving(u)' <=> Moving(u)
                                      /\ jobs'[u].alone = jobs[u].alone
  BY <1>1, <1>3, <1>5 DEF Moving
<1>7. Numbers' = Numbers /\ ListInv'
  BY <1>1 DEF OrderInv, ListInv, Numbers
<1>8. ASSUME jobs[t].alone, AfterMove(s, up) # Unknown
      PROVE  Prepared(rows, Numbers, AfterMove(s, up), nextId)
  <2>1. wanted # Unknown
    BY <1>8 DEF AfterMove
  <2>2. s \in DOMAIN servers /\ row.seq = servers[s].seq
    BY <1>1, <1>6, <1>8 DEF OrderInv, MoverInv
  <2>3. PICK i, j : /\ i = Place(s) /\ j = IF up THEN i - 1 ELSE i + 1
    OBVIOUS
  <2>4. /\ i \in DOMAIN wanted /\ j \in DOMAIN wanted /\ i # j
        /\ wanted[i] = s /\ wanted[j] = r
    BY <1>2, <2>1, <2>2, <2>3, TargetIs
  <2>5. AfterMove(s, up) = [wanted EXCEPT ![i] = wanted[j], ![j] = s]
    BY <2>1, <2>3 DEF AfterMove
  <2>6. PICK key, list, order : /\ key = Numbers /\ list = wanted
                                /\ order = AfterMove(s, up)
    OBVIOUS
  <2>7. /\ Lists(list, key) /\ DOMAIN key = DOMAIN servers
        /\ \A x \in DOMAIN key : /\ key[x] \in Nat /\ key[x] # 0
                                 /\ key[x] < nextId
                                 /\ key[x] = servers[x].seq
    BY <2>1, <2>6, NumbersAre DEF OrderInv, ListInv
  <2> DEFINE other == [x \in DOMAIN key |-> IF x = s THEN key[r]
                                            ELSE IF x = r THEN key[s]
                                            ELSE key[x]]
  <2>8. Lists(order, other)
    <3>1. order = [list EXCEPT ![i] = r, ![j] = s]
      BY <2>4, <2>5, <2>6
    <3>2. PICK a, b : a = s /\ b = r
      OBVIOUS
    <3>3. /\ i \in DOMAIN list /\ j \in DOMAIN list
          /\ a = list[i] /\ b = list[j]
      BY <2>4, <2>6, <3>2
    <3>4. Lists([list EXCEPT ![i] = b, ![j] = a],
                [x \in DOMAIN key |-> IF x = a THEN key[b]
                                      ELSE IF x = b THEN key[a] ELSE key[x]])
      BY <2>4, <2>7, <3>3, ListsSwapped
    <3> QED BY <3>1, <3>2, <3>4
  <2>9. r \in DOMAIN servers /\ r # s
    <3>1. r \in DOMAIN servers /\ servers[r].seq # row.seq
      <4>1. row.seq \in Nat /\ servers[r].seq \in Nat
        BY <1>2, <2>2, <2>7
      <4>2. servers[r].seq > row.seq \/ servers[r].seq < row.seq
        BY <1>2 DEF Targets, Beyond
      <4> QED BY <1>2, <4>1, <4>2
    <3> QED BY <2>2, <3>1
  <2>10. /\ DOMAIN other = DOMAIN key
         /\ other[s] = key[r] /\ other[r] = key[s]
         /\ \A x \in DOMAIN key \ {r, s} : other[x] = key[x]
    BY <2>2, <2>7, <2>9
  <2> HIDE DEF other
  <2>11. \A x \in DOMAIN other : /\ other[x] \in Nat /\ other[x] # 0
                                 /\ other[x] < nextId
    BY <2>2, <2>7, <2>9, <2>10
  <2>12. /\ DOMAIN rows = 1..2 /\ rows[1].id = r /\ rows[2].id = s
         /\ rows[1].row.seq = row.seq /\ rows[2].row.seq = servers[r].seq
    <3>1. /\ Exchanged(servers[r], row).seq = row.seq
          /\ Exchanged(row, servers[r]).seq = servers[r].seq
      <4>1. servers[r] \in Settings
        BY <2>9 DEF IInv, TypeInv
      <4>2. row \in Settings
        <5>1. jobs[t].rows \in Seq(Entries) /\ jobs[t].rows # <<>>
          BY <1>6 DEF IInv, HeldInv
        <5>2. jobs[t].rows[1] \in Entries
          BY <5>1
        <5> QED BY <5>2 DEF Entries
      <4> QED BY <4>1, <4>2 DEF Exchanged, Settings
    <3> QED BY <3>1 DEF rows, WithId
  <2>13. \A x \in DOMAIN other :
            (\A k \in DOMAIN rows : rows[k].id # x) => other[x] = key[x]
    BY <2>10, <2>12
  <2>14. \A k \in DOMAIN rows : /\ rows[k].id \in DOMAIN other
                                /\ other[rows[k].id] = rows[k].row.seq
    <3>1. \A k \in DOMAIN rows : k = 1 \/ k = 2
      BY <2>12
    <3> QED BY <2>2, <2>7, <2>9, <2>10, <2>12, <3>1
  <2>15. Prepared(rows, key, order, nextId)
    BY <2>8, <2>10, <2>11, <2>13, <2>14 DEF Prepared
  <2> QED BY <2>6, <2>15
<1>9. ASSUME NEW u \in Workers, Moving(u)', jobs'[u].alone
      PROVE  /\ \A v \in Workers : Moving(v)' => v = u
             /\ jobs'[u].pc = "list" =>
                   LET held == jobs'[u].rows[1]
                   IN  /\ held.id \in DOMAIN servers'
                       /\ held.row.seq = servers'[held.id].seq
             /\ jobs'[u].pc = "update" /\ jobs'[u].order # Unknown =>
                   Prepared(jobs'[u].rows, Numbers', jobs'[u].order, nextId')
  <2>1. \A v \in Workers : Moving(v)' => v = u
    BY <1>6, <1>9 DEF OrderInv, MoverInv
  <2>2. u = t
    BY <1>6, <2>1
  <2>3. jobs'[u].alone /\ jobs'[u] = job /\ jobs[t].alone
    BY <1>5, <1>6, <1>9, <2>2
  <2>4. job.order # Unknown => Prepared(job.rows, Numbers', job.order, nextId')
    BY <1>1, <1>3, <1>7, <1>8, <2>3
  <2> QED BY <1>3, <2>1, <2>3, <2>4
<1>10. MoverInv'
  BY <1>9 DEF MoverInv, Moving
<1> QED BY <1>7, <1>10 DEF OrderInv

\* What is left to write, when the head has been written.
LEMMA PreparedTail ==
    ASSUME NEW E, NEW rows \in Seq(E), rows # <<>>, NEW numbers, NEW order,
           NEW n, Prepared(rows, numbers, order, n), NEW new,
           DOMAIN new = DOMAIN numbers,
           \A x \in DOMAIN numbers \ {rows[1].id} : new[x] = numbers[x],
           rows[1].id \in DOMAIN numbers => new[rows[1].id] = rows[1].row.seq
    PROVE  Prepared(Tail(rows), new, order, n)
<1>1. PICK key :
         /\ DOMAIN key = DOMAIN numbers /\ Lists(order, key)
         /\ \A x \in DOMAIN key : key[x] \in Nat /\ key[x] # 0 /\ key[x] < n
         /\ \A x \in DOMAIN key :
               (\A i \in DOMAIN rows : rows[i].id # x) => key[x] = numbers[x]
         /\ \A i \in DOMAIN rows : /\ rows[i].id \in DOMAIN key
                                   /\ key[rows[i].id] = rows[i].row.seq
  BY DEF Prepared
<1>2. /\ Len(rows) \in Nat /\ 1 \in DOMAIN rows
      /\ DOMAIN rows = 1..Len(rows) /\ DOMAIN Tail(rows) = 1..Len(rows) - 1
      /\ \A i \in 1..Len(rows) - 1 : Tail(rows)[i] = rows[i + 1]
  <2>1. /\ Tail(rows) \in Seq(E) /\ Len(Tail(rows)) = Len(rows) - 1
        /\ Len(rows) \in Nat \ {0}
    OBVIOUS
  <2>2. DOMAIN Tail(rows) = 1..Len(rows) - 1 /\ DOMAIN rows = 1..Len(rows)
    BY <2>1, SeqLen
  <2>3. \A i \in 1..Len(rows) - 1 : Tail(rows)[i] = rows[i + 1]
    BY <2>1
  <2> QED BY <2>1, <2>2, <2>3
<1> DEFINE rest == Tail(rows)
<1> HIDE DEF rest
<1>3. ASSUME NEW i \in DOMAIN rows, i # 1
      PROVE  \E k \in DOMAIN rest : rest[k] = rows[i]
  <2>1. i - 1 \in 1..Len(rows) - 1 /\ (i - 1) + 1 = i
    BY <1>2, <1>3
  <2> QED BY <1>2, <2>1 DEF rest
<1>4. ASSUME NEW x \in DOMAIN key, \A k \in DOMAIN rest : rest[k].id # x
      PROVE  key[x] = new[x]
  <2>1. CASE x = rows[1].id
    BY <1>1, <1>2, <2>1
  <2>2. CASE x # rows[1].id
    <3>1. \A i \in DOMAIN rows : rows[i].id # x
      BY <1>3, <1>4, <2>2
    <3> QED BY <1>1, <2>2, <3>1
  <2> QED BY <2>1, <2>2
<1>5. ASSUME NEW k \in DOMAIN rest
      PROVE  rest[k].id \in DOMAIN key /\ key[rest[k].id] = rest[k].row.seq
  <2>1. k + 1 \in DOMAIN rows /\ rest[k] = rows[k + 1]
    BY <1>2 DEF rest
  <2> QED BY <1>1, <2>1
<1>6. Prepared(rest, new, order, n)
  BY <1>1, <1>4, <1>5 DEF Prepared
<1> QED BY <1>6 DEF rest

LEMMA UpdateRowOrder ==
    ASSUME ServerAssumption, IInv, OrderInv, NEW t \in Workers, UpdateRow(t)
    PROVE  OrderInv'
<1> DEFINE rows == jobs[t].rows
           s == Head(rows).id
           row == Head(rows).row
           rest == Tail(rows)
           id == IF s \in DOMAIN servers THEN s ELSE nextId
           job == IF rest # <<>> THEN [jobs[t] EXCEPT !.rows = rest]
                  ELSE Resting
<1>1. /\ jobs[t].pc = "update" /\ servers' = Set(servers, id, row)
      /\ nextId' = IF id = s THEN nextId ELSE nextId + 1
      /\ rest # <<>> => wanted' = Unknown
      /\ rest = <<>> => wanted' = IF jobs[t].alone THEN jobs[t].order
                                  ELSE Unknown
      /\ jobs' = [jobs EXCEPT ![t] = job]
  BY DEF UpdateRow, Goto
<1>2. rows \in Seq(Entries) /\ rows # <<>> /\ Head(rows) = rows[1]
  <2>1. rows \in Seq(Entries) /\ rows # <<>>
    BY <1>1 DEF IInv, HeldInv, Moving
  <2> QED BY <2>1
<1>3. DOMAIN jobs = Workers /\ DOMAIN jobs[t] = JobFields
  BY DEF IInv, TypeInv
<1>4. /\ rest # <<>> => /\ job.pc = "update" /\ job.alone = jobs[t].alone
                        /\ job.order = jobs[t].order /\ job.rows = rest
      /\ rest = <<>> => job.pc = "idle"
  <2>1. CASE rest # <<>>
    <3>1. job = [jobs[t] EXCEPT !.rows = rest]
      BY <2>1
    <3> HIDE DEF rest
    <3> QED BY <1>1, <1>3, <2>1, <3>1 DEF JobFields
  <2>2. CASE rest = <<>>
    BY <2>2, RestingIs
  <2> QED BY <2>1, <2>2
<1> HIDE DEF job
<1>5. jobs'[t] = job /\ \A u \in Workers \ {t} : jobs'[u] = jobs[u]
  BY <1>1, <1>3
<1>6. Moving(t) /\ \A u \in Workers : Moving(u)' => Moving(u)
  BY <1>1, <1>5 DEF Moving
<1>7. ASSUME NEW u \in Workers \ {t}
      PROVE  ~(Moving(u)' /\ jobs'[u].alone)
  BY <1>5, <1>6 DEF OrderInv, MoverInv
<1>8. ASSUME jobs[t].alone, jobs[t].order # Unknown
      PROVE  /\ Prepared(rest, Numbers', jobs[t].order, nextId')
             /\ DOMAIN servers' = DOMAIN servers
  <2>1. Prepared(rows, Numbers, jobs[t].order, nextId)
    BY <1>1, <1>6, <1>8 DEF OrderInv, MoverInv
  <2>2. DOMAIN Numbers = DOMAIN servers
    BY NumbersAre
  <2>3. s \in DOMAIN servers
    <3>1. 1 \in DOMAIN rows
      BY <1>2
    <3> QED BY <1>2, <2>1, <2>2, <3>1 DEF Prepared
  <2>4. /\ DOMAIN servers' = DOMAIN servers /\ servers'[s] = row
        /\ \A x \in DOMAIN servers \ {s} : servers'[x] = servers[x]
        /\ nextId' = nextId
    BY <1>1, <2>3 DEF Set
  <2>5. /\ DOMAIN Numbers' = DOMAIN Numbers /\ Numbers'[s] = row.seq
        /\ \A x \in DOMAIN Numbers \ {s} : Numbers'[x] = Numbers[x]
    BY <2>3, <2>4 DEF Numbers
  <2>6. PICK list, key, new, order : /\ list = rows /\ key = Numbers
                                     /\ new = Numbers' /\ order = jobs[t].order
    OBVIOUS
  <2>7. /\ list \in Seq(Entries) /\ list # <<>>
        /\ Prepared(list, key, order, nextId)
        /\ DOMAIN new = DOMAIN key /\ new[list[1].id] = list[1].row.seq
        /\ \A x \in DOMAIN key \ {list[1].id} : new[x] = key[x]
    BY <1>2, <2>1, <2>5, <2>6
  <2>8. Prepared(Tail(list), new, order, nextId)
    BY <2>7, PreparedTail
  <2> QED BY <2>4, <2>6, <2>8
<1>9. ListInv'
  <2>1. ASSUME wanted' # Unknown
        PROVE  /\ Lists(wanted', Numbers')
               /\ \A x \in DOMAIN servers' : /\ servers'[x].seq # 0
                                             /\ servers'[x].seq < nextId'
    <3>1. rest = <<>> /\ jobs[t].alone /\ wanted' = jobs[t].order
      BY <1>1, <2>1
    <3>2. Prepared(<<>>, Numbers', wanted', nextId')
      BY <1>8, <2>1, <3>1
    <3>3. PICK key :
             /\ DOMAIN key = DOMAIN Numbers' /\ Lists(wanted', key)
             /\ \A x \in DOMAIN key : key[x] # 0 /\ key[x] < nextId'
             /\ \A x \in DOMAIN key : key[x] = Numbers'[x]
      BY <3>2 DEF Prepared
    <3>4. PICK new, list : new = Numbers' /\ list = wanted'
      OBVIOUS
    <3>5. Lists(list, new)
      BY <3>3, <3>4, ListsSame
    <3>6. /\ DOMAIN Numbers' = DOMAIN servers'
          /\ \A x \in DOMAIN servers' : Numbers'[x] = servers'[x].seq
      BY DEF Numbers
    <3> QED BY <3>3, <3>4, <3>5, <3>6
  <2> QED BY <2>1 DEF ListInv, Unknown
<1>10. ASSUME Moving(t)', jobs'[t].alone
       PROVE  /\ \A v \in Workers : Moving(v)' => v = t
              /\ jobs'[t].pc = "update"
              /\ jobs'[t].order # Unknown =>
                   Prepared(jobs'[t].rows, Numbers', jobs'[t].order, nextId')
  <2>1. rest # <<>> /\ jobs[t].alone
    BY <1>4, <1>5, <1>10 DEF Moving
  <2>2. \A v \in Workers : Moving(v)' => v = t
    BY <1>6, <2>1 DEF OrderInv, MoverInv
  <2> QED BY <1>4, <1>5, <1>8, <2>1, <2>2
<1>11. MoverInv'
  BY <1>7, <1>10 DEF MoverInv, Moving
<1> QED BY <1>9, <1>11 DEF OrderInv

-----------------------------------------------------------------------------
(* The beginning.                                                          *)

LEMMA FormInit ==
    ASSUME NEW form, NEW place, NEW value,
           \/ form = [params |-> <<>>, locs |-> <<>>]
           \/ form = [params |-> <<>>,
                      locs |-> <<[place |-> place, params |-> <<value>>]>>]
    PROVE  IsForm(form)
<1>1. CASE form = [params |-> <<>>, locs |-> <<>>]
  <2>1. Range(<<>>) = {}
    BY DEF Range
  <2> QED BY <1>1, <2>1 DEF IsForm
<1>2. CASE form = [params |-> <<>>,
                   locs |-> <<[place |-> place, params |-> <<value>>]>>]
  <2> DEFINE box == [place |-> place, params |-> <<value>>]
  <2>1. Range(<<>>) = {} /\ Range(<<value>>) = {value}
    BY DEF Range
  <2>2. <<>> \in Seq({}) /\ <<value>> \in Seq({value})
    OBVIOUS
  <2>3. PICK T : T = Seq(Range(<<value>>))
    OBVIOUS
  <2>4. <<value>> \in T
    BY <2>1, <2>2, <2>3
  <2>5. /\ box.place = place /\ box.params = <<value>>
        /\ box \in [place : {place}, params : T]
    BY <2>4
  <2>6. form.params = <<>> /\ form.locs = <<box>>
    BY <1>2
  <2> HIDE DEF box
  <2>7. Range(<<box>>) = {box} /\ <<box>> \in Seq({box})
    BY DEF Range
  <2>8. box \in [place : {box.place}, params : Seq(Range(box.params))]
    BY <2>3, <2>5
  <2>9. form \in [params : Seq(Range(form.params)),
                  locs : Seq(Range(form.locs))]
    <3>1. PICK U, V : U = Seq(Range(form.params)) /\ V = Seq(Range(form.locs))
      OBVIOUS
    <3>2. <<>> \in U /\ <<box>> \in V
      BY <2>1, <2>2, <2>6, <2>7, <3>1
    <3>3. form \in [params : U, locs : V]
      BY <1>2, <3>2 DEF box
    <3> QED BY <3>1, <3>3
  <2> QED BY <2>6, <2>7, <2>8, <2>9 DEF IsForm
<1> QED BY <1>1, <1>2

LEMMA PageInit ==
    ASSUME ServerAssumption, Init
    PROVE  PageInv
<1> DEFINE box == [place |-> FirstPlace, params |-> <<FirstParam>>]
           loc == [id |-> NServers + 1, server |-> 1, place |-> FirstPlace,
                   descr |-> NoDescr]
           p == [id |-> NServers + 2, owner |-> NServers + 1,
                 value |-> FirstParam]
<1>1. /\ NServers \in Nat /\ nextId = NServers + 3 /\ NServers > 0
      /\ locs = {loc} /\ params = {p} /\ DOMAIN servers = 1..NServers
      /\ \A t \in Workers : jobs[t] = Resting
      /\ shown = [s \in 1..NServers |-> [params |-> <<>>, locs |->
                    IF s > 1 THEN <<>> ELSE <<box>>]]
  BY DEF Init, ServerAssumption
<1>2. /\ loc.id = NServers + 1 /\ loc.server = 1 /\ loc.place = FirstPlace
      /\ p.id = NServers + 2 /\ p.owner = NServers + 1 /\ p.value = FirstParam
      /\ box.place = FirstPlace /\ box.params = <<FirstParam>>
  OBVIOUS
<1>3. /\ DOMAIN shown = 1..NServers
      /\ \A s \in 1..NServers : /\ shown[s].params = <<>>
                                /\ s # 1 => shown[s].locs = <<>>
                                /\ s = 1 => shown[s].locs = <<box>>
  BY <1>1
<1>4. \A s \in 1..NServers : IsForm(shown[s])
  <2>1. ASSUME NEW s \in 1..NServers
        PROVE  \/ shown[s] = [params |-> <<>>, locs |-> <<>>]
               \/ shown[s] = [params |-> <<>>,
                              locs |-> <<[place |-> FirstPlace,
                                          params |-> <<FirstParam>>]>>]
    BY <1>1
  <2> QED BY <2>1, FormInit
<1> HIDE DEF box, loc, p
<1>5. RowsInv
  BY <1>1, <1>2, <1>3 DEF RowsInv
<1>6. JobsInv
  BY <1>1, OtherJob, RestingIs DEF JobsInv
<1>7. \A s \in 1..NServers : Has(params, s, <<>>)
  <2>1. \A s \in 1..NServers : Owned(params, s) = {}
    BY <1>1, <1>2 DEF Owned
  <2> QED BY <2>1, HasNone
<1>8. \A s \in 1..NServers : s # 1 => HasLocs(locs, params, s, <<>>, 0, {})
  <2>1. \A s \in 1..NServers : s # 1 => Placed(locs, s) = {}
    BY <1>1, <1>2 DEF Placed
  <2> QED BY <2>1, LocsNone
<1>9. HasLocs(locs, params, 1, <<box>>, 0, {})
  <2>1. HasLocs({}, {}, 1, <<>>, 0, {})
    BY LocsNone DEF Placed
  <2>2. Range(<<FirstParam>>) = {FirstParam}
    BY DEF Range
  <2>3. /\ box.params \in Seq(Range(box.params)) /\ Len(box.params) = 1
        /\ box \in {box} /\ <<>> \in Seq({box}) /\ <<box>> \o <<>> = <<box>>
    BY <1>2, <2>2
  <2>4. Owned({}, NServers + 1) = {}
    BY DEF Owned
  <2>5. HasLocs({} \cup {loc}, {}, 1, <<box>> \o <<>>, Len(box.params),
                {NServers + 1})
    <3>1. PICK n : n = NServers + 1
      OBVIOUS
    <3>2. /\ n \in Nat /\ loc.id = n /\ loc.server = 1 /\ box.place = loc.place
          /\ Owned({}, n) = {} /\ \A l \in {} : l.id \in Nat /\ l.id < n
      BY <1>1, <1>2, <2>4, <3>1
    <3>3. PICK L, s, boxes, B : L = {} /\ s = 1 /\ boxes = <<>> /\ B = {box}
      OBVIOUS
    <3>4. HasLocs(L, L, s, boxes, 0, L)
      BY <2>1, <3>3
    <3>5. HasLocs(L \cup {loc}, L, s, <<box>> \o boxes, Len(box.params), {n})
      BY <2>3, <3>2, <3>3, <3>4, LocsMore
    <3> QED BY <3>1, <3>3, <3>5
  <2>6. PICK todo : todo = <<FirstParam>>
    OBVIOUS
  <2>7. /\ <<box>>[1] = box /\ todo # <<>> /\ Len(todo) = 1
        /\ Len(Tail(todo)) = 0 /\ Head(todo) = FirstParam
        /\ todo = box.params
    BY <1>2, <2>6
  <2>8. Undone(todo, <<box>>[1].params)
    <3>1. /\ todo \in Seq(Range(todo)) /\ DOMAIN todo = {1}
          /\ todo[Len(todo) + 1 - 1] = todo[1]
      BY <2>2, <2>6
    <3> QED BY <2>7, <3>1 DEF Undone
  <2>9. PICK boxes : boxes = <<box>>
    OBVIOUS
  <2>10. /\ HasLocs({loc}, {}, 1, boxes, Len(todo), {NServers + 1})
         /\ Undone(todo, boxes[1].params)
         /\ boxes[1].params \in Seq(Range(boxes[1].params))
    BY <2>3, <2>5, <2>7, <2>8, <2>9
  <2>11. HasLocs({loc}, {} \cup {p}, 1, boxes, Len(Tail(todo)), {NServers + 1})
    <3>1. /\ \A l \in {loc} : l.id \in Nat
          /\ NServers + 2 \in Nat /\ p.owner \in {NServers + 1}
      BY <1>1, <1>2
    <3> QED BY <1>2, <2>7, <2>10, <3>1, LocsParam
  <2>12. HasLocs(locs, params, 1, <<box>>, 0, {NServers + 1})
    BY <1>1, <2>7, <2>9, <2>11
  <2> QED BY <2>12 DEF HasLocs
<1>10. ShownInv
  BY <1>3, <1>4, <1>7, <1>8, <1>9 DEF ShownInv
<1> QED BY <1>5, <1>6, <1>10 DEF PageInv

LEMMA OrderInit ==
    ASSUME ServerAssumption, Init
    PROVE  OrderInv
<1>1. /\ NServers \in Nat /\ NServers > 0 /\ nextId = NServers + 3
      /\ \A t \in Workers : jobs[t] = Resting
      /\ wanted = IF servers[NServers].seq = 0 THEN Unknown ELSE Order
  BY DEF Init, ServerAssumption
<1>2. MoverInv
  BY <1>1, RestingIs DEF MoverInv, Moving
<1>3. ASSUME wanted # Unknown
      PROVE  /\ Lists(wanted, Numbers)
             /\ \A s \in DOMAIN servers : servers[s].seq # 0
                                          /\ servers[s].seq < nextId
  <2>1. PICK numbered \in {NServers - 1, NServers} :
           servers = [s \in 1..NServers |->
                        [seq |-> IF s <= numbered THEN s ELSE 0, edit |-> 0]]
    BY DEF Init
  <2>2. numbered = NServers
    BY <1>1, <1>3, <2>1
  <2>3. /\ DOMAIN servers = 1..NServers
        /\ \A s \in 1..NServers : servers[s].seq = s
    BY <1>1, <2>1, <2>2
  <2>4. /\ DOMAIN Numbers = 1..NServers
        /\ \A s \in 1..NServers : Numbers[s] = s
    BY <2>3 DEF Numbers
  <2> DEFINE list == [i \in 1..NServers |-> NServers + 1 - i]
  <2>5. PICK key : key = Numbers
    OBVIOUS
  <2>6. /\ \A i \in 1..NServers : NServers + 1 - i \in 1..NServers
        /\ list \in Seq(1..NServers) /\ DOMAIN list = 1..NServers
    BY <1>1
  <2>7. Descends(list, key)
    BY <1>1, <2>4, <2>5, <2>6 DEF Descends
  <2>8. Covers(list, 1..NServers)
    <3>1. ASSUME NEW x \in 1..NServers
          PROVE  list[NServers + 1 - x] = x
      BY <1>1
    <3> QED BY <2>6, <3>1 DEF Covers
  <2> HIDE DEF list
  <2>9. Lists(list, key)
    BY <2>4, <2>5, <2>6, <2>7, <2>8 DEF Lists
  <2>10. \A x \in DOMAIN key : key[x] \in Nat
    BY <1>1, <2>4, <2>5
  <2>11. Order = list
    BY <2>5, <2>9, <2>10, DescendingIs DEF Order
  <2> QED BY <1>1, <1>3, <2>3, <2>5, <2>9, <2>11
<1> QED BY <1>2, <1>3 DEF OrderInv, ListInv

-----------------------------------------------------------------------------
(* All steps.                                                              *)

LEMMA PageNext ==
    ASSUME ServerAssumption, IInv, PageInv, [Next]_serverVars
    PROVE  PageInv'
<1>1. CASE UNCHANGED serverVars
  BY <1>1 DEF serverVars, storeRows, hist, PageInv, RowsInv, JobsInv, ShownInv
<1>2. ASSUME NEW t \in Workers, NEW s \in {0} \cup 1..NServers,
             NEW form \in Forms, Save(t, s, form)
      PROVE  PageInv'
  BY <1>2, SavePage
<1>3. ASSUME NEW t \in Workers, NEW s \in DOMAIN servers,
             Del(t, s) \/ Move(t, s)
      PROVE  PageInv'
  BY <1>3, DelPage, OtherPage
<1>4. ASSUME NEW t \in Workers, SaveStep(t)
      PROVE  PageInv'
  BY <1>4, WriteNewPage, WriteOldPage, ReadLocationIdsPage, ClearParamsPage,
     InsertParamPage, ReadOldsPage, DropLocsPage, InsertLocPage, SaveDonePage
     DEF SaveStep
<1>5. ASSUME NEW t \in Workers, DelLocs(t) \/ MoveStep(t) \/ Fail(t)
      PROVE  PageInv'
  BY <1>5, DelLocsPage, OtherPage
<1>6. ASSUME NEW s \in DOMAIN servers, Edit(s)
      PROVE  PageInv'
  BY <1>6, OtherPage
<1>7. ASSUME NEW s \in 1..NServers, EditGone(s)
      PROVE  PageInv'
  BY <1>7, OtherPage
<1>8. ASSUME NEW l \in locs, NEW d \in Descrs, SetLocationDescr(l, d)
      PROVE  PageInv'
  BY <1>8, SetLocationDescrPage
<1> QED BY <1>1, <1>2, <1>3, <1>4, <1>5, <1>6, <1>7, <1>8 DEF Next

LEMMA OrderNext ==
    ASSUME ServerAssumption, IInv, NumberInv, OrderInv, [Next]_serverVars
    PROVE  OrderInv'
<1>1. CASE UNCHANGED serverVars
  BY <1>1 DEF serverVars, storeRows, hist, OrderInv, ListInv, MoverInv, Numbers,
     Moving
<1>2. ASSUME NEW t \in Workers, NEW s \in {0} \cup 1..NServers,
             NEW form \in Forms, Save(t, s, form)
      PROVE  OrderInv'
  BY <1>2, SaveOrder
<1>3. ASSUME NEW t \in Workers, NEW s \in DOMAIN servers,
             Del(t, s) \/ Move(t, s)
      PROVE  OrderInv'
  BY <1>3, DelOrder, MoveOrder
<1>4. ASSUME NEW t \in Workers, SaveStep(t)
      PROVE  OrderInv'
  BY <1>4, WriteNewOrder, OtherSteps, OtherOrder DEF SaveStep
<1>5. ASSUME NEW t \in Workers, DelLocs(t) \/ MoveStep(t) \/ Fail(t)
      PROVE  OrderInv'
  BY <1>5, ChooseTargetOrder, UpdateRowOrder, OtherSteps, OtherOrder DEF MoveStep
<1>6. ASSUME NEW s \in DOMAIN servers, Edit(s)
      PROVE  OrderInv'
  BY <1>6, OtherSteps, OtherOrder
<1>7. ASSUME NEW s \in 1..NServers, EditGone(s)
      PROVE  OrderInv'
  BY <1>7, EditGoneOrder
<1>8. ASSUME NEW l \in locs, NEW d \in Descrs, SetLocationDescr(l, d)
      PROVE  OrderInv'
  BY <1>8, OtherSteps, OtherOrder
<1> QED BY <1>1, <1>2, <1>3, <1>4, <1>5, <1>6, <1>7, <1>8 DEF Next

-----------------------------------------------------------------------------
(* The numbers that were drawn.                                            *)

LEMMA NumbersStay ==
    ASSUME ServerAssumption, IInv, NumberInv, nextId' \in Nat, nextId <= nextId',
           \A u \in Workers :
              \/ Like(jobs[u], jobs'[u])
              \/ /\ jobs'[u].pc # "write"
                 /\ Moving(u)' => \A i \in DOMAIN jobs'[u].rows :
                                     InUse(jobs'[u].rows[i].row.seq),
           \A s \in DOMAIN servers' :
              \/ InUse(servers'[s].seq) \/ servers'[s].seq = 0
              \/ \E u \in Workers : /\ Drawn(u, servers'[s].seq)
                                    /\ jobs'[u].pc # "write"
    PROVE  NumberInv'
<1>1. nextId \in Nat /\ 0 < nextId
  BY DEF IInv, TypeInv, ServerAssumption
<1>2. ASSUME NEW u \in Workers, NEW n, Drawn(u, n)'
      PROVE  Drawn(u, n)
  BY <1>2 DEF Drawn, Like
<1>3. ASSUME NEW n, InUse(n)'
      PROVE  \/ InUse(n) \/ n = 0
             \/ \E u \in Workers : Drawn(u, n) /\ jobs'[u].pc # "write"
  <2>1. CASE \E s \in DOMAIN servers' : servers'[s].seq = n
    BY <2>1
  <2>2. ASSUME NEW u \in Workers, Moving(u)', NEW i \in DOMAIN jobs'[u].rows,
               jobs'[u].rows[i].row.seq = n
        PROVE  InUse(n)
    <3>1. CASE Like(jobs[u], jobs'[u])
      BY <2>2, <3>1 DEF Like, InUse, Moving
    <3>2. CASE ~Like(jobs[u], jobs'[u])
      BY <2>2, <3>2
    <3> QED BY <3>1, <3>2
  <2> QED BY <1>3, <2>1, <2>2 DEF InUse, Moving
<1>4. ASSUME NEW n, InUse(n)'
      PROVE  n \in Nat /\ n < nextId'
  <2>1. n \in Nat /\ n < nextId
    BY <1>1, <1>3, <1>4 DEF NumberInv
  <2> QED BY <1>1, <2>1
<1>5. ASSUME NEW u \in Workers, NEW n, Drawn(u, n)'
      PROVE  n \in Nat /\ n < nextId' /\ ~InUse(n)'
  <2>1. Drawn(u, n) /\ n # 0 /\ jobs'[u].pc = "write"
    BY <1>2, <1>5 DEF Drawn
  <2>2. n \in Nat /\ n < nextId /\ ~InUse(n)
    BY <2>1 DEF NumberInv
  <2>3. \A v \in Workers : Drawn(v, n) => v = u
    BY <2>1 DEF NumberInv
  <2>4. ~InUse(n)'
    BY <1>3, <2>1, <2>2, <2>3
  <2> QED BY <1>1, <2>2, <2>4
<1>6. ASSUME NEW u \in Workers, NEW v \in Workers, NEW n,
             Drawn(u, n)', Drawn(v, n)'
      PROVE  u = v
  BY <1>2, <1>6 DEF NumberInv
<1> QED BY <1>4, <1>5, <1>6 DEF NumberInv

\* A save draws a number that nothing has.
LEMMA SaveNumbers ==
    ASSUME ServerAssumption, IInv, NumberInv, NEW t \in Workers,
           NEW s \in {0} \cup 1..NServers, NEW form \in Forms, Save(t, s, form)
    PROVE  NumberInv'
<1>1. /\ servers' = servers /\ jobs'[t].pc = "write"
      /\ nextId' = IF s = 0 THEN nextId + 1 ELSE nextId
      /\ jobs'[t].seq = IF s = 0 THEN nextId ELSE 0
      /\ \A u \in Workers \ {t} : Like(jobs[u], jobs'[u])
  BY SaveIs
<1>2. nextId \in Nat /\ nextId' \in Nat /\ nextId <= nextId'
  <2>1. nextId \in Nat
    BY DEF IInv, TypeInv
  <2> QED BY <1>1, <2>1
<1>3. ASSUME NEW n, InUse(n)'
      PROVE  InUse(n) /\ n \in Nat /\ n < nextId
  <2>1. CASE \E r \in DOMAIN servers' : servers'[r].seq = n
    BY <1>1, <2>1 DEF InUse, NumberInv
  <2>2. ASSUME NEW u \in Workers, Moving(u)', NEW i \in DOMAIN jobs'[u].rows,
               jobs'[u].rows[i].row.seq = n
        PROVE  InUse(n)
    <3>1. u # t
      BY <1>1, <2>2 DEF Moving
    <3>2. Like(jobs[u], jobs'[u])
      BY <1>1, <3>1
    <3> QED BY <2>2, <3>2 DEF Like, InUse, Moving
  <2> QED BY <1>3, <2>1, <2>2 DEF InUse, Moving, NumberInv
<1>4. ASSUME NEW u \in Workers \ {t}, NEW n, Drawn(u, n)'
      PROVE  Drawn(u, n) /\ n \in Nat /\ n < nextId
  BY <1>1, <1>4 DEF Drawn, Like, NumberInv
<1>5. ASSUME NEW n, Drawn(t, n)'
      PROVE  n = nextId /\ nextId' = nextId + 1
  BY <1>1, <1>5 DEF Drawn
<1>6. ASSUME NEW n, InUse(n)'
      PROVE  n \in Nat /\ n < nextId'
  BY <1>2, <1>3, <1>6
<1>7. ASSUME NEW u \in Workers, NEW n, Drawn(u, n)'
      PROVE  n \in Nat /\ n < nextId' /\ ~InUse(n)'
  <2>1. CASE u = t
    BY <1>2, <1>3, <1>5, <1>7, <2>1
  <2>2. CASE u # t
    <3>1. Drawn(u, n) /\ n \in Nat /\ n < nextId
      BY <1>4, <1>7, <2>2
    <3>2. ~InUse(n)'
      BY <1>3, <3>1 DEF NumberInv
    <3> QED BY <1>2, <3>1, <3>2
  <2> QED BY <2>1, <2>2
<1>8. ASSUME NEW u \in Workers, NEW v \in Workers, NEW n,
             Drawn(u, n)', Drawn(v, n)'
      PROVE  u = v
  BY <1>2, <1>4, <1>5, <1>8 DEF NumberInv
<1> QED BY <1>6, <1>7, <1>8 DEF NumberInv

LEMMA WriteNewNumbers ==
    ASSUME ServerAssumption, IInv, NumberInv, NEW t \in Workers, WriteNew(t)
    PROVE  NumberInv'
<1> DEFINE row == [seq |-> jobs[t].seq, edit |-> requests]
           job == [jobs[t] EXCEPT !.pc = "ids", !.sid = nextId]
<1>1. /\ servers' = Set(servers, nextId, row) /\ nextId' = nextId + 1
      /\ jobs' = [Startled EXCEPT ![t] = job] /\ jobs[t].pc = "write"
  BY DEF WriteNew
<1>2. nextId \in Nat /\ job.pc = "ids" /\ row.seq = jobs[t].seq
  BY DEF IInv, TypeInv, JobFields
<1> HIDE DEF job, row
<1>3. jobs'[t] = job /\ \A u \in Workers \ {t} : Like(jobs[u], jobs'[u])
  BY <1>1, StartledIs DEF IInv
<1>4. ASSUME NEW s \in DOMAIN servers'
      PROVE  \/ InUse(servers'[s].seq) \/ servers'[s].seq = 0
             \/ \E u \in Workers : /\ Drawn(u, servers'[s].seq)
                                   /\ jobs'[u].pc # "write"
  <2>1. CASE s = nextId
    <3>1. servers'[s].seq = jobs[t].seq
      BY <1>1, <1>2, <2>1 DEF Set
    <3> QED BY <1>1, <1>2, <1>3, <3>1 DEF Drawn
  <2>2. CASE s # nextId
    BY <1>1, <2>2 DEF Set, InUse
  <2> QED BY <2>1, <2>2
<1>5. jobs'[t].pc # "write" /\ ~Moving(t)'
  BY <1>2, <1>3 DEF Moving
<1>6. nextId' \in Nat /\ nextId <= nextId'
  BY <1>1, <1>2
<1> QED BY <1>3, <1>4, <1>5, <1>6, NumbersStay

LEMMA EditGoneNumbers ==
    ASSUME ServerAssumption, IInv, NumberInv, NEW s \in 1..NServers, EditGone(s)
    PROVE  NumberInv'
<1>1. /\ servers' = Set(servers, nextId, [seq |-> 0, edit |-> requests + 1])
      /\ nextId' = nextId + 1 /\ jobs' = Startled
  BY DEF EditGone
<1>2. nextId \in Nat
  BY DEF IInv, TypeInv
<1>3. \A u \in Workers : Like(jobs[u], jobs'[u])
  BY <1>1, LikeItself, LikeWithout DEF Startled, IInv
<1>4. \A r \in DOMAIN servers' : InUse(servers'[r].seq) \/ servers'[r].seq = 0
  BY <1>1 DEF Set, InUse
<1>5. nextId' \in Nat /\ nextId <= nextId'
  BY <1>1, <1>2
<1> QED BY <1>3, <1>4, <1>5, NumbersStay

LEMMA DelNumbers ==
    ASSUME ServerAssumption, IInv, NumberInv, NEW t \in Workers,
           NEW s \in DOMAIN servers, Del(t, s)
    PROVE  NumberInv'
<1> DEFINE job == [Resting EXCEPT !.pc = "delLocs", !.sid = s]
<1>1. /\ servers' = [r \in DOMAIN servers \ {s} |-> servers[r]]
      /\ nextId' = nextId
      /\ jobs' = [u \in Workers |->
                    IF u = t THEN job
                    ELSE IF Busy(u, s) \/ Moving(u)
                         THEN [jobs[u] EXCEPT !.alone = FALSE] ELSE jobs[u]]
  BY DEF Del
<1>2. job.pc = "delLocs"
  BY DEF Resting
<1> HIDE DEF job
<1>3. \A u \in Workers \ {t} : Like(jobs[u], jobs'[u])
  BY <1>1, LikeItself, LikeWithout DEF IInv
<1>4. \A r \in DOMAIN servers' : InUse(servers'[r].seq)
  BY <1>1 DEF InUse
<1>5. jobs'[t].pc # "write" /\ ~Moving(t)'
  BY <1>1, <1>2 DEF Moving
<1>6. nextId' \in Nat /\ nextId <= nextId'
  BY <1>1 DEF IInv, TypeInv
<1> QED BY <1>3, <1>4, <1>5, <1>6, NumbersStay

LEMMA MoveNumbers ==
    ASSUME ServerAssumption, IInv, NumberInv, NEW t \in Workers,
           NEW s \in DOMAIN servers, Move(t, s)
    PROVE  NumberInv'
<1> DEFINE rows == <<WithId(s, servers[s])>>
           job == [Resting EXCEPT !.pc = "list", !.alone = Movers = {},
                                  !.rows = rows]
<1>1. UNCHANGED <<servers, nextId>> /\ jobs' = [Startled EXCEPT ![t] = job]
  BY DEF Move, storeRows
<1>2. job.pc = "list" /\ job.rows = rows
  BY DEF Resting
<1>3. DOMAIN rows = {1} /\ rows[1].row = servers[s]
  BY DEF WithId
<1> HIDE DEF job, rows
<1>4. jobs'[t] = job /\ \A u \in Workers \ {t} : Like(jobs[u], jobs'[u])
  BY <1>1, StartledIs DEF IInv
<1>5. /\ jobs'[t].pc # "write"
      /\ \A i \in DOMAIN jobs'[t].rows : InUse(jobs'[t].rows[i].row.seq)
  BY <1>2, <1>3, <1>4 DEF InUse
<1>6. \A r \in DOMAIN servers' : InUse(servers'[r].seq)
  BY <1>1 DEF InUse
<1>7. nextId' \in Nat /\ nextId <= nextId'
  BY <1>1 DEF IInv, TypeInv
<1> QED BY <1>4, <1>5, <1>6, <1>7, NumbersStay

LEMMA ChooseTargetNumbers ==
    ASSUME ServerAssumption, IInv, NumberInv, NEW t \in Workers, ChooseTarget(t)
    PROVE  NumberInv'
<1> DEFINE s == jobs[t].rows[1].id
           row == jobs[t].rows[1].row
<1>1. jobs[t].pc = "list" /\ Moving(t) /\ UNCHANGED <<servers, nextId>>
  BY DEF ChooseTarget, storeRows, Moving
<1>2. PICK up \in BOOLEAN, r \in DOMAIN servers :
         jobs' = [jobs EXCEPT ![t] = [jobs[t] EXCEPT
               !.pc = "update", !.order = AfterMove(s, up),
               !.rows = <<WithId(r, Exchanged(servers[r], row)),
                          WithId(s, Exchanged(row, servers[r]))>>]]
  BY DEF ChooseTarget, Goto, Targets, Beyond
<1> DEFINE rows == <<WithId(r, Exchanged(servers[r], row)),
                     WithId(s, Exchanged(row, servers[r]))>>
           job == [jobs[t] EXCEPT !.pc = "update", !.order = AfterMove(s, up),
                                  !.rows = rows]
<1>3. job.pc = "update" /\ job.rows = rows
  BY DEF IInv, TypeInv, JobFields
<1>4. jobs' = [jobs EXCEPT ![t] = job]
  BY <1>2
<1>5. jobs[t].rows \in Seq(Entries) /\ jobs[t].rows # <<>>
  BY <1>1 DEF IInv, HeldInv
<1>6. 1 \in DOMAIN jobs[t].rows /\ row \in Settings /\ servers[r] \in Settings
  <2>1. 1 \in DOMAIN jobs[t].rows /\ jobs[t].rows[1] \in Entries
    BY <1>5
  <2>2. row \in Settings
    BY <2>1 DEF Entries
  <2>3. servers[r] \in Settings
    BY DEF IInv, TypeInv
  <2> QED BY <2>1, <2>2, <2>3
<1>7. InUse(row.seq) /\ InUse(servers[r].seq)
  BY <1>1, <1>6 DEF InUse
<1>8. /\ DOMAIN rows = 1..2 /\ rows[1].row.seq = row.seq
      /\ rows[2].row.seq = servers[r].seq
  BY <1>6 DEF WithId, Exchanged, Settings
<1> HIDE DEF job, rows, row
<1>9. jobs'[t] = job /\ \A u \in Workers \ {t} : Like(jobs[u], jobs'[u])
  BY <1>4, GotoIs DEF IInv
<1>10. /\ jobs'[t].pc # "write"
       /\ \A i \in DOMAIN jobs'[t].rows : InUse(jobs'[t].rows[i].row.seq)
  <2>1. \A i \in DOMAIN rows : i = 1 \/ i = 2
    BY <1>8
  <2> QED BY <1>3, <1>7, <1>8, <1>9, <2>1
<1>11. \A q \in DOMAIN servers' : InUse(servers'[q].seq)
  BY <1>1 DEF InUse
<1>12. nextId' \in Nat /\ nextId <= nextId'
  BY <1>1 DEF IInv, TypeInv
<1> QED BY <1>9, <1>10, <1>11, <1>12, NumbersStay

LEMMA UpdateRowNumbers ==
    ASSUME ServerAssumption, IInv, NumberInv, NEW t \in Workers, UpdateRow(t)
    PROVE  NumberInv'
<1> DEFINE rows == jobs[t].rows
           s == Head(rows).id
           row == Head(rows).row
           rest == Tail(rows)
           id == IF s \in DOMAIN servers THEN s ELSE nextId
           job == IF rest # <<>> THEN [jobs[t] EXCEPT !.rows = rest]
                  ELSE Resting
<1>1. /\ jobs[t].pc = "update" /\ servers' = Set(servers, id, row)
      /\ nextId' = IF id = s THEN nextId ELSE nextId + 1
      /\ jobs' = [jobs EXCEPT ![t] = job]
  BY DEF UpdateRow, Goto
<1>2. Moving(t) /\ rows \in Seq(Entries) /\ rows # <<>>
  BY <1>1 DEF IInv, HeldInv, Moving
<1>3. /\ 1 \in DOMAIN rows /\ Head(rows) = rows[1]
      /\ \A i \in DOMAIN rest : i + 1 \in DOMAIN rows /\ rest[i] = rows[i + 1]
  <2>1. /\ rest \in Seq(Entries) /\ Len(rest) = Len(rows) - 1
        /\ Len(rows) \in Nat \ {0} /\ Head(rows) = rows[1]
    BY <1>2
  <2>2. DOMAIN rest = 1..Len(rows) - 1 /\ DOMAIN rows = 1..Len(rows)
    BY <1>2, <2>1, SeqLen
  <2>3. \A i \in 1..Len(rows) - 1 : rest[i] = rows[i + 1]
    BY <1>2, <2>1
  <2> QED BY <2>1, <2>2, <2>3
<1>4. \A i \in DOMAIN rows : InUse(rows[i].row.seq)
  BY <1>2 DEF InUse
<1>5. /\ rest # <<>> => job.pc = "update" /\ job.rows = rest
      /\ rest = <<>> => job.pc = "idle"
  <2>1. CASE rest # <<>>
    <3>1. job = [jobs[t] EXCEPT !.rows = rest] /\ DOMAIN jobs[t] = JobFields
      BY <2>1 DEF IInv, TypeInv
    <3> HIDE DEF rest
    <3> QED BY <1>1, <2>1, <3>1 DEF JobFields
  <2>2. CASE rest = <<>>
    BY <2>2, RestingIs
  <2> QED BY <2>1, <2>2
<1>6. nextId' \in Nat /\ nextId <= nextId'
  <2>1. nextId \in Nat
    BY DEF IInv, TypeInv
  <2> QED BY <1>1, <2>1
<1> HIDE DEF job, rest, id, s
<1>7. jobs'[t] = job /\ \A u \in Workers \ {t} : Like(jobs[u], jobs'[u])
  BY <1>1, GotoIs DEF IInv
<1>8. /\ jobs'[t].pc # "write"
      /\ Moving(t)' => \A i \in DOMAIN jobs'[t].rows :
                          InUse(jobs'[t].rows[i].row.seq)
  BY <1>3, <1>4, <1>5, <1>7 DEF Moving
<1>9. \A r \in DOMAIN servers' : InUse(servers'[r].seq)
  <2>1. \A r \in DOMAIN servers : InUse(servers[r].seq)
    BY DEF InUse
  <2> QED BY <1>1, <1>3, <1>4, <2>1 DEF Set
<1> QED BY <1>6, <1>7, <1>8, <1>9, NumbersStay

LEMMA OtherNumbers ==
    ASSUME ServerAssumption, IInv, NumberInv, SameNumbers
    PROVE  NumberInv'
<1>1. \A s \in DOMAIN servers' : InUse(servers'[s].seq)
  BY DEF SameNumbers, InUse
<1>2. \A u \in Workers : \/ Like(jobs[u], jobs'[u])
                         \/ jobs'[u].pc # "write" /\ ~Moving(u)'
  BY DEF SameNumbers, Moving
<1> QED BY <1>1, <1>2, NumbersStay DEF SameNumbers

LEMMA NumberInit ==
    ASSUME ServerAssumption, Init
    PROVE  NumberInv
<1>1. /\ NServers \in Nat /\ nextId = NServers + 3
      /\ \A t \in Workers : jobs[t] = Resting
      /\ \A s \in DOMAIN servers : servers[s].seq \in 0..NServers
  BY DEF Init, ServerAssumption
<1>2. \A t \in Workers : ~Moving(t) /\ \A n : ~Drawn(t, n)
  BY <1>1, RestingIs DEF Moving, Drawn
<1> QED BY <1>1, <1>2 DEF NumberInv, InUse

LEMMA NumberNext ==
    ASSUME ServerAssumption, IInv, NumberInv, [Next]_serverVars
    PROVE  NumberInv'
<1>1. CASE UNCHANGED serverVars
  BY <1>1 DEF serverVars, storeRows, hist, NumberInv, InUse, Drawn, Moving
<1>2. ASSUME NEW t \in Workers, NEW s \in {0} \cup 1..NServers,
             NEW form \in Forms, Save(t, s, form)
      PROVE  NumberInv'
  BY <1>2, SaveNumbers
<1>3. ASSUME NEW t \in Workers, NEW s \in DOMAIN servers,
             Del(t, s) \/ Move(t, s)
      PROVE  NumberInv'
  BY <1>3, DelNumbers, MoveNumbers
<1>4. ASSUME NEW t \in Workers, SaveStep(t)
      PROVE  NumberInv'
  BY <1>4, WriteNewNumbers, OtherSteps, OtherNumbers DEF SaveStep
<1>5. ASSUME NEW t \in Workers, DelLocs(t) \/ MoveStep(t) \/ Fail(t)
      PROVE  NumberInv'
  BY <1>5, ChooseTargetNumbers, UpdateRowNumbers, OtherSteps, OtherNumbers
     DEF MoveStep
<1>6. ASSUME NEW s \in DOMAIN servers, Edit(s)
      PROVE  NumberInv'
  BY <1>6, OtherSteps, OtherNumbers
<1>7. ASSUME NEW s \in 1..NServers, EditGone(s)
      PROVE  NumberInv'
  BY <1>7, EditGoneNumbers
<1>8. ASSUME NEW l \in locs, NEW d \in Descrs, SetLocationDescr(l, d)
      PROVE  NumberInv'
  BY <1>8, OtherSteps, OtherNumbers
<1> QED BY <1>1, <1>2, <1>3, <1>4, <1>5, <1>6, <1>7, <1>8 DEF Next

\* The page of a server shows what the last save of it sent, when no other
\* request for the server came in between.
THEOREM SavedIsShownCorrect ==
    ASSUME ServerAssumption
    PROVE  Spec => []SavedIsShown
<1>1. Init => PageInv
  BY PageInit
<1>2. IInv /\ PageInv /\ [Next]_serverVars => PageInv'
  BY PageNext
<1>3. PageInv => SavedIsShown
  BY PageShows DEF PageInv, ShownInv, SavedIsShown
<1> QED BY <1>1, <1>2, <1>3, InvAlways, PTL DEF Spec

\* Moves, insertions and deletions one at a time leave the servers in the
\* order that the administrator wanted.
THEOREM OrderIsWantedCorrect ==
    ASSUME ServerAssumption
    PROVE  Spec => []OrderIsWanted
<1>1. Init => NumberInv /\ OrderInv
  BY NumberInit, OrderInit
<1>2. IInv /\ NumberInv /\ OrderInv /\ [Next]_serverVars =>
         NumberInv' /\ OrderInv'
  BY NumberNext, OrderNext
<1>3. ASSUME IInv, OrderInv
      PROVE  OrderIsWanted
  <2>1. ASSUME wanted # Unknown
        PROVE  Sorted(wanted)
    <3>1. Lists(wanted, Numbers)
      BY <1>3, <2>1 DEF OrderInv, ListInv
    <3>2. \A x \in DOMAIN Numbers : Numbers[x] \in Nat
      BY <1>3, NumbersAre
    <3>3. PICK key, list : key = Numbers /\ list = wanted
      OBVIOUS
    <3>4. /\ list \in [1..Len(list) -> DOMAIN key]
          /\ Cardinality(DOMAIN key) = Len(list) /\ Len(list) \in Nat
      BY <3>1, <3>2, <3>3, ListCounts
    <3>5. \A i, j \in DOMAIN list : i < j => key[list[i]] > key[list[j]]
      BY <3>1, <3>3, <3>4 DEF Lists, Descends
    <3>6. DOMAIN key = DOMAIN servers
          /\ \A s \in DOMAIN servers : key[s] = servers[s].seq
      BY <3>3 DEF Numbers
    <3>7. \A i \in DOMAIN list : list[i] \in DOMAIN servers
      BY <3>4, <3>6
    <3> QED BY <3>3, <3>4, <3>5, <3>6, <3>7 DEF Sorted
  <2> QED BY <2>1 DEF OrderIsWanted
<1> QED BY <1>1, <1>2, <1>3, InvAlways, PTL DEF Spec
=============================================================================
