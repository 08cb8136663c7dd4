---------------------------- MODULE ServerStore ----------------------------
(***************************************************************************)
(* The rows of proxied servers (ServerService, ServerController): a server *)
(* has parameters and locations, these have parameters, and the order of   *)
(* the servers is that of their sequence numbers.  Saving a server deletes *)
(* what belongs to it and inserts it anew, row by row; moving a server     *)
(* exchanges two numbers in two statements.  Nothing is locked, and each   *)
(* statement is committed by itself.                                       *)
(***************************************************************************)
EXTENDS Integers, FiniteSets, Sequences, SequencesExt

CONSTANTS
    Workers,        \* request threads of the panel
    NServers,       \* servers at the start
    FirstPlace, FirstParam, \* the location of the first one, its parameter
    Forms,          \* what a page may send for a server
    Descrs,         \* descriptions of locations
    NoDescr, NoForm,
    MaxRequests, MaxFaults      \* bounds

\* A form is the parameters of the server and its locations, each with a
\* place and parameters, in the order of the input boxes.  A place is a path
\* and a type, <<path, type>>; nothing keeps an admin from using one twice.
IsForm(form) ==
    /\ form \in [params : Seq(Range(form.params)),
                 locs : Seq(Range(form.locs))]
    /\ \A box \in Range(form.locs) :
          box \in [place : {box.place}, params : Seq(Range(box.params))]
Places(form) == {form.locs[i].place : i \in DOMAIN form.locs}

\* What the constants must satisfy; the modules that instantiate this one
\* assume it.
ServerAssumption ==
    /\ NServers \in Nat \ {0} /\ {MaxRequests, MaxFaults} \subseteq Nat
    /\ NoDescr \notin Descrs /\ NoForm \notin Forms
    /\ \A f \in Forms : IsForm(f)

VARIABLES
    servers,        \* id -> seq (0 for null) and the state of its settings
    locs, params,   \* tables location and param; a parameter has one owner
    nextId,         \* the id generators, which count up
    jobs,           \* what each thread is doing, with its locals
    requests, faults,   \* counters of the bounds
    shown,          \* history: what a server's page should show
    named,          \* history: descriptions that should be there
    wanted,         \* history: the order the servers should have
    settled         \* history: what the last edit of a server left

storeRows == <<servers, locs, params, nextId>>
hist == <<shown, named, wanted, settled>>
serverVars == <<storeRows, jobs, requests, faults, hist>>

Unknown == <<0>>            \* an order that is not known
Resting == [pc |-> "idle", sid |-> 0, seq |-> 0, form |-> NoForm, ids |-> {},
            todo |-> <<>>, left |-> <<>>, olds |-> {}, rows |-> <<>>,
            order |-> <<>>, alone |-> TRUE]

Ids(table) == {row.id : row \in table}

\* The sequence of the domain of key by descending key, of which there are no
\* two alike.
Descending(key) ==
    CHOOSE list \in [1..Cardinality(DOMAIN key) -> DOMAIN key] :
        \A i, j \in DOMAIN list : i < j => key[list[i]] > key[list[j]]
Newest(table) == Descending([row \in table |-> row.id])

\* findListByQuery: the newest row first.
RowsOf(owner) == {p \in params : p.owner = owner}
ParamsOf(owner) ==
    LET list == Newest(RowsOf(owner))
    IN  [i \in DOMAIN list |-> list[i].value]
LocsOf(s) == {l \in locs : l.server = s}

\* detail.
Shown(s) ==
    LET list == Newest(LocsOf(s))
    IN  [params |-> ParamsOf(s),
         locs |-> [i \in DOMAIN list |-> [place |-> list[i].place,
                                          params |-> ParamsOf(list[i].id)]]]

\* The list of servers, of pages and of buildConf: the largest seq first.  It
\* is one list only if no number is missing.
Numbers == [s \in DOMAIN servers |-> servers[s].seq]
Order == Descending(Numbers)
\* list is that list.
Sorted(list) ==
    /\ list \in [1..Cardinality(DOMAIN servers) -> DOMAIN servers]
    /\ \A i, j \in DOMAIN list :
          i < j => servers[list[i]].seq > servers[list[j]].seq

\* The last server may have lost its number (see WriteNew, EditGone).
Init ==
    /\ \E numbered \in {NServers - 1, NServers} :
          servers = [s \in 1..NServers |->
                       [seq |-> IF s <= numbered THEN s ELSE 0, edit |-> 0]]
    /\ locs = {[id |-> NServers + 1, server |-> 1, place |-> FirstPlace,
                descr |-> NoDescr]}
    /\ params = {[id |-> NServers + 2, owner |-> NServers + 1,
                  value |-> FirstParam]}
    /\ nextId = NServers + 3
    /\ jobs = [t \in Workers |-> Resting]
    /\ requests = 0 /\ faults = 0
    /\ shown = [s \in 1..NServers |-> [params |-> <<>>, locs |->
                 IF s > 1 THEN <<>>
                 ELSE <<[place |-> FirstPlace, params |-> <<FirstParam>>]>>]]
    /\ named = {}
    /\ wanted = IF servers[NServers].seq = 0 THEN Unknown ELSE Order
    /\ settled = [s \in 1..NServers |-> 0]

Count == requests < MaxRequests /\ requests' = requests + 1
Begin(t, job) ==
    /\ jobs[t] = Resting /\ Count
    /\ jobs' = [jobs EXCEPT ![t] = job]
    /\ UNCHANGED faults
Goto(t, job) ==
    jobs' = [jobs EXCEPT ![t] = job] /\ UNCHANGED <<requests, faults>>

Set(f, s, x) == [r \in DOMAIN f \cup {s} |-> IF r = s THEN x ELSE f[r]]
Forget(s) == [r \in DOMAIN shown \ {s} |-> shown[r]]

\* Of two requests for one server none is alone, nor is a move while servers
\* come and go.
Moving(t) == jobs[t].pc \in {"list", "update"}
Busy(t, s) == jobs[t].sid = s /\ jobs[t].pc # "idle"
Disturbed(s) ==
    [u \in Workers |-> IF Busy(u, s) THEN [jobs[u] EXCEPT !.alone = FALSE]
                       ELSE jobs[u]]
Movers == {u \in Workers : Moving(u)}
Startled ==
    [u \in Workers |-> IF Moving(u) THEN [jobs[u] EXCEPT !.alone = FALSE]
                       ELSE jobs[u]]
\* A move that has read a row will write it back.
Held(s) ==
    \E u \in Movers : \E i \in DOMAIN jobs[u].rows : jobs[u].rows[i].id = s
Settled(s, edit) ==
    settled' = Set(settled, s, IF Held(s) THEN -1 ELSE edit)

-----------------------------------------------------------------------------
(* addOver.                                                                *)

\* A new server (0), for which the controller draws a number, or the id of a
\* page that may be of long ago.
Save(t, s, form) ==
    /\ Begin(t, [Resting EXCEPT !.pc = "write", !.sid = s, !.form = form,
                                !.seq = IF s = 0 THEN nextId ELSE 0])
    /\ nextId' = IF s = 0 THEN nextId + 1 ELSE nextId
    /\ UNCHANGED <<servers, locs, params, hist>>

\* Servers that were numbered later.
Above(seq) == {s \in DOMAIN servers : servers[s].seq > seq}

\* insertOrUpdate; a server deleted meanwhile is inserted without a number.
WriteNew(t) ==
    /\ jobs[t].pc = "write" /\ jobs[t].sid \notin DOMAIN servers
    /\ LET seq == jobs[t].seq
       IN  /\ servers' = Set(servers, nextId, [seq |-> seq, edit |-> requests])
           /\ wanted' = IF seq = 0 \/ wanted = Unknown \/ Movers # {}
                        THEN Unknown
                        ELSE InsertAt(wanted, Cardinality(Above(seq)) + 1,
                                      nextId)
    /\ nextId' = nextId + 1
    /\ settled' = Set(settled, nextId, requests)
    /\ jobs' = [Startled EXCEPT ![t] = [jobs[t] EXCEPT !.pc = "ids",
                                                       !.sid = nextId]]
    /\ UNCHANGED <<locs, params, requests, faults, shown, named>>

WriteOld(t) ==
    LET s == jobs[t].sid
    IN  /\ jobs[t].pc = "write" /\ s \in DOMAIN servers
        /\ servers' = [servers EXCEPT ![s].edit = requests]
        /\ Settled(s, requests)
        /\ shown' = Forget(s)
        /\ jobs' = [Disturbed(s) EXCEPT ![t] =
                      [jobs[t] EXCEPT !.pc = "ids",
                         !.alone = \A u \in Workers \ {t} : ~Busy(u, s)]]
        /\ UNCHANGED <<locs, params, nextId, requests, faults, named, wanted>>

ReadLocationIds(t) ==
    /\ jobs[t].pc = "ids"
    /\ Goto(t, [jobs[t] EXCEPT !.pc = "clear",
                               !.ids = Ids(LocsOf(jobs[t].sid))])
    /\ UNCHANGED <<storeRows, hist>>

OldParams(s, ids) == {p \in params : p.owner = s \/ p.owner \in ids}

\* "Inserted in reverse, so that the list corresponds to the input boxes."
\* Mutant: in the order of the form.
InOrder(list) == list
InReverse(list) == Reverse(list)

ClearParams(t) ==
    /\ jobs[t].pc = "clear"
    /\ params' = params \ OldParams(jobs[t].sid, jobs[t].ids)
    /\ Goto(t, [jobs[t] EXCEPT !.pc = "params", !.ids = {jobs[t].sid},
                               !.todo = InReverse(jobs[t].form.params)])
    /\ UNCHANGED <<servers, locs, nextId, hist>>

\* The owner of parameters is the server, later the location inserted last.
InsertParam(t) ==
    /\ jobs[t].pc \in {"params", "locs"} /\ jobs[t].todo # <<>>
    /\ \E owner \in jobs[t].ids :
          params' = params \cup {[id |-> nextId, owner |-> owner,
                                  value |-> Head(jobs[t].todo)]}
    /\ nextId' = nextId + 1
    /\ Goto(t, [jobs[t] EXCEPT !.todo = Tail(@)])
    /\ UNCHANGED <<servers, locs, hist>>

\* Mutant: the old locations are read after they were deleted.
OldsGone(s) == {}
Olds(s) == LocsOf(s)

ReadOlds(t) ==
    /\ jobs[t].pc = "params" /\ jobs[t].todo = <<>>
    /\ Goto(t, [jobs[t] EXCEPT !.pc = "drop", !.olds = Olds(jobs[t].sid)])
    /\ UNCHANGED <<storeRows, hist>>

DropLocs(t) ==
    /\ jobs[t].pc = "drop"
    /\ locs' = {l \in locs : l.server # jobs[t].sid}
    /\ Goto(t, [jobs[t] EXCEPT !.pc = "locs",
                               !.left = InReverse(jobs[t].form.locs)])
    /\ UNCHANGED <<servers, params, nextId, hist>>

\* findLocationDescr: of the first old location with that path and type, and
\* the list has the newest first.
DescrFor(olds, place) ==
    LET same == {l \in olds : l.place = place}
    IN  IF same = {} THEN NoDescr
        ELSE (CHOOSE l \in same : \A m \in same : m.id <= l.id).descr

InsertLoc(t) ==
    /\ jobs[t].pc = "locs" /\ jobs[t].todo = <<>> /\ jobs[t].left # <<>>
    /\ LET loc == Head(jobs[t].left)
       IN  /\ locs' = locs \cup {[id |-> nextId, server |-> jobs[t].sid,
                                  place |-> loc.place,
                                  descr |-> DescrFor(jobs[t].olds, loc.place)]}
           /\ Goto(t, [jobs[t] EXCEPT !.left = Tail(@), !.ids = {nextId},
                                      !.todo = InReverse(loc.params)])
    /\ nextId' = nextId + 1
    /\ UNCHANGED <<servers, params, hist>>

SaveDone(t) ==
    LET s == jobs[t].sid
    IN  /\ jobs[t].pc = "locs" /\ jobs[t].todo = <<>> /\ jobs[t].left = <<>>
        /\ Goto(t, Resting)
        /\ shown' = IF jobs[t].alone THEN Set(shown, s, jobs[t].form)
                    ELSE Forget(s)
        /\ named' = {n \in named : n.server = s =>
                       jobs[t].alone /\ n.place \in Places(jobs[t].form)}
        /\ UNCHANGED <<storeRows, wanted, settled>>

-----------------------------------------------------------------------------
(* Other requests for one server.                                          *)

\* setEnable, editDescr.
Edit(s) ==
    /\ s \in DOMAIN servers /\ Count
    /\ servers' = [servers EXCEPT ![s].edit = requests + 1]
    /\ Settled(s, requests + 1)
    /\ UNCHANGED <<locs, params, nextId, jobs, faults, shown, named, wanted>>

\* The same of a server that is gone: it is inserted, without a number.
EditGone(s) ==
    /\ s \in 1..NServers \ DOMAIN servers /\ Count
    /\ servers' = Set(servers, nextId, [seq |-> 0, edit |-> requests + 1])
    /\ nextId' = nextId + 1
    /\ settled' = Set(settled, nextId, requests + 1)
    /\ wanted' = Unknown
    /\ jobs' = Startled
    /\ UNCHANGED <<locs, params, faults, shown, named>>

\* A place may be there twice.
Alone(l) == \A m \in LocsOf(l.server) : m.place = l.place => m = l

\* setLocationDescr.  (A location that is gone would be inserted without a
\* server, where nothing reads it.)
SetLocationDescr(l, d) ==
    /\ l \in locs /\ Count
    /\ locs' = (locs \ {l}) \cup {[l EXCEPT !.descr = d]}
    /\ named' = {n \in named : n.server # l.server \/ n.place # l.place}
                \cup IF ~Alone(l) \/ \E u \in Workers : Busy(u, l.server)
                     THEN {}
                     ELSE {[server |-> l.server, place |-> l.place,
                            descr |-> d]}
    /\ UNCHANGED <<servers, params, nextId, jobs, faults, shown, wanted,
                   settled>>

Place(s) == CHOOSE i \in DOMAIN wanted : wanted[i] = s

\* deleteById: the row, then its locations; parameters stay.
Del(t, s) ==
    /\ s \in DOMAIN servers /\ jobs[t] = Resting /\ Count
    /\ servers' = [r \in DOMAIN servers \ {s} |-> servers[r]]
    /\ shown' = Forget(s) /\ named' = {n \in named : n.server # s}
    /\ wanted' = IF wanted = Unknown \/ Movers # {} THEN Unknown
                 ELSE RemoveAt(wanted, Place(s))
    /\ settled' = [r \in DOMAIN settled \ {s} |-> settled[r]]
    /\ jobs' = [u \in Workers |->
                  IF u = t THEN [Resting EXCEPT !.pc = "delLocs", !.sid = s]
                  ELSE IF Busy(u, s) \/ Moving(u)
                       THEN [jobs[u] EXCEPT !.alone = FALSE] ELSE jobs[u]]
    /\ UNCHANGED <<locs, params, nextId, faults>>

DelLocs(t) ==
    /\ jobs[t].pc = "delLocs"
    /\ locs' = {l \in locs : l.server # jobs[t].sid}
    /\ Goto(t, Resting)
    /\ UNCHANGED <<servers, params, nextId, hist>>

-----------------------------------------------------------------------------
(* setSeq.                                                                 *)

WithId(s, row) == [id |-> s, row |-> row]

Move(t, s) ==
    /\ s \in DOMAIN servers /\ jobs[t] = Resting /\ Count
    /\ jobs' = [Startled EXCEPT ![t] =
                  [Resting EXCEPT !.pc = "list", !.alone = Movers = {},
                                  !.rows = <<WithId(s, servers[s])>>]]
    /\ UNCHANGED <<storeRows, faults, hist>>

\* Down: the first with a smaller number.  Up: the last with a larger one.
\* Mutant: the first one on that side, which moving up is the top.
Beyond(seq, up) ==
    {r \in DOMAIN servers : servers[r].seq # 0
                            /\ IF up THEN servers[r].seq > seq
                               ELSE servers[r].seq < seq}
TargetsFirst(seq, up) ==
    {r \in Beyond(seq, up) :
        \A q \in Beyond(seq, up) : servers[q].seq <= servers[r].seq}
Targets(seq, up) ==
    {r \in Beyond(seq, up) : \A q \in Beyond(seq, up) :
        IF up THEN servers[r].seq <= servers[q].seq
        ELSE servers[q].seq <= servers[r].seq}

\* Mutant: the rows change places, not the numbers.
RowsExchanged(a, b) == b
Exchanged(a, b) == [a EXCEPT !.seq = b.seq]

\* History: the order with the server and its neighbour exchanged.
AfterMove(s, up) ==
    LET i == Place(s)
        j == IF up THEN i - 1 ELSE i + 1
    IN  IF wanted = Unknown THEN Unknown
        ELSE [wanted EXCEPT ![i] = wanted[j], ![j] = s]

\* The list is read later than the row, which may be its own target then.
ChooseTarget(t) ==
    /\ jobs[t].pc = "list"
    /\ \E up \in BOOLEAN :
          LET s == jobs[t].rows[1].id
              row == jobs[t].rows[1].row
          IN  \E r \in Targets(row.seq, up) :
                 /\ row.seq # 0
                 /\ Goto(t, [jobs[t] EXCEPT
                       !.pc = "update", !.order = AfterMove(s, up),
                       !.rows = <<WithId(r, Exchanged(servers[r], row)),
                                  WithId(s, Exchanged(row, servers[r]))>>])
    /\ UNCHANGED <<storeRows, hist>>

\* At the end of the list, or a NullPointerException when a number is
\* missing, which may come before a target is found or not.
NoTarget(t) ==
    /\ jobs[t].pc = "list"
    /\ \/ \E up \in BOOLEAN : Targets(jobs[t].rows[1].row.seq, up) = {}
       \/ \E r \in DOMAIN servers : servers[r].seq = 0
    /\ Goto(t, Resting)
    /\ UNCHANGED <<storeRows, hist>>

\* updateById of one row and then of the other; a row that is gone is inserted
\* under a new id.
UpdateRow(t) ==
    /\ jobs[t].pc = "update"
    /\ LET s == Head(jobs[t].rows).id
           row == Head(jobs[t].rows).row
           rest == Tail(jobs[t].rows)
           id == IF s \in DOMAIN servers THEN s ELSE nextId
       IN  /\ servers' = Set(servers, id, row)
           /\ nextId' = IF id = s THEN nextId ELSE nextId + 1
           /\ settled' = IF id = s THEN settled ELSE Set(settled, id, row.edit)
           /\ IF rest # <<>>
              THEN /\ Goto(t, [jobs[t] EXCEPT !.rows = rest])
                   /\ wanted' = Unknown
              ELSE /\ Goto(t, Resting)
                   /\ wanted' = IF jobs[t].alone THEN jobs[t].order
                                ELSE Unknown
    /\ UNCHANGED <<locs, params, shown, named>>

-----------------------------------------------------------------------------
\* The request ends with an exception ("Clock moved backwards. Refusing to
\* generate id", for one) or with the panel: what is written stays.
Fail(t) ==
    /\ jobs[t].pc # "idle" /\ faults < MaxFaults /\ faults' = faults + 1
    /\ jobs' = [jobs EXCEPT ![t] = Resting]
    /\ named' = IF jobs[t].pc = "locs"
                THEN {n \in named : n.server # jobs[t].sid} ELSE named
    /\ UNCHANGED <<storeRows, requests, shown, wanted, settled>>

SaveStep(t) ==
    \/ WriteNew(t) \/ WriteOld(t) \/ ReadLocationIds(t) \/ ClearParams(t)
    \/ InsertParam(t) \/ ReadOlds(t) \/ DropLocs(t) \/ InsertLoc(t)
    \/ SaveDone(t)
MoveStep(t) ==
    ChooseTarget(t) \/ NoTarget(t) \/ UpdateRow(t)

Next ==
    \/ \E t \in Workers :
          \/ \E s \in {0} \cup 1..NServers, form \in Forms : Save(t, s, form)
          \/ \E s \in DOMAIN servers : Del(t, s) \/ Move(t, s)
          \/ SaveStep(t) \/ DelLocs(t) \/ MoveStep(t) \/ Fail(t)
    \/ \E s \in DOMAIN servers : Edit(s)
    \/ \E s \in 1..NServers : EditGone(s)
    \/ \E l \in locs, d \in Descrs : SetLocationDescr(l, d)

Spec == Init /\ [][Next]_serverVars

-----------------------------------------------------------------------------
(* Properties.                                                             *)

\* After a save that nothing disturbed, the page of a server shows what was
\* sent, in the order of the input boxes and nothing else, although all of
\* it is deleted and inserted again in reverse.  (ServerService.addOver,
\* ServerController.detail)
SavedIsShown == \A s \in DOMAIN shown : Shown(s) = shown[s]

\* The description of a location, which the form does not have, survives the
\* deletion and insertion of its location by a save that keeps its path and
\* its type.  (A save that changes the type loses it.)  Where a server has two
\* locations of that path and type, nothing is said.  (findLocationDescr)
DescrStays ==
    \A n \in named :
        \/ \E t \in Workers : jobs[t].pc = "locs" /\ jobs[t].sid = n.server
        \/ \E l \in locs : /\ l.server = n.server /\ l.place = n.place
                           /\ l.descr = n.descr

\* Moving a server exchanges it with its neighbour and leaves the others
\* where they are, a new server stands first, or behind those numbered after
\* it when creations overtake each other, and a deletion changes nothing else.
\* Two moves at a time, one that does not end, or one that an insertion or a
\* deletion meets halfway may leave any order.
\* (ServerService.setSeq)
OrderIsWanted == wanted # Unknown => Sorted(wanted)

\* Settings of a server, or that it is switched off, are undone only by a
\* move of it or of its neighbour that read the row before.  (setSeq writes
\* both rows whole)
EditsStay == \A s \in DOMAIN servers : settled[s] \in {-1, servers[s].edit}
=============================================================================
