--------------------------- MODULE HttpParamSave ---------------------------
(***************************************************************************)
(* Saving the http parameter panel (HttpController.saveEnable): the rows   *)
(* are updated one by one, the configuration built from the database is    *)
(* written to the temp directory and tested with `nginx -t`, and a failed  *)
(* test rolls the rows back.  saveEnable holds the controller's monitor,   *)
(* precheckConf and buildConf that of ConfService.  The check pages        *)
(* (ConfController.check and checkBase) write the same temp directory with *)
(* no monitor, and setEnable, addOver and del write the same rows.  An     *)
(* exception of the database or the file system ends a request wherever it *)
(* is: nothing is rolled back then.                                        *)
(*                                                                         *)
(* A configuration is the set of <<name, value>> of the enabled rows; the  *)
(* temp directory holds a main file and one file of conf.d, both of which  *)
(* `nginx -t` reads (every conf.d file is included by name).               *)
(***************************************************************************)
EXTENDS Naturals, FiniteSets, FiniteSetsExt

CONSTANTS
    Savers,         \* admins who save the panel
    Checkers,       \* admins on a page that tests a configuration
    Editors,        \* are setEnable, addOver and del used meanwhile?
    Stops,          \* may the panel be stopped?
    Ids,            \* row ids, those a SnowFlake will mint included
    InitRows,       \* the table at the start: a function on some Ids
    Names, Values,
    Locked,         \* names in a locked group (base, realip)
    Refused,        \* <<name, value>> pairs nginx refuses
    Forms,          \* <<name, value>> pairs addOver is sent
    PageConfs,      \* configurations a page may send to check
    NoName,         \* name of a row inserted without one
    NoOne,          \* a free monitor
    NoConf,         \* a missing file; a build that failed
    MaxSaves,       \* bound: saves
    MaxEdits        \* bound: other requests, exceptions and stops

Threads == Savers \cup Checkers
Rows == [name : Names \cup {NoName}, val : Values, on : BOOLEAN]
Confs == SUBSET (Names \X Values)

ASSUME RowAssumption ==
    /\ DOMAIN InitRows \subseteq Ids /\ Ids \subseteq Nat \ {0}
    /\ \A i \in DOMAIN InitRows : InitRows[i] \in Rows
    /\ Locked \subseteq Names /\ Refused \subseteq Names \X Values
    /\ PageConfs \subseteq Confs /\ Forms \subseteq Names \X Values
    /\ NoName \notin Names /\ NoOne \notin Threads
    /\ \A conf \in Confs : conf # NoConf
    /\ Savers \cap Checkers = {}
    /\ Values # {} /\ {Editors, Stops} \subseteq BOOLEAN
    /\ {MaxSaves, MaxEdits} \subseteq Nat

VARIABLES
    table,      \* Http rows: id -> row
    minted,     \* ids ever given out
    temp,       \* the temp directory: main file and conf.d file
    monitor,    \* who is inside saveEnable
    confLock,   \* who is inside precheckConf
    pc,         \* per thread: where its request stands
    list, old,  \* saveEnable: httpList (id -> its object) and oldEnable
    todo,       \* saveEnable: objects still to be written
    built,      \* the configuration a thread built or was sent
    edited,     \* history: saves under way when another request wrote a row
    trampled,   \* history: saves under way when a page wrote the temp directory
    saves, edits,
    runs        \* does `nginx -t` ever end on this host? (never changes)

files == <<temp, built>>
locals == <<list, old, todo>>
history == <<edited, trampled>>
bounds == <<saves, edits, runs>>
vars == <<table, minted, temp, monitor, confLock, pc, list, old, todo,
          built, edited, trampled, saves, edits, runs>>

Accepted(conf) == conf \cap Refused = {}

\* Mutant: a row without a name is written like any other.
BuildUnnamed(rows) ==
    {<<rows[i].name, rows[i].val>> : i \in {j \in DOMAIN rows : rows[j].on}}

\* buildConf: an enabled row without a name is a NullPointerException, and null.
Build(rows) ==
    LET on == {i \in DOMAIN rows : rows[i].on}
    IN  IF \E i \in on : rows[i].name = NoName THEN NoConf
        ELSE {<<rows[i].name, rows[i].val>> : i \in on}

\* nginx -t on the temp directory as it is now.
TestPasses == /\ temp.main # NoConf /\ Accepted(temp.main)
              /\ temp.sub # NoConf /\ Accepted(temp.sub)

Init ==
    /\ table = InitRows /\ minted = DOMAIN InitRows
    /\ temp = [main |-> NoConf, sub |-> NoConf]
    /\ monitor = NoOne /\ confLock = NoOne
    /\ pc = [t \in Threads |-> "idle"]
    /\ list = [s \in Savers |-> <<>>]
    /\ old = [s \in Savers |-> <<>>]
    /\ todo = [s \in Savers |-> {}]
    /\ built = [t \in Threads |-> NoConf]
    /\ edited = {} /\ trampled = {}
    /\ saves = 0 /\ edits = 0
    /\ runs \in BOOLEAN

Goto(t, step) == pc' = [pc EXCEPT ![t] = step]

\* A request ends: its locals are gone.
Reply(t) ==
    /\ Goto(t, "idle")
    /\ built' = [built EXCEPT ![t] = NoConf]
    /\ list' = [s \in Savers |-> IF s = t THEN <<>> ELSE list[s]]
    /\ old' = [s \in Savers |-> IF s = t THEN <<>> ELSE old[s]]
    /\ edited' = edited \ {t} /\ trampled' = trampled \ {t}

\* SnowFlake.nextId: never an id given out before.
NewId == 1 + Max(minted)

\* SqlHelper.insertOrUpdate: a row that is not there (any more) is inserted
\* under a new id, whatever id the object carries.
InsertOrUpdate(id, row) ==
    IF id \in DOMAIN table
    THEN /\ table' = [table EXCEPT ![id] = row]
         /\ UNCHANGED minted
    ELSE /\ NewId \in Ids
         /\ table' = [i \in DOMAIN table \cup {NewId} |->
                        IF i = NewId THEN row ELSE table[i]]
         /\ minted' = minted \cup {NewId}

-----------------------------------------------------------------------------
(* HttpController.saveEnable.                                              *)

\* Mutant: saveEnable is not synchronized.
EnterAnyway(s) == UNCHANGED monitor
Enter(s) == monitor = NoOne /\ monitor' = s

Want(checked, id, row) == id \in checked \/ row.name \in Locked

SaveStart(s, checked) ==
    /\ pc[s] = "idle" /\ saves < MaxSaves
    /\ Enter(s)
    /\ saves' = saves + 1
    /\ list' = [list EXCEPT ![s] =
                 [i \in DOMAIN table |-> [id |-> i, row |->
                    [table[i] EXCEPT !.on = Want(checked, i, table[i])]]]]
    /\ old' = [old EXCEPT ![s] = [i \in DOMAIN table |-> table[i].on]]
    /\ todo' = [todo EXCEPT ![s] = {i \in DOMAIN table :
                 table[i].on # Want(checked, i, table[i])}]
    /\ Goto(s, "update")
    /\ UNCHANGED <<table, minted, confLock, files, history, edits, runs>>

\* updateById writes the whole object read at the start.
WriteObject(s, i, row) ==
    LET id == list[s][i].id
    IN  /\ InsertOrUpdate(id, row)
        /\ list' = [list EXCEPT ![s][i] =
                     [id |-> IF id \in DOMAIN table THEN id ELSE NewId,
                      row |-> row]]
        /\ todo' = [todo EXCEPT ![s] = @ \ {i}]
        /\ UNCHANGED <<temp, monitor, confLock, pc, old, built, history,
                       bounds>>

\* The loops go through httpList in its order.
UpdateRow(s) ==
    /\ pc[s] = "update" /\ todo[s] # {}
    /\ LET i == Min(todo[s]) IN WriteObject(s, i, list[s][i].row)

\* precheckConf: the monitor of ConfService, then the build.
PrecheckBuild(s) ==
    /\ pc[s] = "update" /\ todo[s] = {}
    /\ confLock = NoOne /\ confLock' = s
    /\ built' = [built EXCEPT ![s] = Build(table)]
    /\ Goto(s, IF Build(table) = NoConf THEN "failed" ELSE "del")
    /\ UNCHANGED <<table, minted, temp, monitor, locals, history, bounds>>

\* nginxExe is not set, nginx cannot be run, the wait is interrupted or ends
\* after 15 seconds: "SKIPPED", which counts as saved.
\* Mutant: no time limit on the test.
SkipFromUnset == {"update"}
SkipFrom == {"update", "test"}
PrecheckSkipped(s) ==
    /\ pc[s] \in SkipFrom /\ todo[s] = {}
    /\ pc[s] = "update" => confLock = NoOne
    /\ Reply(s)
    /\ monitor' = NoOne /\ confLock' = NoOne
    /\ UNCHANGED <<table, minted, temp, todo, bounds>>

PrecheckPassed(s) ==
    /\ pc[s] = "test" /\ runs /\ TestPasses
    /\ confLock' = NoOne
    /\ Goto(s, "saved")
    /\ UNCHANGED <<table, minted, temp, monitor, locals, built, history,
                   bounds>>

\* "Saved", or what nginx said about it.
ReplyOutcome(s) ==
    /\ pc[s] \in {"saved", "refused"}
    /\ Reply(s)
    /\ monitor' = NoOne
    /\ UNCHANGED <<table, minted, confLock, temp, todo, bounds>>

PrecheckFailed(s) ==
    /\ \/ pc[s] = "failed"
       \/ pc[s] = "test" /\ runs /\ ~TestPasses
    /\ confLock' = NoOne
    /\ Goto(s, "rollback")
    /\ todo' = [todo EXCEPT ![s] = {i \in DOMAIN list[s] :
                 list[s][i].id # i \/ list[s][i].row.on # old[s][i]}]
    /\ UNCHANGED <<table, minted, temp, monitor, list, old, built, history,
                   bounds>>

\* An object under a new id finds no old enable: null, which updateById does
\* not write (and an insert replaces by the default, true).
OldOn(s, i) ==
    LET id == list[s][i].id
    IN  IF id = i THEN old[s][i]
        ELSE IF id \in DOMAIN table THEN table[id].on ELSE TRUE

RollbackRow(s) ==
    /\ pc[s] = "rollback" /\ todo[s] # {}
    /\ LET i == Min(todo[s])
       IN WriteObject(s, i, [list[s][i].row EXCEPT !.on = OldOn(s, i)])

RollbackDone(s) ==
    /\ pc[s] = "rollback" /\ todo[s] = {}
    /\ Goto(s, "refused")
    /\ UNCHANGED <<table, minted, temp, monitor, confLock, locals, built,
                   history, bounds>>

-----------------------------------------------------------------------------
(* The temp directory: ConfService.replace with isReplace = false.         *)

Trample(t) ==
    /\ trampled' = IF t \in Savers THEN trampled
                   ELSE trampled \cup {s \in Savers : pc[s] # "idle"}
    /\ UNCHANGED edited

tempRest == UNCHANGED <<table, minted, monitor, confLock, locals, bounds>>

DelTemp(t) ==
    /\ pc[t] = "del"
    /\ temp' = [main |-> NoConf, sub |-> NoConf]
    /\ Goto(t, IF built[t] = NoConf THEN "build" ELSE "clear")
    /\ Trample(t) /\ tempRest /\ UNCHANGED built

\* checkBase builds after the deletion and waits for ConfService's monitor; a
\* build that failed ends the request (NullPointerException).
CheckBaseBuild(c) ==
    /\ pc[c] = "build" /\ confLock = NoOne
    /\ IF Build(table) = NoConf
         THEN Reply(c)
         ELSE /\ built' = [built EXCEPT ![c] = Build(table)]
              /\ Goto(c, "clear")
              /\ UNCHANGED <<list, old, history>>
    /\ UNCHANGED <<table, minted, temp, monitor, confLock, todo, bounds>>

ClearSubs(t) ==
    /\ pc[t] = "clear"
    /\ temp' = [temp EXCEPT !.sub = NoConf]
    /\ Goto(t, "main")
    /\ Trample(t) /\ tempRest /\ UNCHANGED built

WriteMain(t) ==
    /\ pc[t] = "main"
    /\ temp' = [temp EXCEPT !.main = built[t]]
    /\ Goto(t, "sub")
    /\ Trample(t) /\ tempRest /\ UNCHANGED built

WriteSub(t) ==
    /\ pc[t] = "sub"
    /\ temp' = [temp EXCEPT !.sub = built[t]]
    /\ Goto(t, "test")
    /\ Trample(t) /\ tempRest /\ UNCHANGED built

-----------------------------------------------------------------------------
(* The other requests.                                                     *)

\* check sends the configuration of the page (conf), checkBase none.  The pages
\* wait for nginx as long as it takes.
CheckStart(c, conf) ==
    /\ pc[c] = "idle" /\ edits < MaxEdits
    /\ edits' = edits + 1
    /\ built' = [built EXCEPT ![c] = conf]
    /\ Goto(c, "del")
    /\ UNCHANGED <<table, minted, temp, monitor, confLock, locals, history,
                   saves, runs>>

CheckDone(c) ==
    /\ pc[c] = "test" /\ runs
    /\ Reply(c)
    /\ UNCHANGED <<table, minted, temp, monitor, confLock, todo, bounds>>

Edit ==
    /\ Editors /\ edits < MaxEdits /\ edits' = edits + 1
    /\ edited' = edited \cup {s \in Savers : pc[s] # "idle"}
    /\ UNCHANGED <<temp, monitor, confLock, pc, locals, built, trampled, saves,
                   runs>>

\* Null columns are not written: enable alone, or value alone.  A row that is
\* gone is inserted with nothing but what the request sent.
SetEnable(i, on) ==
    /\ Edit
    /\ InsertOrUpdate(i, [IF i \in DOMAIN table THEN table[i]
                          ELSE [name |-> NoName, on |-> on,
                                val |-> CHOOSE v \in Values : TRUE]
                          EXCEPT !.on = on])

\* The form sends name and value; a new row is enabled (InitValue).
AddOver(i, form) ==
    /\ Edit
    /\ InsertOrUpdate(i, [name |-> form[1], val |-> form[2],
                          on |-> i \in DOMAIN table => table[i].on])

Del(i) ==
    /\ Edit /\ i \in DOMAIN table
    /\ table' = [j \in DOMAIN table \ {i} |-> table[j]]
    /\ UNCHANGED minted

-----------------------------------------------------------------------------
(* Failures.                                                               *)

\* Statements and files may throw, and neither saveEnable nor precheckConf nor
\* replace catches it: the request ends and leaves its monitors, and what it
\* has written stays.  (A write is done or not, never half.)
Throwing == {"update", "rollback", "del", "build", "clear", "main", "sub"}
Throw(t) ==
    /\ pc[t] \in Throwing /\ edits < MaxEdits /\ edits' = edits + 1
    /\ Reply(t)
    /\ todo' = [s \in Savers |-> IF s = t THEN {} ELSE todo[s]]
    /\ monitor' = (IF monitor = t THEN NoOne ELSE monitor)
    /\ confLock' = (IF confLock = t THEN NoOne ELSE confLock)
    /\ UNCHANGED <<table, minted, temp, saves, runs>>

\* The panel stops and starts again: rows and files are all that is left.
Stop ==
    /\ Stops /\ edits < MaxEdits /\ edits' = edits + 1
    /\ monitor' = NoOne /\ confLock' = NoOne
    /\ pc' = [t \in Threads |-> "idle"]
    /\ built' = [t \in Threads |-> NoConf]
    /\ list' = [s \in Savers |-> <<>>] /\ old' = list'
    /\ todo' = [s \in Savers |-> {}]
    /\ edited' = {} /\ trampled' = {}
    /\ UNCHANGED <<table, minted, temp, saves, runs>>

-----------------------------------------------------------------------------
Save(s) ==
    \/ UpdateRow(s) \/ RollbackRow(s) \/ ReplyOutcome(s) \/ RollbackDone(s)
    \/ PrecheckBuild(s) \/ PrecheckSkipped(s)
    \/ PrecheckPassed(s) \/ PrecheckFailed(s)

Temp(t) == DelTemp(t) \/ ClearSubs(t) \/ WriteMain(t) \/ WriteSub(t)
Check(c) == CheckBaseBuild(c) \/ CheckDone(c)

Next ==
    \/ \E s \in Savers :
         Save(s) \/ \E checked \in SUBSET (DOMAIN table) : SaveStart(s, checked)
    \/ \E t \in Threads : Temp(t) \/ Throw(t)
    \/ Stop
    \/ \E c \in Checkers :
         Check(c) \/ \E conf \in {NoConf} \cup PageConfs : CheckStart(c, conf)
    \/ \E i \in minted, on \in BOOLEAN : SetEnable(i, on)
    \/ \E i \in minted \cup {0}, form \in Forms : AddOver(i, form)   \* 0: no id
    \/ \E i \in minted : Del(i)

\* A request that was let in runs on; a monitor that is free again and again is
\* granted in the end.
Fairness ==
    /\ \A s \in Savers : SF_vars(Save(s))
    /\ \A t \in Threads : WF_vars(Temp(t))
    /\ \A c \in Checkers : SF_vars(Check(c))

Spec == Init /\ [][Next]_vars
FairSpec == Spec /\ Fairness
-----------------------------------------------------------------------------
(* Properties.                                                             *)

Steps == {"idle", "update", "failed", "rollback", "refused", "del", "build",
          "clear", "main", "sub", "test", "saved"}

\* Every variable holds a value the code could hold, and a row of the table
\* that has an id was given it by InsertOrUpdate or the start.
TypeOK ==
    /\ DOMAIN table \subseteq minted /\ minted \subseteq Ids
    /\ \A i \in DOMAIN table : table[i] \in Rows
    /\ temp \in [main : {NoConf} \cup Confs, sub : {NoConf} \cup Confs]
    /\ monitor \in Savers \cup {NoOne} /\ confLock \in Savers \cup {NoOne}
    /\ pc \in [Threads -> Steps]
    /\ \A s \in Savers :
         /\ DOMAIN list[s] = DOMAIN old[s] /\ todo[s] \subseteq DOMAIN list[s]
         /\ \A i \in DOMAIN list[s] :
              list[s][i].id \in minted /\ list[s][i].row \in Rows
    /\ built \in [Threads -> {NoConf} \cup Confs]

\* The rows are those the save found.
Undone(s) ==
    /\ DOMAIN table = DOMAIN old[s]
    /\ \A i \in DOMAIN table :
         table[i] = [list[s][i].row EXCEPT !.on = old[s][i]]

\* A save that is answered with what nginx said has left exactly the rows it
\* found, even when a page made the test fail, unless another request wrote
\* rows meanwhile.  A save that an exception ends is not answered so, and
\* leaves what it has written by then.
\* (HttpController.saveEnable)
RollbackExact ==
    [][\A s \in Savers :
         pc[s] = "rollback" /\ pc'[s] = "refused" /\ s \notin edited =>
            Undone(s)]_vars

\* A save answered "saved" (tested, not skipped) left rows whose configuration
\* nginx accepts, unless another request came in between.
SavedIsAccepted ==
    [][\A s \in Savers :
         pc[s] = "test" /\ pc'[s] = "saved" /\ s \notin edited \cup trampled =>
            Build(table) # NoConf /\ Accepted(Build(table))]_vars

\* Every save is answered and leaves the monitor, even on a host where
\* `nginx -t` hangs: nobody is locked out of saving (ConfService.java:655).
EverySaveAnswered == []<>(monitor = NoOne)

\* ConfService.java:623: the test that answers "passed" read the configuration
\* built from the database.
PassedTestIsOwn ==
    [][\A s \in Savers :
         pc[s] = "test" /\ pc'[s] = "saved" =>
            temp.main = built[s] /\ temp.sub = built[s]]_vars

\* HttpController.java:242: a save updates Http.enable, no other column and not
\* the set of rows.
WritesEnableOnly ==
    [][\A s \in Savers :
         (todo'[s] # todo[s] /\ pc'[s] = pc[s]
          /\ pc[s] \in {"update", "rollback"}) =>
            /\ DOMAIN table' = DOMAIN table
            /\ \A i \in DOMAIN table :
                 table'[i] = [table[i] EXCEPT !.on = table'[i].on]]_vars
=============================================================================
