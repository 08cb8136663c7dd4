------------------------ MODULE HttpParamSaveProofs ------------------------
(***************************************************************************)
(* What holds of saving the http parameters for any rows, forms, pages and *)
(* refused configurations, and any number of admins.                       *)
(***************************************************************************)
EXTENDS HttpParamSave, WellFoundedInduction, TLAPS

-----------------------------------------------------------------------------
(* Inductive invariants.                                                   *)

Prechecking == {"failed", "del", "clear", "main", "sub", "test"}

\* Locals of a save, which has nothing left to write where it neither updates
\* nor rolls back.
LocalsSet ==
    /\ DOMAIN list = Savers /\ DOMAIN old = Savers /\ DOMAIN todo = Savers
    /\ \A s \in Savers :
          /\ DOMAIN list[s] \subseteq Ids
          /\ \A i \in DOMAIN old[s] : old[s][i] \in BOOLEAN
          /\ pc[s] \notin {"update", "rollback"} => todo[s] = {}

\* A save is inside the controller's monitor from its start to its answer, and
\* inside that of ConfService from the build to the outcome of the test.
Inside ==
    \A s \in Savers :
        /\ pc[s] # "idle" <=> monitor = s
        /\ pc[s] \in Prechecking <=> confLock = s
        /\ pc[s] # "build"

TypeInv == TypeOK /\ LocalsSet /\ Inside

\* What a save tests is what it built, and that is of the rows in the table.
BuiltInv ==
    \A s \in Savers : pc[s] \in Prechecking \ {"failed"} =>
        /\ built[s] # NoConf
        /\ s \notin edited => built[s] = Build(table)
        /\ s \notin trampled =>
              /\ pc[s] \in {"sub", "test"} => temp.main = built[s]
              /\ pc[s] = "test" => temp.sub = built[s]

\* The rows of the table are the objects of the save, but for those it has
\* not written yet, and those it has not rolled back.
RowsInv ==
    \A s \in Savers : pc[s] # "idle" /\ s \notin edited =>
        /\ DOMAIN table = DOMAIN list[s]
        /\ \A i \in DOMAIN list[s] :
              /\ list[s][i].id = i
              /\ pc[s] = "update" /\ i \in todo[s] =>
                    table[i] = [list[s][i].row EXCEPT !.on = old[s][i]]
              /\ pc[s] # "update" \/ i \notin todo[s] =>
                    table[i] = list[s][i].row
              /\ pc[s] = "rollback" /\ i \notin todo[s] =>
                    list[s][i].row.on = old[s][i]

SaveInv == TypeInv /\ BuiltInv /\ RowsInv

-----------------------------------------------------------------------------
(* Lemmas about the operators.                                             *)

\* The least of some row ids is one of them.
LEMMA MinIn ==
    ASSUME NEW S, S \subseteq Nat, S # {}
    PROVE  Min(S) \in S
<1> DEFINE R == OpToRel(<, Nat)
<1>1. \E i \in S : \A j \in S : ~(<<j, i>> \in R)
  BY NatLessThanWellFounded, WFMin
<1>2. \A i, j \in S : <<j, i>> \notin R => i <= j
  BY DEF OpToRel
<1>3. \E i \in S : \A j \in S : i <= j
  BY <1>1, <1>2
<1> QED BY <1>3 DEF Min

\* Writing a row keeps the table well formed.
LEMMA InsertOrUpdateType ==
    ASSUME RowAssumption, TypeOK, NEW id, NEW row \in Rows,
           InsertOrUpdate(id, row)
    PROVE  /\ DOMAIN table' \subseteq minted' /\ minted' \subseteq Ids
           /\ minted \subseteq minted'
           /\ \A i \in DOMAIN table' : table'[i] \in Rows
           /\ id \notin DOMAIN table => NewId \in minted'
<1>1. CASE id \in DOMAIN table
  BY <1>1 DEF InsertOrUpdate, TypeOK
<1>2. CASE id \notin DOMAIN table
  <2> DEFINE new == NewId
             grown == [i \in DOMAIN table \cup {new} |->
                         IF i = new THEN row ELSE table[i]]
  <2>1. new \in Ids /\ table' = grown /\ minted' = minted \cup {new}
    BY <1>2 DEF InsertOrUpdate
  <2>2. NewId = new
    OBVIOUS
  <2> HIDE DEF new
  <2>3. DOMAIN grown = DOMAIN table \cup {new}
    OBVIOUS
  <2>4. \A i \in DOMAIN grown : grown[i] \in Rows
    BY DEF TypeOK
  <2> HIDE DEF grown
  <2> QED BY <2>1, <2>2, <2>3, <2>4 DEF TypeOK
<1> QED BY <1>1, <1>2

\* A build is a configuration, or none.
LEMMA BuildType ==
    ASSUME RowAssumption, TypeOK
    PROVE  Build(table) \in {NoConf} \cup Confs
<1>1. CASE \E i \in DOMAIN table : table[i].on /\ table[i].name = NoName
  BY <1>1 DEF Build
<1>2. CASE ~\E i \in DOMAIN table : table[i].on /\ table[i].name = NoName
  BY <1>2 DEF Build, TypeOK, Rows, Confs
<1> QED BY <1>1, <1>2

-----------------------------------------------------------------------------
(* The start, and the steps that leave the rows alone.                     *)

\* The table at the start satisfies the invariant.
LEMMA InitInv ==
    ASSUME RowAssumption, Init
    PROVE  SaveInv
<1>1. TypeOK
  BY DEF Init, TypeOK, RowAssumption, Steps, Threads, Confs
<1>2. LocalsSet /\ Inside
  BY DEF Init, LocalsSet, Inside, RowAssumption, Threads, Prechecking
<1>3. BuiltInv /\ RowsInv
  BY DEF Init, BuiltInv, RowsInv, Prechecking, Threads
<1> QED BY <1>1, <1>2, <1>3 DEF SaveInv, TypeInv

\* Two saves are never under way together.
LEMMA OneInside ==
    ASSUME SaveInv, NEW s \in Savers, pc[s] # "idle", NEW r \in Savers, r # s
    PROVE  pc[r] = "idle" /\ monitor = s
BY DEF SaveInv, TypeInv, Inside

\* A stutter keeps the invariant.
LEMMA StutterStep ==
    ASSUME SaveInv, UNCHANGED vars
    PROVE  SaveInv'
<1>1. TypeOK' /\ LocalsSet' /\ Inside'
  BY DEF SaveInv, TypeInv, vars, TypeOK, LocalsSet, Inside
<1>2. BuiltInv'
  BY DEF SaveInv, vars, BuiltInv, Build
<1>3. RowsInv'
  BY DEF SaveInv, vars, RowsInv
<1> QED BY <1>1, <1>2, <1>3 DEF SaveInv, TypeInv

\* The four writes to the temp directory, by a save or by a page.
LEMMA TempStep ==
    ASSUME RowAssumption, SaveInv, NEW t \in Threads, Temp(t)
    PROVE  SaveInv'
<1> USE DEF SaveInv, TypeInv
<1>1. /\ pc[t] \in {"del", "clear", "main", "sub"}
      /\ UNCHANGED <<table, minted, monitor, confLock, list, old, todo, built,
                     edited>>
  BY DEF Temp, DelTemp, ClearSubs, WriteMain, WriteSub, tempRest, Trample,
         locals
<1>2. \E step \in {"build", "clear", "main", "sub", "test"} :
        /\ pc' = [pc EXCEPT ![t] = step]
        /\ t \in Savers => step # "build"
  BY DEF Temp, DelTemp, ClearSubs, WriteMain, WriteSub, Goto, BuiltInv,
         Prechecking
<1>3. temp' \in [main : {NoConf} \cup Confs, sub : {NoConf} \cup Confs]
  BY DEF Temp, DelTemp, ClearSubs, WriteMain, WriteSub, TypeOK
<1>4. TypeOK'
  BY <1>1, <1>2, <1>3 DEF TypeOK, Steps
<1>5. LocalsSet' /\ Inside'
  BY <1>1, <1>2 DEF LocalsSet, Inside, TypeOK, Prechecking
<1>6. RowsInv'
  BY <1>1, <1>2 DEF RowsInv, TypeOK
<1>7. BuiltInv'
  <2> SUFFICES ASSUME NEW s \in Savers, pc'[s] \in Prechecking \ {"failed"}
               PROVE  /\ built'[s] # NoConf
                      /\ s \notin edited' => built'[s] = Build(table')
                      /\ s \notin trampled' =>
                            /\ pc'[s] \in {"sub", "test"} =>
                                  temp'.main = built'[s]
                            /\ pc'[s] = "test" => temp'.sub = built'[s]
    BY DEF BuiltInv, Build
  <2>1. pc[s] \in Prechecking \ {"failed"}
    BY <1>1, <1>2 DEF TypeOK, Prechecking
  <2>2. built'[s] # NoConf /\ (s \notin edited' => built'[s] = Build(table'))
    BY <1>1, <2>1 DEF BuiltInv, Build
  <2>3. CASE t = s
    BY <1>1, <2>1, <2>3 DEF BuiltInv, TypeOK, Prechecking, Temp, DelTemp,
       ClearSubs, WriteMain, WriteSub, Trample, Goto
  <2>4. CASE t # s /\ t \in Savers
    BY <2>4, <2>1, <1>1, OneInside DEF Prechecking
  <2>5. CASE t \notin Savers
    <3>1. s \in trampled'
      BY <2>5, <2>1 DEF Prechecking, Temp, DelTemp, ClearSubs, WriteMain,
         WriteSub, Trample
    <3> QED BY <2>2, <3>1
  <2> QED BY <2>2, <2>3, <2>4, <2>5
<1> QED BY <1>4, <1>5, <1>6, <1>7

\* A save's answer: skipped, saved or failed.
LEMMA AnswerStep ==
    ASSUME RowAssumption, SaveInv, NEW s \in Savers,
           PrecheckSkipped(s) \/ ReplyOutcome(s)
    PROVE  SaveInv'
<1> USE DEF SaveInv, TypeInv
<1>1. /\ pc[s] \in {"update", "test", "saved", "refused"} /\ todo[s] = {}
      /\ Reply(s) /\ monitor' = NoOne /\ confLock' \in {confLock, NoOne}
      /\ pc[s] = "test" => confLock' = NoOne
      /\ UNCHANGED <<table, minted, temp, todo>>
  <2>1. CASE PrecheckSkipped(s)
    BY <2>1 DEF PrecheckSkipped, SkipFrom
  <2>2. CASE ReplyOutcome(s)
    BY <2>2 DEF ReplyOutcome, LocalsSet
  <2> QED BY <2>1, <2>2
<1>2. /\ pc' = [pc EXCEPT ![s] = "idle"]
      /\ built' = [built EXCEPT ![s] = NoConf]
      /\ list' = [r \in Savers |-> IF r = s THEN <<>> ELSE list[r]]
      /\ old' = [r \in Savers |-> IF r = s THEN <<>> ELSE old[r]]
  BY <1>1 DEF Reply, Goto
<1>3. \A r \in Savers : r # s => pc[r] = "idle"
  BY <1>1, OneInside
<1>4. \A r \in Savers : pc'[r] = "idle"
  BY <1>2, <1>3 DEF TypeOK, Threads
<1>5. TypeOK'
  <2>1. pc' \in [Threads -> Steps] /\ built' \in [Threads -> {NoConf} \cup Confs]
    BY <1>2 DEF TypeOK, Steps
  <2>2. monitor' \in Savers \cup {NoOne} /\ confLock' \in Savers \cup {NoOne}
    BY <1>1 DEF TypeOK
  <2>3. ASSUME NEW r \in Savers
        PROVE  /\ DOMAIN list'[r] = DOMAIN old'[r]
               /\ todo'[r] \subseteq DOMAIN list'[r]
               /\ \A i \in DOMAIN list'[r] :
                    list'[r][i].id \in minted' /\ list'[r][i].row \in Rows
    <3>1. CASE r = s
      BY <3>1, <1>1, <1>2
    <3>2. CASE r # s
      BY <3>2, <1>1, <1>2 DEF TypeOK
    <3> QED BY <3>1, <3>2
  <2> QED BY <1>1, <2>1, <2>2, <2>3 DEF TypeOK
<1>6. LocalsSet'
  <2>1. ASSUME NEW r \in Savers PROVE todo'[r] = {}
    BY <1>1, <1>3 DEF LocalsSet
  <2>2. ASSUME NEW r \in Savers, NEW i \in DOMAIN old'[r]
        PROVE  old'[r][i] \in BOOLEAN
    BY <1>2 DEF LocalsSet
  <2> QED BY <1>1, <1>2, <2>1, <2>2 DEF LocalsSet
<1>7. Inside'
  <2>1. confLock' \notin Savers
    BY <1>1, <1>3 DEF Inside, RowAssumption, Threads, TypeOK, Prechecking
  <2> QED BY <1>1, <1>4, <2>1 DEF Inside, RowAssumption, Threads, Prechecking
<1>8. BuiltInv' /\ RowsInv'
  BY <1>4 DEF BuiltInv, RowsInv, Prechecking
<1> QED BY <1>5, <1>6, <1>7, <1>8

\* The rollback is done: what nginx said is answered next.
LEMMA RolledBackStep ==
    ASSUME RowAssumption, SaveInv, NEW s \in Savers, RollbackDone(s)
    PROVE  SaveInv'
<1> USE DEF SaveInv, TypeInv
<1>1. /\ pc[s] = "rollback" /\ todo[s] = {} /\ s \in Threads
      /\ pc' = [pc EXCEPT ![s] = "refused"]
      /\ UNCHANGED <<table, minted, temp, monitor, confLock, list, old, todo,
                     built, edited, trampled>>
  BY DEF RollbackDone, Goto, locals, history, Threads
<1>2. \A r \in Savers : r # s => pc'[r] = pc[r]
  BY <1>1 DEF TypeOK, Threads
<1>3. pc'[s] = "refused"
  BY <1>1 DEF TypeOK
<1>4. TypeOK'
  BY <1>1 DEF TypeOK, Steps
<1>5. LocalsSet'
  BY <1>1, <1>2, <1>3 DEF LocalsSet
<1>6. Inside'
  BY <1>1, <1>2, <1>3 DEF Inside, Prechecking
<1>7. BuiltInv'
  <2>1. ASSUME NEW r \in Savers, pc'[r] \in Prechecking
        PROVE  pc'[r] = pc[r]
    BY <2>1, <1>2, <1>3 DEF Prechecking
  <2> QED BY <2>1, <1>1 DEF BuiltInv
<1>8. RowsInv'
  BY <1>1, <1>2, <1>3 DEF RowsInv
<1> QED BY <1>4, <1>5, <1>6, <1>7, <1>8

\* An exception ends one request and touches no row.
LEMMA ThrowStep ==
    ASSUME RowAssumption, SaveInv, NEW t \in Threads, Throw(t)
    PROVE  SaveInv'
<1> USE DEF SaveInv, TypeInv
<1>1. /\ pc' = [pc EXCEPT ![t] = "idle"]
      /\ built' = [built EXCEPT ![t] = NoConf]
      /\ list' = [r \in Savers |-> IF r = t THEN <<>> ELSE list[r]]
      /\ old' = [r \in Savers |-> IF r = t THEN <<>> ELSE old[r]]
      /\ todo' = [r \in Savers |-> IF r = t THEN {} ELSE todo[r]]
      /\ edited' = edited \ {t} /\ trampled' = trampled \ {t}
      /\ monitor' = (IF monitor = t THEN NoOne ELSE monitor)
      /\ confLock' = (IF confLock = t THEN NoOne ELSE confLock)
      /\ UNCHANGED <<table, minted, temp>>
  BY DEF Throw, Reply, Goto
<1>2. \A r \in Savers : r \in Threads /\ r # NoOne
  BY DEF Threads, RowAssumption
<1>3. ASSUME NEW r \in Savers, r # t
      PROVE  /\ pc'[r] = pc[r] /\ built'[r] = built[r] /\ list'[r] = list[r]
             /\ old'[r] = old[r] /\ todo'[r] = todo[r]
             /\ (r \in edited' <=> r \in edited)
             /\ (r \in trampled' <=> r \in trampled)
             /\ (monitor' = r <=> monitor = r)
             /\ (confLock' = r <=> confLock = r)
  BY <1>1, <1>2, <1>3 DEF TypeOK
<1>4. ASSUME NEW r \in Savers, r = t
      PROVE  /\ pc'[r] = "idle" /\ list'[r] = <<>> /\ old'[r] = <<>>
             /\ todo'[r] = {} /\ monitor' # r /\ confLock' # r
  BY <1>1, <1>2, <1>4 DEF TypeOK
<1>5. TypeOK'
  <2>1. pc' \in [Threads -> Steps] /\ built' \in [Threads -> {NoConf} \cup Confs]
    BY <1>1 DEF TypeOK, Steps
  <2>2. monitor' \in Savers \cup {NoOne} /\ confLock' \in Savers \cup {NoOne}
    BY <1>1 DEF TypeOK
  <2>3. ASSUME NEW r \in Savers
        PROVE  /\ DOMAIN list'[r] = DOMAIN old'[r]
               /\ todo'[r] \subseteq DOMAIN list'[r]
               /\ \A i \in DOMAIN list'[r] :
                    list'[r][i].id \in minted' /\ list'[r][i].row \in Rows
    <3>1. CASE r = t
      BY <3>1, <1>4
    <3>2. CASE r # t
      BY <3>2, <1>1, <1>3 DEF TypeOK
    <3> QED BY <3>1, <3>2
  <2> QED BY <1>1, <2>1, <2>2, <2>3 DEF TypeOK
<1>6. LocalsSet'
  <2>1. ASSUME NEW r \in Savers
        PROVE  /\ DOMAIN list'[r] \subseteq Ids
               /\ \A i \in DOMAIN old'[r] : old'[r][i] \in BOOLEAN
               /\ pc'[r] \notin {"update", "rollback"} => todo'[r] = {}
    <3>1. CASE r = t
      BY <3>1, <1>4
    <3>2. CASE r # t
      BY <3>2, <1>3 DEF LocalsSet
    <3> QED BY <3>1, <3>2
  <2> QED BY <1>1, <2>1 DEF LocalsSet
<1>7. Inside'
  <2>1. ASSUME NEW r \in Savers
        PROVE  /\ pc'[r] # "idle" <=> monitor' = r
               /\ pc'[r] \in Prechecking <=> confLock' = r
               /\ pc'[r] # "build"
    <3>1. CASE r = t
      BY <3>1, <1>4 DEF Prechecking
    <3>2. CASE r # t
      BY <3>2, <1>3 DEF Inside
    <3> QED BY <3>1, <3>2
  <2> QED BY <2>1 DEF Inside
<1>8. \A r \in Savers : pc'[r] # "idle" => r # t
  BY <1>4
<1>9. BuiltInv'
  BY <1>1, <1>3, <1>8 DEF BuiltInv, Prechecking
<1>10. RowsInv'
  BY <1>1, <1>3, <1>8 DEF RowsInv
<1> QED BY <1>5, <1>6, <1>7, <1>9, <1>10

\* A stop ends every request.
LEMMA StopStep ==
    ASSUME RowAssumption, SaveInv, Stop
    PROVE  SaveInv'
<1> USE DEF SaveInv, TypeInv
<1>1. /\ monitor' = NoOne /\ confLock' = NoOne
      /\ pc' = [t \in Threads |-> "idle"] /\ built' = [t \in Threads |-> NoConf]
      /\ list' = [s \in Savers |-> <<>>] /\ old' = [s \in Savers |-> <<>>]
      /\ todo' = [s \in Savers |-> {}]
      /\ UNCHANGED <<table, minted, temp>>
  BY DEF Stop
<1>2. \A s \in Savers : pc'[s] = "idle" /\ s # NoOne
  BY <1>1 DEF Threads, RowAssumption
<1>3. TypeOK'
  BY <1>1 DEF TypeOK, Steps
<1>4. LocalsSet' /\ Inside'
  BY <1>1, <1>2 DEF LocalsSet, Inside, Prechecking
<1>5. BuiltInv' /\ RowsInv'
  BY <1>2 DEF BuiltInv, RowsInv, Prechecking
<1> QED BY <1>3, <1>4, <1>5

\* The build of the test, and a test that passes.
LEMMA TestStep ==
    ASSUME RowAssumption, SaveInv, NEW s \in Savers,
           PrecheckBuild(s) \/ PrecheckPassed(s)
    PROVE  SaveInv'
<1> USE DEF SaveInv, TypeInv
<1>1. /\ pc[s] \in {"update", "test"} /\ todo[s] = {}
      /\ UNCHANGED <<table, minted, temp, monitor, list, old, todo, edited,
                     trampled>>
  BY DEF PrecheckBuild, PrecheckPassed, locals, history, LocalsSet
<1>2. \/ /\ pc[s] = "update" /\ confLock = NoOne /\ confLock' = s
         /\ built' = [built EXCEPT ![s] = Build(table)]
         /\ pc' = [pc EXCEPT ![s] = IF Build(table) = NoConf THEN "failed"
                                    ELSE "del"]
      \/ /\ pc[s] = "test" /\ confLock' = NoOne /\ UNCHANGED built
         /\ pc' = [pc EXCEPT ![s] = "saved"]
  BY DEF PrecheckBuild, PrecheckPassed, Goto
<1>3. \A r \in Savers : r # s => pc[r] = "idle"
  BY <1>1, OneInside
<1>4. \A r \in Savers : r # s => pc'[r] = "idle"
  BY <1>2, <1>3 DEF TypeOK, Threads
<1>5. TypeOK'
  <2>1. pc' \in [Threads -> Steps] /\ built' \in [Threads -> {NoConf} \cup Confs]
    BY <1>2, BuildType DEF TypeOK, Steps
  <2> QED BY <1>1, <1>2, <2>1 DEF TypeOK
<1>6. pc'[s] \in {"failed", "del", "saved"}
  BY <1>2 DEF TypeOK, Threads
<1>7. LocalsSet'
  BY <1>1, <1>3 DEF LocalsSet
<1>8. Inside'
  BY <1>1, <1>2, <1>3, <1>4, <1>6
     DEF Inside, RowAssumption, Threads, Prechecking, TypeOK
<1>9. BuiltInv'
  <2>1. pc'[s] \in Prechecking \ {"failed"} =>
           /\ pc'[s] = "del" /\ built'[s] = Build(table) /\ Build(table) # NoConf
    BY <1>2 DEF TypeOK, Threads, Prechecking
  <2> QED BY <1>1, <1>4, <2>1 DEF BuiltInv, Build, Prechecking
<1>10. RowsInv'
  BY <1>1, <1>4, <1>6 DEF RowsInv
<1> QED BY <1>5, <1>7, <1>8, <1>9, <1>10

\* A failed test: the rollback starts with the rows whose enable changed.
LEMMA FailedStep ==
    ASSUME RowAssumption, SaveInv, NEW s \in Savers, PrecheckFailed(s)
    PROVE  SaveInv'
<1> USE DEF SaveInv, TypeInv
<1>1. /\ pc[s] \in {"failed", "test"} /\ confLock' = NoOne
      /\ pc' = [pc EXCEPT ![s] = "rollback"]
      /\ todo' = [todo EXCEPT ![s] = {i \in DOMAIN list[s] :
                   list[s][i].id # i \/ list[s][i].row.on # old[s][i]}]
      /\ UNCHANGED <<table, minted, temp, monitor, list, old, built, edited,
                     trampled>>
  BY DEF PrecheckFailed, Goto, history
<1>2. \A r \in Savers : r # s => pc[r] = "idle"
  BY <1>1, OneInside
<1>3. pc'[s] = "rollback" /\ \A r \in Savers : r # s => pc'[r] = "idle"
  BY <1>1, <1>2 DEF TypeOK, Threads
<1>4. TypeOK'
  <2>1. pc' \in [Threads -> Steps]
    BY <1>1 DEF TypeOK, Steps
  <2>2. \A r \in Savers : todo'[r] \subseteq DOMAIN list[r]
    BY <1>1 DEF TypeOK, LocalsSet
  <2> QED BY <1>1, <2>1, <2>2 DEF TypeOK
<1>5. LocalsSet'
  BY <1>1, <1>2, <1>3 DEF LocalsSet
<1>6. Inside'
  BY <1>1, <1>2, <1>3 DEF Inside, RowAssumption, Threads, Prechecking
<1>7. BuiltInv'
  BY <1>3 DEF BuiltInv, Prechecking
<1>8. RowsInv'
  <2>1. todo[s] = {}
    BY <1>1 DEF LocalsSet
  <2>2. todo'[s] = {i \in DOMAIN list[s] :
                     list[s][i].id # i \/ list[s][i].row.on # old[s][i]}
    BY <1>1 DEF LocalsSet
  <2> QED BY <1>1, <1>3, <2>1, <2>2 DEF RowsInv
<1> QED BY <1>4, <1>5, <1>6, <1>7, <1>8

\* The pages' other steps touch nothing a save reads.
LEMMA PageStep ==
    ASSUME RowAssumption, SaveInv, NEW c \in Checkers,
           Check(c) \/ \E conf \in {NoConf} \cup PageConfs : CheckStart(c, conf)
    PROVE  SaveInv'
<1> USE DEF SaveInv, TypeInv
<1>1. c \in Threads /\ c \notin Savers
  BY DEF RowAssumption, Threads
<1>2. /\ UNCHANGED <<table, minted, temp, monitor, confLock, todo>>
      /\ \E step \in {"idle", "clear", "del"} : pc' = [pc EXCEPT ![c] = step]
      /\ \E conf \in {NoConf} \cup Confs : built' = [built EXCEPT ![c] = conf]
  <2>1. CASE CheckBaseBuild(c)
    BY <2>1, BuildType DEF CheckBaseBuild, Reply, Goto, bounds
  <2>2. CASE CheckDone(c)
    BY <2>2 DEF CheckDone, Reply, Goto
  <2>3. CASE \E conf \in {NoConf} \cup PageConfs : CheckStart(c, conf)
    BY <2>3 DEF CheckStart, Goto, locals, RowAssumption
  <2> QED BY <2>1, <2>2, <2>3 DEF Check
<1>3. \A s \in Savers :
         /\ list'[s] = list[s] /\ old'[s] = old[s]
         /\ s \in edited' <=> s \in edited
         /\ s \in trampled' <=> s \in trampled
  <2>1. CASE CheckBaseBuild(c)
    BY <2>1, <1>1 DEF CheckBaseBuild, Reply, history
  <2>2. CASE CheckDone(c)
    BY <2>2, <1>1 DEF CheckDone, Reply
  <2>3. CASE \E conf \in {NoConf} \cup PageConfs : CheckStart(c, conf)
    BY <2>3 DEF CheckStart, locals, history
  <2> QED BY <2>1, <2>2, <2>3 DEF Check
<1>4. DOMAIN list' = Savers /\ DOMAIN old' = Savers
  BY DEF Check, CheckBaseBuild, CheckDone, CheckStart, Reply, locals, LocalsSet
<1>5. \A s \in Savers : pc'[s] = pc[s] /\ built'[s] = built[s]
  BY <1>1, <1>2 DEF TypeOK, Threads
<1>6. TypeOK'
  <2>1. pc' \in [Threads -> Steps]
    BY <1>2 DEF TypeOK, Steps
  <2>2. built' \in [Threads -> {NoConf} \cup Confs]
    BY <1>2 DEF TypeOK
  <2> QED BY <1>2, <1>3, <2>1, <2>2 DEF TypeOK
<1>7. LocalsSet'
  BY <1>2, <1>3, <1>4, <1>5 DEF LocalsSet
<1>8. Inside'
  BY <1>2, <1>5 DEF Inside
<1>9. BuiltInv'
  BY <1>2, <1>3, <1>5 DEF BuiltInv
<1>10. RowsInv'
  BY SMTT(30), <1>2, <1>3, <1>5 DEF RowsInv
<1> QED BY <1>6, <1>7, <1>8, <1>9, <1>10

-----------------------------------------------------------------------------
(* The steps that write rows.                                              *)

\* A save reads its rows.
LEMMA StartStep ==
    ASSUME RowAssumption, SaveInv, NEW s \in Savers,
           NEW checked \in SUBSET (DOMAIN table), SaveStart(s, checked)
    PROVE  SaveInv'
<1> USE DEF SaveInv, TypeInv
<1> DEFINE want(i) == Want(checked, i, table[i])
<1>1. /\ pc[s] = "idle" /\ monitor = NoOne /\ monitor' = s
      /\ list' = [list EXCEPT ![s] =
                   [i \in DOMAIN table |-> [id |-> i, row |->
                      [table[i] EXCEPT !.on = want(i)]]]]
      /\ old' = [old EXCEPT ![s] = [i \in DOMAIN table |-> table[i].on]]
      /\ todo' = [todo EXCEPT ![s] = {i \in DOMAIN table :
                   table[i].on # want(i)}]
      /\ pc' = [pc EXCEPT ![s] = "update"]
      /\ UNCHANGED <<table, minted, temp, confLock, built, edited, trampled>>
  BY DEF SaveStart, Enter, Goto, files, history
<1>2. \A i \in DOMAIN table : want(i) \in BOOLEAN
  BY DEF Want
<1> HIDE DEF want
<1>3. \A r \in Savers : pc[r] = "idle"
  BY <1>1 DEF Inside, RowAssumption, Threads
<1>4. pc'[s] = "update" /\ \A r \in Savers : r # s => pc'[r] = "idle"
  BY <1>1, <1>3 DEF TypeOK, Threads
<1>5. /\ list'[s] = [i \in DOMAIN table |-> [id |-> i, row |->
                      [table[i] EXCEPT !.on = want(i)]]]
      /\ old'[s] = [i \in DOMAIN table |-> table[i].on]
      /\ todo'[s] = {i \in DOMAIN table : table[i].on # want(i)}
  BY <1>1 DEF LocalsSet
<1>6. \A r \in Savers : r # s =>
         list'[r] = list[r] /\ old'[r] = old[r] /\ todo'[r] = todo[r]
  BY <1>1 DEF LocalsSet
<1>7. \A i \in DOMAIN list'[s] :
         /\ list'[s][i].id = i
         /\ list'[s][i].row = [table[i] EXCEPT !.on = want(i)]
         /\ list'[s][i].row \in Rows
  <2>1. \A i \in DOMAIN table : [table[i] EXCEPT !.on = want(i)] \in Rows
    BY <1>2 DEF TypeOK, Rows
  <2>2. DOMAIN list'[s] = DOMAIN table
    BY <1>5
  <2>3. \A i \in DOMAIN table :
           list'[s][i] = [id |-> i, row |-> [table[i] EXCEPT !.on = want(i)]]
    BY <1>5
  <2> DEFINE new(i) == [table[i] EXCEPT !.on = want(i)]
  <2> SUFFICES ASSUME NEW i \in DOMAIN table
               PROVE  /\ list'[s][i].id = i
                      /\ list'[s][i].row = [table[i] EXCEPT !.on = want(i)]
                      /\ list'[s][i].row \in Rows
    BY <2>2
  <2>4. list'[s][i] = [id |-> i, row |-> new(i)] /\ new(i) \in Rows
    BY <2>1, <2>3
  <2>5. new(i) = [table[i] EXCEPT !.on = want(i)]
    OBVIOUS
  <2> HIDE DEF new
  <2>6. list'[s][i].id = i /\ list'[s][i].row = new(i)
    BY <2>4
  <2> QED BY <2>4, <2>5, <2>6
<1>8. TypeOK'
  <2>1. pc' \in [Threads -> Steps]
    BY <1>1 DEF TypeOK, Steps
  <2>2. ASSUME NEW r \in Savers
        PROVE  /\ DOMAIN list'[r] = DOMAIN old'[r]
               /\ todo'[r] \subseteq DOMAIN list'[r]
               /\ \A i \in DOMAIN list'[r] :
                    list'[r][i].id \in minted' /\ list'[r][i].row \in Rows
    <3>1. CASE r = s
      <4>1. DOMAIN list'[s] = DOMAIN table /\ DOMAIN old'[s] = DOMAIN table
        BY <1>5
      <4>2. todo'[s] \subseteq DOMAIN table
        BY <1>5
      <4>3. \A i \in DOMAIN list'[s] :
               list'[s][i].id \in minted' /\ list'[s][i].row \in Rows
        <5>1. DOMAIN table \subseteq minted /\ minted' = minted
          BY <1>1 DEF TypeOK
        <5> QED BY <4>1, <5>1, <1>7
      <4> QED BY <3>1, <4>1, <4>2, <4>3
    <3>2. CASE r # s
      BY <3>2, <1>1, <1>6 DEF TypeOK
    <3> QED BY <3>1, <3>2
  <2>3. DOMAIN table' \subseteq minted' /\ minted' \subseteq Ids
        /\ \A i \in DOMAIN table' : table'[i] \in Rows
    BY <1>1 DEF TypeOK
  <2>4. /\ temp' \in [main : {NoConf} \cup Confs, sub : {NoConf} \cup Confs]
        /\ monitor' \in Savers \cup {NoOne} /\ confLock' \in Savers \cup {NoOne}
        /\ built' \in [Threads -> {NoConf} \cup Confs]
    BY <1>1 DEF TypeOK
  <2> QED BY <2>1, <2>2, <2>3, <2>4 DEF TypeOK
<1>9. LocalsSet'
  <2>1. \A r \in Savers : pc'[r] \notin {"update", "rollback"} => todo'[r] = {}
    BY <1>3, <1>4, <1>6 DEF LocalsSet
  <2>2. \A r \in Savers : \A i \in DOMAIN old'[r] : old'[r][i] \in BOOLEAN
    BY <1>5, <1>6 DEF LocalsSet, TypeOK, Rows
  <2>3. \A r \in Savers : DOMAIN list'[r] \subseteq Ids
    BY <1>5, <1>6 DEF LocalsSet, TypeOK
  <2> QED BY <1>1, <2>1, <2>2, <2>3 DEF LocalsSet
<1>10. Inside'
  BY <1>1, <1>3, <1>4 DEF Inside, RowAssumption, Threads, Prechecking
<1>11. BuiltInv'
  BY <1>4 DEF BuiltInv, Prechecking
<1>12. RowsInv'
  <2>1. ASSUME NEW i \in DOMAIN table
        PROVE  /\ i \in todo'[s] =>
                    table[i] = [list'[s][i].row EXCEPT !.on = old'[s][i]]
               /\ i \notin todo'[s] => table[i] = list'[s][i].row
    <3>1. /\ list'[s][i].row = [table[i] EXCEPT !.on = want(i)]
          /\ old'[s][i] = table[i].on /\ table[i] \in Rows
      BY <1>5, <1>7 DEF TypeOK
    <3>2. i \notin todo'[s] => table[i].on = want(i)
      BY <1>5, Zenon
    <3>3. i \notin todo'[s] => table[i] = list'[s][i].row
      BY <3>1, <3>2 DEF Rows
    <3>4. table[i] = [list'[s][i].row EXCEPT !.on = old'[s][i]]
      BY <3>1 DEF Rows
    <3> QED BY <3>3, <3>4
  <2>2. DOMAIN list'[s] = DOMAIN table
    BY <1>5
  <2> SUFFICES ASSUME NEW r \in Savers, pc'[r] # "idle", r \notin edited'
               PROVE  /\ DOMAIN table' = DOMAIN list'[r]
                      /\ \A i \in DOMAIN list'[r] :
                           /\ list'[r][i].id = i
                           /\ pc'[r] = "update" /\ i \in todo'[r] =>
                                table'[i] =
                                  [list'[r][i].row EXCEPT !.on = old'[r][i]]
                           /\ pc'[r] # "update" \/ i \notin todo'[r] =>
                                table'[i] = list'[r][i].row
                           /\ pc'[r] = "rollback" /\ i \notin todo'[r] =>
                                list'[r][i].row.on = old'[r][i]
    BY DEF RowsInv
  <2>3. r = s
    BY <1>4
  <2> QED BY ZenonT(30), <1>1, <1>4, <1>7, <2>1, <2>2, <2>3
<1> QED BY <1>8, <1>9, <1>10, <1>11, <1>12

\* A save writes one of its objects: the next one, or the next to roll back.
LEMMA WriteStep ==
    ASSUME RowAssumption, SaveInv, NEW s \in Savers, UpdateRow(s) \/ RollbackRow(s)
    PROVE  SaveInv'
<1> USE DEF SaveInv, TypeInv
<1>1. Min(todo[s]) \in todo[s]
  <2>1. todo[s] # {} /\ todo[s] \subseteq Nat
    BY DEF UpdateRow, RollbackRow, TypeOK, LocalsSet, RowAssumption
  <2> QED BY <2>1, MinIn
<1>2. PICK i \in todo[s] : i = Min(todo[s])
  BY <1>1
<1>3. i \in DOMAIN list[s] /\ i \in DOMAIN old[s] /\ list[s][i].row \in Rows
  BY <1>2 DEF TypeOK
<1>4. OldOn(s, i) \in BOOLEAN
  BY <1>3 DEF OldOn, LocalsSet, TypeOK, Rows
<1>5. PICK row \in Rows :
        /\ WriteObject(s, i, row)
        /\ pc[s] = "update" => row = list[s][i].row
        /\ pc[s] = "rollback" => row = [list[s][i].row EXCEPT !.on = OldOn(s, i)]
  <2>1. CASE UpdateRow(s)
    BY <1>2, <1>3, <2>1 DEF UpdateRow
  <2>2. CASE RollbackRow(s)
    <3>1. [list[s][i].row EXCEPT !.on = OldOn(s, i)] \in Rows
      BY <1>3, <1>4 DEF Rows
    <3> QED BY <1>2, <2>2, <3>1 DEF RollbackRow
  <2> QED BY <2>1, <2>2
<1>6. pc[s] \in {"update", "rollback"}
  BY DEF UpdateRow, RollbackRow
<1> DEFINE id == list[s][i].id
           nid == IF id \in DOMAIN table THEN id ELSE NewId
<1>7. /\ InsertOrUpdate(id, row)
      /\ list' = [list EXCEPT ![s][i] = [id |-> nid, row |-> row]]
      /\ todo' = [todo EXCEPT ![s] = @ \ {i}]
      /\ UNCHANGED <<temp, monitor, confLock, pc, old, built, edited, trampled>>
  BY <1>5 DEF WriteObject, history
<1>8. /\ DOMAIN table' \subseteq minted' /\ minted' \subseteq Ids
      /\ minted \subseteq minted'
      /\ \A j \in DOMAIN table' : table'[j] \in Rows
      /\ nid \in minted'
  <2>1. /\ DOMAIN table' \subseteq minted' /\ minted' \subseteq Ids
        /\ minted \subseteq minted'
        /\ \A j \in DOMAIN table' : table'[j] \in Rows
        /\ id \notin DOMAIN table => NewId \in minted'
    BY <1>7, InsertOrUpdateType
  <2> QED BY <2>1 DEF TypeOK
<1>9. s \notin edited =>
        id = i /\ nid = i /\ i \in DOMAIN table /\ table' = [table EXCEPT ![i] = row]
  <2>1. s \notin edited => id = i /\ i \in DOMAIN table
    BY <1>3, <1>6 DEF RowsInv
  <2> QED BY <1>7, <2>1 DEF InsertOrUpdate
<1> HIDE DEF id, nid
<1>10. \A r \in Savers : r # s => pc[r] = "idle"
  BY <1>6, OneInside
<1>11. /\ list'[s] = [list[s] EXCEPT ![i] = [id |-> nid, row |-> row]]
       /\ \A r \in Savers : r # s => list'[r] = list[r]
       /\ DOMAIN list' = Savers
  BY <1>7 DEF LocalsSet
<1>12. /\ DOMAIN list'[s] = DOMAIN list[s]
       /\ list'[s][i].id = nid /\ list'[s][i].row = row
       /\ \A j \in DOMAIN list[s] : j # i => list'[s][j] = list[s][j]
  BY <1>3, <1>11
<1>13. /\ todo'[s] = todo[s] \ {i}
       /\ \A r \in Savers : r # s => todo'[r] = todo[r]
       /\ DOMAIN todo' = Savers
  BY <1>7 DEF LocalsSet
<1>14. TypeOK'
  <2>1. ASSUME NEW r \in Savers
        PROVE  /\ DOMAIN list'[r] = DOMAIN old'[r]
               /\ todo'[r] \subseteq DOMAIN list'[r]
               /\ \A j \in DOMAIN list'[r] :
                    list'[r][j].id \in minted' /\ list'[r][j].row \in Rows
    <3>1. DOMAIN list'[r] = DOMAIN list[r] /\ todo'[r] \subseteq todo[r]
          /\ old'[r] = old[r]
      BY <1>7, <1>11, <1>12, <1>13
    <3>2. ASSUME NEW j \in DOMAIN list[r]
          PROVE  list'[r][j].id \in minted' /\ list'[r][j].row \in Rows
      <4>1. list[r][j].id \in minted /\ list[r][j].row \in Rows
        BY DEF TypeOK
      <4>2. CASE r = s /\ j = i
        BY <4>2, <1>8, <1>12
      <4>3. CASE r # s \/ j # i
        BY <4>1, <4>3, <1>8, <1>11, <1>12
      <4> QED BY <4>2, <4>3
    <3>3. DOMAIN list[r] = DOMAIN old[r] /\ todo[r] \subseteq DOMAIN list[r]
      BY DEF TypeOK
    <3> QED BY <3>1, <3>2, <3>3
  <2>2. /\ temp' \in [main : {NoConf} \cup Confs, sub : {NoConf} \cup Confs]
        /\ monitor' \in Savers \cup {NoOne} /\ confLock' \in Savers \cup {NoOne}
        /\ pc' \in [Threads -> Steps]
        /\ built' \in [Threads -> {NoConf} \cup Confs]
    BY <1>7 DEF TypeOK
  <2> QED BY <1>8, <2>1, <2>2 DEF TypeOK
<1>15. LocalsSet'
  <2>1. \A r \in Savers : DOMAIN list'[r] \subseteq Ids
    BY <1>11, <1>12 DEF LocalsSet
  <2>2. \A r \in Savers : pc'[r] \notin {"update", "rollback"} => todo'[r] = {}
    BY <1>6, <1>7, <1>13 DEF LocalsSet
  <2>3. \A r \in Savers : \A j \in DOMAIN old'[r] : old'[r][j] \in BOOLEAN
    BY <1>7 DEF LocalsSet
  <2>4. DOMAIN old' = Savers
    BY <1>7 DEF LocalsSet
  <2> QED BY <1>11, <1>13, <2>1, <2>2, <2>3, <2>4 DEF LocalsSet
<1>16. Inside'
  BY <1>7 DEF Inside
<1>17. BuiltInv'
  <2>1. \A r \in Savers : pc'[r] \notin Prechecking
    BY <1>6, <1>7, <1>10 DEF Prechecking
  <2> QED BY <2>1 DEF BuiltInv
<1>18. RowsInv'
  <2> SUFFICES ASSUME NEW r \in Savers, pc'[r] # "idle", r \notin edited'
               PROVE  /\ DOMAIN table' = DOMAIN list'[r]
                      /\ \A j \in DOMAIN list'[r] :
                           /\ list'[r][j].id = j
                           /\ pc'[r] = "update" /\ j \in todo'[r] =>
                                table'[j] =
                                  [list'[r][j].row EXCEPT !.on = old'[r][j]]
                           /\ pc'[r] # "update" \/ j \notin todo'[r] =>
                                table'[j] = list'[r][j].row
                           /\ pc'[r] = "rollback" /\ j \notin todo'[r] =>
                                list'[r][j].row.on = old'[r][j]
    BY DEF RowsInv
  <2>1. r = s /\ s \notin edited /\ pc'[s] = pc[s] /\ old' = old
    BY <1>7, <1>10
  <2>2. table' = [table EXCEPT ![i] = row] /\ DOMAIN table = DOMAIN list[s]
    BY <1>6, <1>9, <2>1 DEF RowsInv
  <2>3. DOMAIN table' = DOMAIN list'[s] /\ table'[i] = row
    BY <1>3, <1>12, <2>2
  <2>4. ASSUME NEW j \in DOMAIN list'[s]
        PROVE  /\ list'[s][j].id = j
               /\ pc[s] = "update" /\ j \in todo'[s] =>
                     table'[j] = [list'[s][j].row EXCEPT !.on = old[s][j]]
               /\ pc[s] # "update" \/ j \notin todo'[s] =>
                     table'[j] = list'[s][j].row
               /\ pc[s] = "rollback" /\ j \notin todo'[s] =>
                     list'[s][j].row.on = old[s][j]
    <3>1. CASE j = i
      <4>1. j \notin todo'[s] /\ list'[s][j].id = j
            /\ table'[j] = list'[s][j].row
        BY <3>1, <1>9, <1>12, <1>13, <2>1, <2>3
      <4>2. ASSUME pc[s] = "rollback" PROVE row.on = old[s][i]
        <5>1. OldOn(s, i) = old[s][i]
          BY <1>9, <2>1 DEF OldOn, id
        <5> QED BY <4>2, <5>1, <1>3, <1>5 DEF Rows
      <4> QED BY <3>1, <4>1, <4>2, <1>12
    <3>2. CASE j # i
      <4>1. /\ j \in DOMAIN list[s] /\ list'[s][j] = list[s][j]
            /\ table'[j] = table[j] /\ (j \in todo'[s] <=> j \in todo[s])
        BY <3>2, <1>12, <1>13, <2>2, <2>3
      <4> QED BY <4>1, <2>1, <1>6 DEF RowsInv
    <3> QED BY <3>1, <3>2
  <2> QED BY <2>1, <2>3, <2>4
<1> QED BY <1>14, <1>15, <1>16, <1>17, <1>18

\* Another request writes a row: the saves under way are noted.
LEMMA EditStep ==
    ASSUME RowAssumption, SaveInv,
           \/ \E i \in minted, on \in BOOLEAN : SetEnable(i, on)
           \/ \E i \in minted \cup {0}, form \in Forms : AddOver(i, form)
           \/ \E i \in minted : Del(i)
    PROVE  SaveInv'
<1> USE DEF SaveInv, TypeInv
<1>1. /\ edited' = edited \cup {s \in Savers : pc[s] # "idle"}
      /\ UNCHANGED <<temp, monitor, confLock, pc, list, old, todo, built,
                     trampled>>
  BY DEF SetEnable, AddOver, Del, Edit, locals
<1>2. /\ DOMAIN table' \subseteq minted' /\ minted' \subseteq Ids
      /\ minted \subseteq minted'
      /\ \A i \in DOMAIN table' : table'[i] \in Rows
  <2>1. ASSUME NEW i \in minted, NEW on \in BOOLEAN, SetEnable(i, on)
        PROVE  <1>2!:
    <3> DEFINE row == [IF i \in DOMAIN table THEN table[i]
                       ELSE [name |-> NoName, on |-> on,
                             val |-> CHOOSE v \in Values : TRUE]
                       EXCEPT !.on = on]
    <3>1. row \in Rows
      <4>1. (CHOOSE v \in Values : TRUE) \in Values
        BY DEF RowAssumption
      <4> QED BY ZenonT(30), <4>1 DEF TypeOK, Rows
    <3>2. InsertOrUpdate(i, row)
      BY <2>1 DEF SetEnable
    <3> QED BY <3>1, <3>2, InsertOrUpdateType
  <2>2. ASSUME NEW i \in minted \cup {0}, NEW form \in Forms, AddOver(i, form)
        PROVE  <1>2!:
    <3> DEFINE row == [name |-> form[1], val |-> form[2],
                       on |-> i \in DOMAIN table => table[i].on]
    <3>1. row \in Rows
      BY DEF RowAssumption, Rows, TypeOK
    <3>2. InsertOrUpdate(i, row)
      BY <2>2 DEF AddOver
    <3> QED BY <3>1, <3>2, InsertOrUpdateType
  <2>3. ASSUME NEW i \in minted, Del(i)
        PROVE  <1>2!:
    BY <2>3 DEF Del, TypeOK
  <2> QED BY <2>1, <2>2, <2>3
<1>3. TypeOK'
  BY <1>1, <1>2 DEF TypeOK
<1>4. LocalsSet' /\ Inside'
  BY <1>1 DEF LocalsSet, Inside
<1>5. \A s \in Savers : pc'[s] # "idle" => s \in edited'
  BY <1>1
<1>6. BuiltInv'
  BY <1>1, <1>5 DEF BuiltInv, Prechecking
<1>7. RowsInv'
  BY <1>5 DEF RowsInv
<1> QED BY <1>3, <1>4, <1>6, <1>7

-----------------------------------------------------------------------------
(* The theorems.                                                           *)

\* Every step keeps the invariant.
LEMMA StepInv ==
    ASSUME RowAssumption, SaveInv, [Next]_vars
    PROVE  SaveInv'
<1>1. CASE UNCHANGED vars
  BY <1>1, StutterStep
<1>2. ASSUME NEW s \in Savers, Save(s)
      PROVE  SaveInv'
  BY <1>2, AnswerStep, RolledBackStep, TestStep, FailedStep, WriteStep DEF Save
<1>3. ASSUME NEW s \in Savers, NEW checked \in SUBSET (DOMAIN table),
             SaveStart(s, checked)
      PROVE  SaveInv'
  BY <1>3, StartStep
<1>4. ASSUME NEW t \in Threads, Temp(t)
      PROVE  SaveInv'
  BY <1>4, TempStep
<1>5. ASSUME NEW c \in Checkers,
             Check(c) \/ \E conf \in {NoConf} \cup PageConfs : CheckStart(c, conf)
      PROVE  SaveInv'
  BY <1>5, PageStep
<1>6. ASSUME NEW t \in Threads, Throw(t)
      PROVE  SaveInv'
  BY <1>6, ThrowStep
<1> QED BY <1>1, <1>2, <1>3, <1>4, <1>5, <1>6, StopStep, EditStep DEF Next

\* Whatever the admins do, every variable holds a value the code could hold.
THEOREM TypeCorrect == Spec => []TypeOK
<1>1. Init => SaveInv
  BY InitInv, RowAssumption
<1>2. SaveInv /\ [Next]_vars => SaveInv'
  BY StepInv, RowAssumption
<1>3. SaveInv => TypeOK
  BY DEF SaveInv, TypeInv
<1> QED BY <1>1, <1>2, <1>3, PTL DEF Spec

\* A save that is not ended is taken further by its own steps only.
LEMMA OwnStep ==
    ASSUME RowAssumption, SaveInv, [Next]_vars, NEW s \in Savers,
           pc[s] # "idle", pc'[s] # pc[s], pc'[s] # "idle"
    PROVE  Save(s) \/ Temp(s)
<1> USE DEF SaveInv, TypeInv
<1>1. s \in Threads /\ s \notin Checkers /\ \A r \in Savers : r # s => pc[r] = "idle"
  BY OneInside DEF Threads, RowAssumption
<1>2. CASE \E r \in Savers : Save(r)
  <2>1. PICK r \in Savers : Save(r)
    BY <1>2
  <2>2. pc[r] # "idle"
    BY <2>1 DEF Save, UpdateRow, RollbackRow, ReplyOutcome, RollbackDone,
       PrecheckBuild, PrecheckSkipped, SkipFrom, PrecheckPassed, PrecheckFailed
  <2> QED BY <1>1, <2>1, <2>2
<1>3. CASE \E t \in Threads : Temp(t)
  BY <1>3, <1>1 DEF Temp, DelTemp, ClearSubs, WriteMain, WriteSub, Goto, TypeOK
<1>4. CASE \E c \in Checkers :
             Check(c) \/ \E conf \in {NoConf} \cup PageConfs :
                           CheckStart(c, conf)
  BY <1>4, <1>1 DEF Check, CheckBaseBuild, CheckDone, CheckStart, Reply, Goto,
     TypeOK
<1>5. CASE \E r \in Savers : \E checked \in SUBSET (DOMAIN table) :
             SaveStart(r, checked)
  BY <1>5, <1>1 DEF SaveStart, Goto, TypeOK
<1>6. CASE \/ UNCHANGED vars
           \/ \E i \in minted, on \in BOOLEAN : SetEnable(i, on)
           \/ \E i \in minted \cup {0}, form \in Forms : AddOver(i, form)
           \/ \E i \in minted : Del(i)
  BY <1>6 DEF vars, SetEnable, AddOver, Del, Edit
<1>7. CASE Stop \/ \E t \in Threads : Throw(t)
  BY <1>7, <1>1 DEF Stop, Throw, Reply, Goto, TypeOK
<1> QED BY <1>2, <1>3, <1>4, <1>5, <1>6, <1>7 DEF Next

\* A test that passes has read the configuration of the rows.
LEMMA SavedStep ==
    ASSUME RowAssumption, SaveInv, [Next]_vars, NEW s \in Savers,
           pc[s] = "test", pc'[s] = "saved", s \notin edited \cup trampled
    PROVE  Build(table) # NoConf /\ Accepted(Build(table))
<1> USE DEF SaveInv, TypeInv
<1>1. temp.main = built[s] /\ temp.main # NoConf /\ built[s] = Build(table)
  BY DEF BuiltInv, Prechecking
<1>2. PrecheckSkipped(s) \/ PrecheckFailed(s) \/ PrecheckPassed(s)
  BY OwnStep DEF Save, Temp, UpdateRow, RollbackRow, ReplyOutcome, RollbackDone,
     PrecheckBuild, DelTemp, ClearSubs, WriteMain, WriteSub
<1>3. PrecheckSkipped(s) \/ PrecheckFailed(s) => pc'[s] \in {"idle", "rollback"}
  BY DEF PrecheckSkipped, PrecheckFailed, Reply, Goto, TypeOK, Threads
<1> QED BY <1>1, <1>2, <1>3 DEF PrecheckPassed, TestPasses

\* A rollback that ends has put every row back.
LEMMA RollbackStep ==
    ASSUME RowAssumption, SaveInv, [Next]_vars, NEW s \in Savers,
           pc[s] = "rollback", pc'[s] = "refused", s \notin edited
    PROVE  Undone(s)
<1> USE DEF SaveInv, TypeInv
<1>1. RollbackRow(s) \/ RollbackDone(s)
  BY OwnStep DEF Save, Temp, UpdateRow, ReplyOutcome, PrecheckBuild,
     PrecheckSkipped, SkipFrom, PrecheckPassed, PrecheckFailed, DelTemp,
     ClearSubs, WriteMain, WriteSub
<1>2. todo[s] = {}
  <2>1. ~RollbackRow(s)
    <3>1. RollbackRow(s) => UNCHANGED pc
      BY DEF RollbackRow, WriteObject
    <3> QED BY <3>1
  <2> QED BY <1>1, <2>1 DEF RollbackDone
<1>3. DOMAIN table = DOMAIN list[s] /\ DOMAIN list[s] = DOMAIN old[s]
  BY DEF RowsInv, TypeOK
<1>4. ASSUME NEW i \in DOMAIN table
      PROVE  table[i] = [list[s][i].row EXCEPT !.on = old[s][i]]
  <2>1. table[i] = list[s][i].row /\ list[s][i].row.on = old[s][i]
    <3>1. i \in DOMAIN list[s] /\ i \notin todo[s] /\ pc[s] # "update"
      BY <1>2, <1>3
    <3>2. table[i] = list[s][i].row
      BY ZenonT(30), <3>1 DEF RowsInv
    <3>3. list[s][i].row.on = old[s][i]
      BY ZenonT(30), <3>1 DEF RowsInv
    <3> QED BY <3>2, <3>3
  <2>2. list[s][i].row \in Rows
    BY <1>3 DEF TypeOK
  <2>3. \A row \in Rows : row = [row EXCEPT !.on = row.on]
    BY DEF Rows
  <2> QED BY <2>1, <2>2, <2>3
<1> QED BY <1>3, <1>4 DEF Undone

\* A save answered "saved" left rows that nginx accepts, for any rows, forms,
\* pages and refused configurations (HttpController.saveEnable).
THEOREM SavedIsAcceptedCorrect == Spec => SavedIsAccepted
<1> DEFINE A == \A s \in Savers :
                  pc[s] = "test" /\ pc'[s] = "saved"
                  /\ s \notin edited \cup trampled =>
                     Build(table) # NoConf /\ Accepted(Build(table))
<1>1. Init => SaveInv
  BY InitInv, RowAssumption
<1>2. SaveInv /\ [Next]_vars => SaveInv'
  BY StepInv, RowAssumption
<1>3. SaveInv /\ [Next]_vars => A
  BY SavedStep, RowAssumption
<1>4. SaveInv /\ [Next]_vars => [A]_vars
  BY <1>3
<1> QED BY <1>1, <1>2, <1>4, PTL DEF Spec, SavedIsAccepted

\* A save that is answered with what nginx said leaves exactly the rows it
\* found, for any rows and any number of admins, exceptions and stops (the
\* rollback of HttpController.saveEnable).
THEOREM RollbackExactCorrect == Spec => RollbackExact
<1> DEFINE A == \A s \in Savers :
                  pc[s] = "rollback" /\ pc'[s] = "refused" /\ s \notin edited =>
                     Undone(s)
<1>1. Init => SaveInv
  BY InitInv, RowAssumption
<1>2. SaveInv /\ [Next]_vars => SaveInv'
  BY StepInv, RowAssumption
<1>3. SaveInv /\ [Next]_vars => A
  BY RollbackStep, RowAssumption
<1>4. SaveInv /\ [Next]_vars => [A]_vars
  BY <1>3
<1> QED BY <1>1, <1>2, <1>4, PTL DEF Spec, RollbackExact
=============================================================================
