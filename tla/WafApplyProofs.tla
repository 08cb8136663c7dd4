--------------------------- MODULE WafApplyProofs ---------------------------
(***************************************************************************)
(* What holds of WafApply for every set of rules, actions and refused      *)
(* configurations, every clock and every bound: the theorems below follow  *)
(* from inductive invariants, one for each of them, that say where in the  *)
(* watcher's script and in the panel's apply() a fact is already true.     *)
(***************************************************************************)
EXTENDS WafApply, TLAPS

-----------------------------------------------------------------------------
(* Inductive invariants.                                                   *)

\* A file local to a step exists while the step that reads it is ahead.
LocalsSet ==
    /\ panel \in {"write1", "write2"} => draft \in Versions
    /\ wpc = "apply" => wsrc \in Versions
    /\ wpc \in {"test", "pid"} => prev \in Versions

TypeInv == TypeOK /\ LocalsSet

\* The id the panel is about to write is new, and the one the watcher works
\* on lies between the last result and the request file.
IdsInFlight ==
    /\ panel \in {"write1", "write2"} => newId > request
    /\ wid # 0 => result.id <= wid /\ wid <= request

\* Where the watcher has an id to report, and what it has already reported.
IdsReported ==
    /\ wpc \in {"ok", "failed", "processed"} => wid # 0
    /\ wpc = "processed" => wid = result.id

\* The file `applying` exists only around a reload, or after a stop in one.
ApplyingMarked ==
    wpc \notin {"down", "lapi", "drop", "undrop", "killed", "hup", "sleep"}
        => applying = 0

IdInv == IdOrder /\ IdsInFlight /\ IdsReported /\ ApplyingMarked

\* Outside the test itself nwu-custom.yaml is a tested file, and so is the
\* copy it is restored from.  A stop during the test leaves an untested one
\* behind, which the next start replaces before crowdsec runs.
ActiveTested ==
    /\ wpc \notin {"test", "down"} => active.yaml \notin Rejected
    /\ wpc \in {"test", "pid"} => prev.yaml \notin Rejected

\* crowdsec reads nwu-custom.yaml only while the watcher leaves it alone: the
\* start ends before the LAPI answers, a reload before the sleep does.
ReadsWhileWaiting ==
    /\ hup => wpc = "sleep"
    /\ cs = "starting" => wpc = "lapi"

TestedInv == OnlyTestedLoaded /\ ActiveTested /\ ReadsWhileWaiting

\* custom.yaml is never older than the render the request file speaks of: it
\* is written first, by the only apply() there is.
CustomNotOlder ==
    /\ asked <= made
    /\ panel \in {"write1", "write2"} => draft.ver = made
    /\ panel = "write2" => custom = draft
    /\ asked # 0 => custom \in Versions
    /\ custom \in Versions => asked <= custom.ver

\* The copy of custom.yaml under way is as new as the request that was read.
CopyNotOlder ==
    /\ wasked <= asked
    /\ wpc = "apply" /\ wid # 0 => wasked <= wsrc.ver
    /\ wid # 0 /\ wpc \in {"test", "pid", "mark", "hup", "sleep", "alive",
                             "good"}
           => wasked <= active.ver
    /\ wpc = "ok" => lastGood \in Versions /\ wasked <= lastGood.ver

AgeInv == CustomNotOlder /\ CopyNotOlder

\* Until Reapply the container runs on the default that ContainerStart wrote.
BootsOnDefault ==
    /\ wpc \in {"lapi", "drop", "undrop", "killed", "reapply"} => booting
    /\ booting => /\ wpc \in {"lapi", "drop", "undrop", "killed", "reapply",
                              "failed", "processed"}
                  /\ active = DefaultVersion
                  /\ cs = "up" => loaded = DefaultVersion

\* Id 0 stands for last-good.yaml, a file that passed the test once.
ReappliesLastGood ==
    /\ lastGood \in Versions => lastGood.yaml \notin Rejected
    /\ wpc = "snap" => wid # 0
    /\ wpc = "apply" /\ wid = 0 => wsrc = lastGood
    /\ wpc \in {"test", "pid"} /\ wid = 0 => active = lastGood

Serving == cs = "up" /\ ~booting

\* What crowdsec runs is nwu-custom.yaml or the copy kept of it...
LoadedIsActive ==
    Serving =>
        /\ wpc \in {"poll", "snap", "apply", "alive", "good", "ok", "failed",
                    "processed"} => loaded = active
        /\ wpc = "sleep" /\ ~hup => loaded = active
        /\ wpc \in {"test", "pid"} => loaded = prev

\* ... and outside an apply() that is last-good.yaml.
ActiveIsEffective ==
    Serving =>
        /\ wpc \in {"poll", "snap", "ok", "failed", "processed"}
               => active.yaml = EffectiveYaml
        /\ wpc = "apply" /\ wid # 0 => active.yaml = EffectiveYaml
        /\ wpc \in {"test", "pid"} /\ wid # 0 => prev.yaml = EffectiveYaml

LastGoodInv == /\ BootsOnDefault /\ ReappliesLastGood
               /\ LoadedIsActive /\ ActiveIsEffective
-----------------------------------------------------------------------------
(* Types.                                                                  *)

\* The configurations the initial state and a container start speak of.
LEMMA DefaultVersionType ==
    DefaultConfig \in Configs /\ DefaultVersion \in Versions
BY ConfigAssumption DEF DefaultConfig, DefaultVersion, Configs, Versions

\* A request id is a positive number above the current one.
LEMMA NextRequestIdGrows ==
    ASSUME NEW now \in Readings, NEW current \in Nat
    PROVE  /\ NextRequestId(now, current) \in Nat
           /\ NextRequestId(now, current) > current
BY BoundAssumption DEF NextRequestId

\* Every action of the panel, the watcher and the container keeps TypeInv.
LEMMA TypeInvStep == TypeInv /\ [Next]_vars => TypeInv'
<1> SUFFICES ASSUME TypeInv, [Next]_vars PROVE TypeInv'
    OBVIOUS
<1> USE DEF TypeInv, TypeOK, LocalsSet, PanelSteps, WatcherSteps
<1> USE DEF panelRest, watcherRest, crowdsecRest, containerRest,
            panelVars, panelFiles, watchFiles, watchLocals, csVars
<1>1. CASE \E change \in Changes : PanelStart(change)
    BY <1>1 DEF PanelStart, Changes
<1>2. CASE \E r \in Rules : PanelSave(r)
    BY <1>2 DEF PanelSave, Configs
<1>3. CASE \E now \in Readings : PanelRender(now)
  <2>1. PICK now \in Readings : PanelRender(now)
    BY <1>3
  <2>2. /\ draft' \in Versions /\ newId' \in Nat /\ made' \in Nat
        /\ panel' = "write1"
    BY <2>1, NextRequestIdGrows DEF PanelRender, Versions
  <2>3. UNCHANGED <<db, todo, panelFiles>> /\ panelRest
    BY <2>1 DEF PanelRender
  <2> QED
    BY <2>2, <2>3
<1>4. CASE PanelWrite1
    BY <1>4 DEF PanelWrite1, WriteApply
<1>5. CASE PanelWrite2
  <2>1. request' \in Nat /\ asked' \in Nat /\ newId' = 0
        /\ draft' = NoFile /\ panel' = "idle"
    BY <1>5 DEF PanelWrite2, WriteApply, Versions
  <2>2. UNCHANGED <<db, todo, made, custom>> /\ panelRest
    BY <1>5 DEF PanelWrite2, WriteApply
  <2> QED
    BY <2>1, <2>2
<1>6. CASE PanelAbort
  <2>1. newId' = 0 /\ draft' = NoFile /\ panel' = "idle"
    BY <1>6 DEF PanelAbort
  <2>2. todo' \in [{} -> Actions]
    BY <1>6 DEF PanelAbort, NoChange
  <2>3. todo' \in UNION {[S -> Actions] : S \in SUBSET Rules}
    BY <2>2, {} \in SUBSET Rules
  <2>4. UNCHANGED <<db, made, panelFiles>> /\ panelRest
    BY <1>6 DEF PanelAbort
  <2> QED
    BY <2>1, <2>3, <2>4
<1>7. CASE WaitLapi
    BY <1>7 DEF WaitLapi
<1>8. CASE DropLastGood
    BY <1>8 DEF DropLastGood
<1>9. CASE ClearStartupMark
  <2>1. startupApplying' \in BOOLEAN /\ wpc' = "killed"
    BY <1>9 DEF ClearStartupMark
  <2>2. UNCHANGED <<result, processed, applying, lastGood, watchLocals,
                    active, csVars>> /\ watcherRest
    BY <1>9 DEF ClearStartupMark
  <2> QED
    BY <2>1, <2>2
<1>10. CASE ReportKilled
    BY <1>10 DEF ReportKilled, AfterKilled
<1>11. CASE Reapply
  <2>1. booting' \in BOOLEAN /\ wid' = 0
    BY <1>11 DEF Reapply
  <2>2. \/ wsrc' \in Versions /\ wpc' = "apply"
        \/ wsrc' = NoFile /\ wpc' = "poll"
    BY <1>11 DEF Reapply, NeedsReapply
  <2>3. UNCHANGED <<watchFiles, prev, wasked, active, csVars>> /\ watcherRest
    BY <1>11 DEF Reapply
  <2> QED
    BY <2>1, <2>2, <2>3
<1>12. CASE Poll
    BY <1>12 DEF Poll
<1>13. CASE SnapCustom
    BY <1>13 DEF SnapCustom
<1>14. CASE Install
    BY <1>14 DEF Install
<1>15. CASE TestConfig
    BY <1>15 DEF TestConfig, Refuses, Failing
<1>16. CASE FindPid
    BY <1>16 DEF FindPid, Failing
<1>17. CASE Mark
    BY <1>17 DEF Mark, StartupMark
<1>18. CASE Hup
    BY <1>18 DEF Hup
<1>19. CASE Wake
  <2>1. applying' = 0 /\ startupApplying' \in BOOLEAN /\ wpc' = "alive"
    BY <1>19 DEF Wake
  <2>2. UNCHANGED <<result, processed, lastGood, watchLocals, active,
                    csVars>> /\ watcherRest
    BY <1>19 DEF Wake
  <2> QED
    BY <2>1, <2>2
<1>20. CASE CheckAlive
    BY <1>20 DEF CheckAlive, Failing
<1>21. CASE KeepLastGood
    BY <1>21 DEF KeepLastGood
<1>22. CASE WriteResult
    BY <1>22 DEF WriteResult
<1>23. CASE WriteProcessed
    BY <1>23 DEF WriteProcessed
<1>24. CASE CrowdsecStart
    BY <1>24 DEF CrowdsecStart, Load
<1>25. CASE CrowdsecReload
  <2>1. loaded' \in Versions /\ cs' \in {"up", "dead"} /\ hup' \in BOOLEAN
    BY <1>25 DEF CrowdsecReload, Load
  <2>2. crowdsecRest
    BY <1>25 DEF CrowdsecReload
  <2> QED
    BY <2>1, <2>2
<1>26. CASE ContainerDies
    BY <1>26 DEF ContainerDies, StopContainer
<1>27. CASE ContainerStops
  <2>1. wpc' = "down" /\ cs' = "dead" /\ hup' = FALSE /\ booting' = FALSE
        /\ wid' = 0 /\ wsrc' = NoFile /\ prev' = NoFile /\ wasked' = 0
    BY <1>27 DEF ContainerStops, StopContainer
  <2>2. stops' \in Nat
    BY <1>27 DEF ContainerStops
  <2>3. UNCHANGED <<catalog, active, loaded>> /\ containerRest
    BY <1>27 DEF ContainerStops, StopContainer
  <2> QED
    BY <2>1, <2>2, <2>3
<1>28. CASE ContainerStart
    BY <1>28, DefaultVersionType DEF ContainerStart
<1>29. CASE UNCHANGED vars
    BY <1>29 DEF vars
<1> QED
    BY <1>1, <1>2, <1>3, <1>4, <1>5, <1>6, <1>7, <1>8, <1>9, <1>10, <1>11,
       <1>12, <1>13, <1>14, <1>15, <1>16, <1>17, <1>18, <1>19, <1>20, <1>21,
       <1>22, <1>23, <1>24, <1>25, <1>26, <1>27, <1>28, <1>29
       DEF Next, Panel, Watcher, Container

\* The empty volume and the empty table have the right types.
LEMMA TypeInvInit == Init => TypeInv
<1> SUFFICES ASSUME Init PROVE TypeInv
    OBVIOUS
<1>1. todo \in UNION {[S -> Actions] : S \in SUBSET Rules}
  <2>1. todo \in [{} -> Actions]
    BY DEF Init, NoChange
  <2> QED
    BY <2>1, {} \in SUBSET Rules
<1>2. result \in [id : Nat, status : {"none", "ok", "failed"}]
    BY DEF Init
<1>3. db \in Configs /\ active \in Versions /\ loaded \in Versions
    BY DefaultVersionType DEF Init
<1>4. catalog \in BOOLEAN /\ startupApplying \in BOOLEAN
      /\ booting \in BOOLEAN /\ hup \in BOOLEAN
    BY DEF Init
<1>5. TypeOK
    BY <1>1, <1>2, <1>3, <1>4 DEF Init, TypeOK, PanelSteps, WatcherSteps
<1> QED
    BY <1>5 DEF Init, TypeInv, LocalsSet

\* TypeInv holds in every reachable state.
LEMMA TypeInvariant == Spec => []TypeInv
BY TypeInvInit, TypeInvStep, PTL DEF Spec

\* Every step keeps every variable within the values the code could hold.
THEOREM TypeCorrect == Spec => []TypeOK
<1>1. TypeInv => TypeOK
    BY DEF TypeInv
<1> QED
    BY <1>1, TypeInvariant, PTL

-----------------------------------------------------------------------------
(* Request ids.                                                            *)

\* The types the arithmetic on ids needs.
LEMMA IdTypes ==
    TypeInv => /\ request \in Nat /\ processed \in Nat /\ applying \in Nat
               /\ wid \in Nat /\ newId \in Nat /\ wpc \in WatcherSteps
               /\ result \in [id : Nat, status : {"none", "ok", "failed"}]
BY DEF TypeInv, TypeOK

\* Every action keeps the ids in order: the script's steps one by one.
LEMMA IdInvStep == TypeInv /\ IdInv /\ [Next]_vars => IdInv'
<1> SUFFICES ASSUME TypeInv, IdInv, [Next]_vars PROVE IdInv'
    OBVIOUS
<1> USE IdTypes DEF IdInv, IdOrder, IdsInFlight, IdsReported, ApplyingMarked
<1> USE DEF panelRest, watcherRest, crowdsecRest, containerRest,
            panelVars, panelFiles, watchFiles, watchLocals, csVars
<1>1. CASE \E change \in Changes : PanelStart(change)
    BY <1>1 DEF PanelStart
<1>2. CASE \E r \in Rules : PanelSave(r)
    BY <1>2 DEF PanelSave
<1>3. CASE \E now \in Readings : PanelRender(now)
    BY <1>3, NextRequestIdGrows DEF PanelRender
<1>4. CASE PanelWrite1
    BY <1>4 DEF PanelWrite1, WriteApply
<1>5. CASE PanelWrite2
    BY <1>5 DEF PanelWrite2, WriteApply
<1>6. CASE PanelAbort
    BY <1>6 DEF PanelAbort, NoChange
<1>7. CASE WaitLapi
    BY <1>7 DEF WaitLapi
<1>8. CASE DropLastGood
    BY <1>8 DEF DropLastGood
<1>9. CASE ClearStartupMark
    BY <1>9 DEF ClearStartupMark
<1>10. CASE ReportKilled
    BY <1>10 DEF ReportKilled, AfterKilled
<1>11. CASE Reapply
    BY <1>11 DEF Reapply, NeedsReapply
<1>12. CASE Poll
    BY <1>12 DEF Poll
<1>13. CASE SnapCustom
    BY <1>13 DEF SnapCustom
<1>14. CASE Install
    BY <1>14 DEF Install
<1>15. CASE TestConfig
    BY <1>15 DEF TestConfig, Refuses, Failing
<1>16. CASE FindPid
    BY <1>16 DEF FindPid, Failing
<1>17. CASE Mark
    BY <1>17 DEF Mark, StartupMark
<1>18. CASE Hup
    BY <1>18 DEF Hup
<1>19. CASE Wake
    BY <1>19 DEF Wake
<1>20. CASE CheckAlive
    BY <1>20 DEF CheckAlive, Failing
<1>21. CASE KeepLastGood
    BY <1>21 DEF KeepLastGood
<1>22. CASE WriteResult
    BY <1>22 DEF WriteResult
<1>23. CASE WriteProcessed
    BY <1>23 DEF WriteProcessed
<1>24. CASE CrowdsecStart
    BY <1>24 DEF CrowdsecStart, Load
<1>25. CASE CrowdsecReload
    BY <1>25 DEF CrowdsecReload, Load
<1>26. CASE ContainerDies
    BY <1>26 DEF ContainerDies, StopContainer
<1>27. CASE ContainerStops
    BY <1>27 DEF ContainerStops, StopContainer
<1>28. CASE ContainerStart
    BY <1>28 DEF ContainerStart
<1>29. CASE UNCHANGED vars
    BY <1>29 DEF vars
<1> QED
    BY <1>1, <1>2, <1>3, <1>4, <1>5, <1>6, <1>7, <1>8, <1>9, <1>10, <1>11,
       <1>12, <1>13, <1>14, <1>15, <1>16, <1>17, <1>18, <1>19, <1>20, <1>21,
       <1>22, <1>23, <1>24, <1>25, <1>26, <1>27, <1>28, <1>29
       DEF Next, Panel, Watcher, Container

\* IdInv holds in every reachable state.
LEMMA IdInvariant == Spec => []IdInv
<1>1. Init => IdInv
    BY DEF Init, IdInv, IdOrder, IdsInFlight, IdsReported, ApplyingMarked
<1> QED
    BY <1>1, TypeInvariant, IdInvStep, PTL DEF Spec

\* The ids on the volume never turn back and are never ahead of what the panel
\* asked for, whatever the clock reads, wherever either side stops and however
\* late crowdsec is (WafTuningService.nextRequestId, write_result).
THEOREM IdOrderCorrect == Spec => []IdOrder
<1>1. IdInv => IdOrder
    BY DEF IdInv
<1> QED
    BY <1>1, IdInvariant, PTL

-----------------------------------------------------------------------------
(* Only tested configurations are loaded.                                  *)

\* The image's own configuration passes `crowdsec -t`.
LEMMA DefaultVersionTested == DefaultVersion.yaml \notin Rejected
BY ConfigAssumption DEF DefaultVersion

\* With Timely, every action keeps crowdsec away from untested files.
LEMMA TestedInvStep ==
    ASSUME Timely
    PROVE  TestedInv /\ [Next]_vars => TestedInv'
<1> SUFFICES ASSUME TestedInv, [Next]_vars PROVE TestedInv'
    OBVIOUS
<1> USE Timely DEF TestedInv, OnlyTestedLoaded, ActiveTested, ReadsWhileWaiting
<1> USE DEF panelRest, watcherRest, crowdsecRest, containerRest,
            panelVars, panelFiles, watchFiles, watchLocals, csVars
<1>1. CASE \E change \in Changes : PanelStart(change)
    BY <1>1 DEF PanelStart
<1>2. CASE \E r \in Rules : PanelSave(r)
    BY <1>2 DEF PanelSave
<1>3. CASE \E now \in Readings : PanelRender(now)
    BY <1>3 DEF PanelRender
<1>4. CASE PanelWrite1
    BY <1>4 DEF PanelWrite1, WriteApply
<1>5. CASE PanelWrite2
    BY <1>5 DEF PanelWrite2, WriteApply
<1>6. CASE PanelAbort
    BY <1>6 DEF PanelAbort, NoChange
<1>7. CASE WaitLapi
    BY <1>7 DEF WaitLapi
<1>8. CASE DropLastGood
    BY <1>8 DEF DropLastGood
<1>9. CASE ClearStartupMark
    BY <1>9 DEF ClearStartupMark
<1>10. CASE ReportKilled
    BY <1>10 DEF ReportKilled, AfterKilled
<1>11. CASE Reapply
    BY <1>11 DEF Reapply, NeedsReapply
<1>12. CASE Poll
    BY <1>12 DEF Poll
<1>13. CASE SnapCustom
    BY <1>13 DEF SnapCustom
<1>14. CASE Install
    BY <1>14 DEF Install
<1>15. CASE TestConfig
    BY <1>15 DEF TestConfig, Refuses, Failing
<1>16. CASE FindPid
    BY <1>16 DEF FindPid, Failing
<1>17. CASE Mark
    BY <1>17 DEF Mark, StartupMark
<1>18. CASE Hup
    BY <1>18 DEF Hup
<1>19. CASE Wake
    BY <1>19 DEF Wake
<1>20. CASE CheckAlive
    BY <1>20 DEF CheckAlive, Failing
<1>21. CASE KeepLastGood
    BY <1>21 DEF KeepLastGood
<1>22. CASE WriteResult
    BY <1>22 DEF WriteResult
<1>23. CASE WriteProcessed
    BY <1>23 DEF WriteProcessed
<1>24. CASE CrowdsecStart
    BY <1>24 DEF CrowdsecStart, Load
<1>25. CASE CrowdsecReload
    BY <1>25 DEF CrowdsecReload, Load
<1>26. CASE ContainerDies
    BY <1>26 DEF ContainerDies, StopContainer
<1>27. CASE ContainerStops
    BY <1>27 DEF ContainerStops, StopContainer
<1>28. CASE ContainerStart
    BY <1>28, DefaultVersionTested DEF ContainerStart
<1>29. CASE UNCHANGED vars
    BY <1>29 DEF vars
<1> QED
    BY <1>1, <1>2, <1>3, <1>4, <1>5, <1>6, <1>7, <1>8, <1>9, <1>10, <1>11,
       <1>12, <1>13, <1>14, <1>15, <1>16, <1>17, <1>18, <1>19, <1>20, <1>21,
       <1>22, <1>23, <1>24, <1>25, <1>26, <1>27, <1>28, <1>29
       DEF Next, Panel, Watcher, Container

\* TestedInv holds in every reachable state of a Timely system.
LEMMA TestedInvariant ==
    ASSUME Timely
    PROVE  Spec => []TestedInv
<1>1. Init => TestedInv
    BY DefaultVersionTested DEF Init, TestedInv, OnlyTestedLoaded, ActiveTested,
       ReadsWhileWaiting
<1>2. TestedInv /\ [Next]_vars => TestedInv'
    BY TestedInvStep, Timely
<1> QED
    BY <1>1, <1>2, PTL DEF Spec

\* While the watcher's sleeps are long enough, crowdsec never loads a
\* configuration that `crowdsec -t` refuses: neither a start nor a reload falls
\* between the installation of a new nwu-custom.yaml and its test.
THEOREM OnlyTestedLoadedCorrect ==
    ASSUME Timely
    PROVE  Spec => []OnlyTestedLoaded
<1>1. TestedInv => OnlyTestedLoaded
    BY DEF TestedInv
<1>2. Spec => []TestedInv
    BY TestedInvariant, Timely
<1> QED
    BY <1>1, <1>2, PTL

-----------------------------------------------------------------------------
(* An "ok" is not older than its request.                                  *)

\* The types the comparison of versions needs.
LEMMA AgeTypes ==
    TypeInv => /\ made \in Nat /\ asked \in Nat /\ wasked \in Nat
               /\ draft \in Versions \cup {NoFile}
               /\ custom \in Versions \cup {NoFile}
               /\ wsrc \in Versions \cup {NoFile}
               /\ active \in Versions
               /\ panel \in {"write1", "write2"} => draft \in Versions
               /\ wpc = "apply" => wsrc \in Versions
               /\ \A v \in Versions : v.ver \in Nat
BY DEF TypeInv, TypeOK, LocalsSet, Versions

\* Every action keeps what is copied as new as the request it answers.
LEMMA AgeInvStep == TypeInv /\ AgeInv /\ [Next]_vars => AgeInv'
<1> SUFFICES ASSUME TypeInv, AgeInv, [Next]_vars PROVE AgeInv'
    OBVIOUS
<1> USE ConfigAssumption, AgeTypes DEF AgeInv, CustomNotOlder, CopyNotOlder
<1> USE DEF panelRest, watcherRest, crowdsecRest, containerRest,
            panelVars, panelFiles, watchFiles, watchLocals, csVars
<1>1. CASE \E change \in Changes : PanelStart(change)
    BY <1>1 DEF PanelStart
<1>2. CASE \E r \in Rules : PanelSave(r)
    BY <1>2 DEF PanelSave
<1>3. CASE \E now \in Readings : PanelRender(now)
    BY <1>3 DEF PanelRender
<1>4. CASE PanelWrite1
    BY <1>4 DEF PanelWrite1, WriteApply
<1>5. CASE PanelWrite2
    BY <1>5 DEF PanelWrite2, WriteApply
<1>6. CASE PanelAbort
    BY <1>6 DEF PanelAbort, NoChange
<1>7. CASE WaitLapi
    BY <1>7 DEF WaitLapi
<1>8. CASE DropLastGood
    BY <1>8 DEF DropLastGood
<1>9. CASE ClearStartupMark
    BY <1>9 DEF ClearStartupMark
<1>10. CASE ReportKilled
    BY <1>10 DEF ReportKilled, AfterKilled
<1>11. CASE Reapply
    BY <1>11 DEF Reapply, NeedsReapply
<1>12. CASE Poll
    BY <1>12 DEF Poll
<1>13. CASE SnapCustom
    BY <1>13 DEF SnapCustom
<1>14. CASE Install
    BY <1>14 DEF Install
<1>15. CASE TestConfig
    BY <1>15 DEF TestConfig, Refuses, Failing
<1>16. CASE FindPid
    BY <1>16 DEF FindPid, Failing
<1>17. CASE Mark
    BY <1>17 DEF Mark, StartupMark
<1>18. CASE Hup
    BY <1>18 DEF Hup
<1>19. CASE Wake
    BY <1>19 DEF Wake
<1>20. CASE CheckAlive
    BY <1>20 DEF CheckAlive, Failing
<1>21. CASE KeepLastGood
    BY <1>21 DEF KeepLastGood
<1>22. CASE WriteResult
    BY <1>22 DEF WriteResult
<1>23. CASE WriteProcessed
    BY <1>23 DEF WriteProcessed
<1>24. CASE CrowdsecStart
    BY <1>24 DEF CrowdsecStart, Load
<1>25. CASE CrowdsecReload
    BY <1>25 DEF CrowdsecReload, Load
<1>26. CASE ContainerDies
    BY <1>26 DEF ContainerDies, StopContainer
<1>27. CASE ContainerStops
    BY <1>27 DEF ContainerStops, StopContainer
<1>28. CASE ContainerStart
    BY <1>28 DEF ContainerStart
<1>29. CASE UNCHANGED vars
    BY <1>29 DEF vars
<1> QED
    BY <1>1, <1>2, <1>3, <1>4, <1>5, <1>6, <1>7, <1>8, <1>9, <1>10, <1>11,
       <1>12, <1>13, <1>14, <1>15, <1>16, <1>17, <1>18, <1>19, <1>20, <1>21,
       <1>22, <1>23, <1>24, <1>25, <1>26, <1>27, <1>28, <1>29
       DEF Next, Panel, Watcher, Container

\* AgeInv holds in every reachable state.
LEMMA AgeInvariant == Spec => []AgeInv
<1>1. Init => AgeInv
    BY ConfigAssumption DEF Init, AgeInv, CustomNotOlder, CopyNotOlder
<1> QED
    BY <1>1, TypeInvariant, AgeInvStep, PTL DEF Spec

\* An "ok" in result.json means that the settings rendered for that request, or
\* newer ones, are last-good.yaml: a watcher that reads custom.yaml late, or
\* restarts in between, never confirms an older file (the order of the two
\* renames in writeApply).
THEOREM OkNotOlderCorrect == Spec => OkNotOlder
<1>1. TypeInv /\ AgeInv /\ [Next]_vars
        => [result' # result /\ result'.status = "ok" =>
              lastGood' # NoFile /\ lastGood'.ver >= wasked]_vars
  <2> SUFFICES ASSUME TypeInv, AgeInv, Next, result' # result,
                      result'.status = "ok"
               PROVE  lastGood' # NoFile /\ lastGood'.ver >= wasked
    BY DEF vars, watchFiles
  <2>1. WriteResult
    BY DEF Next, Panel, Watcher, Container, PanelStart, PanelSave, PanelRender,
       PanelWrite1, PanelWrite2, PanelAbort, WaitLapi, DropLastGood,
       ClearStartupMark, ReportKilled, Reapply, Poll, SnapCustom, Install,
       TestConfig, FindPid, Mark, Hup, Wake, CheckAlive, KeepLastGood,
       WriteProcessed,
       CrowdsecStart, CrowdsecReload, ContainerDies, ContainerStops,
       ContainerStart, StopContainer, panelRest, watcherRest, crowdsecRest,
       containerRest, panelVars, panelFiles, watchFiles, watchLocals, csVars
  <2> QED
    BY <2>1, ConfigAssumption, AgeTypes
       DEF WriteResult, AgeInv, CopyNotOlder
<1> QED
    BY <1>1, TypeInvariant, AgeInvariant, PTL DEF Spec, OkNotOlder

-----------------------------------------------------------------------------
(* last-good.yaml is what crowdsec runs.                                   *)

\* The types of the files the watcher copies.
LEMMA FileTypes ==
    TypeInv => /\ active \in Versions /\ loaded \in Versions
               /\ lastGood \in Versions \cup {NoFile}
               /\ wpc = "apply" => wsrc \in Versions
               /\ wpc \in {"test", "pid"} => prev \in Versions
               /\ cs \in {"starting", "up", "dead"} /\ wpc \in WatcherSteps
               /\ wid \in Nat
BY DEF TypeInv, TypeOK, LocalsSet

\* With Timely, every action keeps crowdsec, the file it reads and the copy
\* kept of it in step.
LEMMA LastGoodInvStep ==
    ASSUME Timely
    PROVE  TypeInv /\ TestedInv /\ LastGoodInv /\ [Next]_vars => LastGoodInv'
<1> SUFFICES ASSUME TypeInv, TestedInv, LastGoodInv, [Next]_vars
             PROVE  LastGoodInv'
    OBVIOUS
<1> USE Timely, ConfigAssumption, FileTypes
<1> USE DEF LastGoodInv, BootsOnDefault, ReappliesLastGood, Serving,
            LoadedIsActive, ActiveIsEffective, EffectiveYaml, DefaultVersion,
            TestedInv, ActiveTested, ReadsWhileWaiting, WatcherSteps
<1> USE DEF panelRest, watcherRest, crowdsecRest, containerRest,
            panelVars, panelFiles, watchFiles, watchLocals, csVars
<1>1. CASE \E change \in Changes : PanelStart(change)
    BY <1>1 DEF PanelStart
<1>2. CASE \E r \in Rules : PanelSave(r)
    BY <1>2 DEF PanelSave
<1>3. CASE \E now \in Readings : PanelRender(now)
    BY <1>3 DEF PanelRender
<1>4. CASE PanelWrite1
    BY <1>4 DEF PanelWrite1, WriteApply
<1>5. CASE PanelWrite2
    BY <1>5 DEF PanelWrite2, WriteApply
<1>6. CASE PanelAbort
    BY <1>6 DEF PanelAbort, NoChange
<1>7. CASE WaitLapi
    BY <1>7 DEF WaitLapi
<1>8. CASE DropLastGood
    BY <1>8 DEF DropLastGood
<1>9. CASE ClearStartupMark
    BY <1>9 DEF ClearStartupMark
<1>10. CASE ReportKilled
    BY <1>10 DEF ReportKilled, AfterKilled
<1>11. CASE Reapply
    BY <1>11 DEF Reapply, NeedsReapply
<1>12. CASE Poll
    BY <1>12 DEF Poll
<1>13. CASE SnapCustom
    BY <1>13 DEF SnapCustom
<1>14. CASE Install
    BY <1>14 DEF Install
<1>15. CASE TestConfig
    BY <1>15 DEF TestConfig, Refuses, Failing
<1>16. CASE FindPid
    BY <1>16 DEF FindPid, Failing
<1>17. CASE Mark
    BY <1>17 DEF Mark, StartupMark
<1>18. CASE Hup
    BY <1>18 DEF Hup
<1>19. CASE Wake
    BY <1>19 DEF Wake
<1>20. CASE CheckAlive
    BY <1>20 DEF CheckAlive, Failing
<1>21. CASE KeepLastGood
    BY <1>21 DEF KeepLastGood
<1>22. CASE WriteResult
    BY <1>22 DEF WriteResult
<1>23. CASE WriteProcessed
    BY <1>23 DEF WriteProcessed
<1>24. CASE CrowdsecStart
    BY <1>24 DEF CrowdsecStart, Load
<1>25. CASE CrowdsecReload
    BY <1>25 DEF CrowdsecReload, Load
<1>26. CASE ContainerDies
    BY <1>26 DEF ContainerDies, StopContainer
<1>27. CASE ContainerStops
    BY <1>27 DEF ContainerStops, StopContainer
<1>28. CASE ContainerStart
    BY <1>28 DEF ContainerStart
<1>29. CASE UNCHANGED vars
    BY <1>29 DEF vars
<1> QED
    BY <1>1, <1>2, <1>3, <1>4, <1>5, <1>6, <1>7, <1>8, <1>9, <1>10, <1>11,
       <1>12, <1>13, <1>14, <1>15, <1>16, <1>17, <1>18, <1>19, <1>20, <1>21,
       <1>22, <1>23, <1>24, <1>25, <1>26, <1>27, <1>28, <1>29
       DEF Next, Panel, Watcher, Container

\* LastGoodInv holds in every reachable state of a Timely system.
LEMMA LastGoodInvariant ==
    ASSUME Timely
    PROVE  Spec => []LastGoodInv
<1>1. Init => LastGoodInv
    BY ConfigAssumption
       DEF Init, LastGoodInv, BootsOnDefault, ReappliesLastGood, Serving,
           LoadedIsActive, ActiveIsEffective
<1>2. TypeInv /\ TestedInv /\ LastGoodInv /\ [Next]_vars => LastGoodInv'
    BY LastGoodInvStep, Timely
<1>3. Spec => []TestedInv
    BY TestedInvariant, Timely
<1> QED
    BY <1>1, <1>2, <1>3, TypeInvariant, PTL DEF Spec

\* What the panel compares the database with is the truth: whenever crowdsec is
\* up and the watcher waits for a request, crowdsec runs last-good.yaml, or the
\* image's default when there is none (WafTuningService.inSync).
THEOREM LastGoodIsLoadedCorrect ==
    ASSUME Timely
    PROVE  Spec => []LastGoodIsLoaded
<1>1. LastGoodInv => LastGoodIsLoaded
    BY DEF LastGoodInv, BootsOnDefault, LoadedIsActive, ActiveIsEffective,
           Serving, LastGoodIsLoaded
<1>2. Spec => []LastGoodInv
    BY LastGoodInvariant, Timely
<1> QED
    BY <1>1, <1>2, PTL

-----------------------------------------------------------------------------
(* The protocol keeps the safety half of ApplyPromise.                     *)

\* Only two steps of the protocol are steps of the promise.
LEMMA OtherSteps ==
    ASSUME Next, ~PanelWrite2, ~WriteResult
    PROVE  UNCHANGED <<request, result>>
BY DEF Next, Panel, Watcher, Container, PanelStart, PanelSave, PanelRender,
       PanelWrite1, WriteApply, PanelAbort, WaitLapi, DropLastGood,
       ClearStartupMark, ReportKilled, Reapply, Poll, SnapCustom, Install,
       TestConfig, FindPid, Mark, Hup, Wake, CheckAlive, KeepLastGood,
       WriteProcessed,
       CrowdsecStart, CrowdsecReload, ContainerDies, ContainerStops,
       ContainerStart, StopContainer, panelRest, watcherRest, crowdsecRest,
       containerRest, panelVars, panelFiles, watchFiles, watchLocals, csVars

\* Writing the request file asks for something new, result.json answers a
\* request not yet overtaken by an answer, and nothing else asks or answers:
\* in whatever order the panel, the watcher, crowdsec and restarts interleave.
THEOREM PromiseSafetyCorrect == Spec => PromiseSafety
<1>1. Init => Promise!Init
    BY DEF Init, Promise!Init
<1>2. TypeInv /\ IdInv /\ [Next]_vars => [Promise!Next]_<<request, result>>
  <2> SUFFICES ASSUME TypeInv, IdInv, [Next]_vars,
                      ~UNCHANGED <<request, result>>
               PROVE  Promise!Next
    OBVIOUS
  <2>1. CASE PanelWrite2
    <3>1. request' = newId /\ newId > request /\ UNCHANGED result
      BY <2>1 DEF PanelWrite2, WriteApply, panelRest, watchFiles, IdInv,
                  IdsInFlight
    <3> QED
      BY <3>1, IdTypes DEF Promise!Next, Promise!Ask
  <2>2. CASE WriteResult
    <3>1. wid \in 1 .. request /\ result.id <= wid
      BY <2>2, IdTypes DEF WriteResult, IdInv, IdsInFlight, IdsReported
    <3>2. wpc \in Promise!Statuses /\ result' = [id |-> wid, status |-> wpc]
          /\ UNCHANGED request
      BY <2>2 DEF WriteResult, watcherRest, panelFiles, Promise!Statuses
    <3>3. Promise!AnswerTo(wid)
      BY <3>1, <3>2, IdTypes DEF Promise!AnswerTo
    <3> QED
      BY <3>1, <3>3 DEF Promise!Next, Promise!Answer
  <2> QED
    BY <2>1, <2>2, OtherSteps DEF vars, panelFiles, watchFiles
<1> QED
    BY <1>1, <1>2, TypeInvariant, IdInvariant, PTL
       DEF Spec, PromiseSafety, Promise!Safety
=============================================================================
