------------------------------ MODULE WafApply ------------------------------
(***************************************************************************)
(* Applying WAF rule settings: the panel (WafTuningService.apply) and the  *)
(* watcher of the CrowdSec container (docker/crowdsec/nwu-waf-watch.sh)    *)
(* talk through files of a shared volume.  Either side can stop between    *)
(* any two steps; the files and the database survive, the rest does not.   *)
(*                                                                         *)
(* A configuration (the appsec-config YAML) is the effective action of     *)
(* every rule; render() is that function of the database rows.  A file     *)
(* that holds one also carries the number of the render it came from       *)
(* ("ver"): a history value that no step reads.                            *)
(***************************************************************************)
EXTENDS Naturals, FiniteSets

CONSTANTS
    Rules,          \* rule keys of the catalog
    Actions,        \* block / count / log / off
    DefaultAction,  \* the action of a rule without a setting
    Rejected,       \* configurations `crowdsec -t` refuses
    Killing,        \* configurations that may kill crowdsec when it reloads
    Readings,       \* what System.currentTimeMillis() may return (it may jump)
    NoFile,         \* a configuration file that does not exist
    Timely,         \* the watcher's sleeps are long enough (see Wake, WaitLapi)
    MaxApplies,     \* bound: renders by the panel
    MaxStops        \* bound: container stops not caused by crowdsec dying

Configs == [Rules -> Actions]
DefaultConfig == [r \in Rules |-> DefaultAction]
Versions == [yaml : Configs, ver : Nat]
DefaultVersion == [yaml |-> DefaultConfig, ver |-> 0]

ASSUME ConfigAssumption ==
    /\ DefaultAction \in Actions
    /\ Rejected \subseteq Configs /\ Killing \subseteq Configs
    /\ DefaultConfig \notin Rejected \cup Killing   \* the image's own config
    /\ NoFile \notin Versions
ASSUME BoundAssumption ==
    /\ Readings \subseteq Nat \ {0}
    /\ Timely \in BOOLEAN
    /\ MaxApplies \in Nat /\ MaxStops \in Nat

VARIABLES
    db,         \* WafRuleSetting rows: rule -> action (default = no row)
    panel,      \* where the synchronized apply() stands
    todo,       \* apply(): changes not yet saved, a function on some rules
    draft,      \* apply(): the rendered configuration
    newId,      \* apply(): the request id it will write
    made,       \* history: number of renders so far
    catalog,    \* the rule catalog has been copied to the volume
    custom, request, result, processed, applying, startupApplying, lastGood,
    asked,      \* history: ver of the render the request file belongs to
    wpc, wid, wsrc, prev, booting,   \* the watcher's position and locals
    wasked,     \* history: asked when the watcher read wid
    active,     \* /etc/crowdsec/appsec-configs/nwu-custom.yaml
    cs,         \* the crowdsec process: "starting", "up", "dead"
    loaded,     \* what that process last loaded
    hup,        \* a SIGHUP crowdsec has not acted on yet
    stops       \* container stops so far (bounded)

panelVars == <<db, panel, todo, draft, newId, made>>
panelFiles == <<custom, request, asked>>
watchFiles == <<result, processed, applying, startupApplying, lastGood>>
watchLocals == <<wid, wsrc, prev, booting, wasked>>
csVars == <<cs, loaded, hup>>
vars == <<panelVars, panelFiles, catalog, watchFiles, wpc, watchLocals,
          active, csVars, stops>>

NoChange == [r \in {} |-> DefaultAction]
Changes == UNION {[S -> Actions] : S \in (SUBSET Rules) \ {{}}}

Init ==
    /\ db = DefaultConfig
    /\ panel = "idle" /\ todo = NoChange /\ draft = NoFile
    /\ newId = 0 /\ made = 0
    /\ catalog = FALSE
    /\ custom = NoFile /\ request = 0 /\ asked = 0
    /\ result = [id |-> 0, status |-> "none"]
    /\ processed = 0 /\ applying = 0 /\ startupApplying = FALSE
    /\ lastGood = NoFile
    /\ wpc = "down" /\ wid = 0 /\ wsrc = NoFile /\ prev = NoFile
    /\ booting = FALSE /\ wasked = 0
    /\ active = DefaultVersion
    /\ cs = "dead" /\ loaded = DefaultVersion /\ hup = FALSE
    /\ stops = 0

-----------------------------------------------------------------------------
(* The panel: one apply() at a time (synchronized).                        *)

panelRest == UNCHANGED <<watchFiles, catalog, wpc, watchLocals, active, csVars,
                         stops>>

\* validate() refuses other changes before anything is written.
PanelStart(change) ==
    /\ panel = "idle" /\ catalog
    /\ made < MaxApplies
    /\ panel' = "save" /\ todo' = change
    /\ UNCHANGED <<db, draft, newId, made, panelFiles>>
    /\ panelRest

\* One row is deleted (the default) or upserted, and committed at once.
PanelSave(r) ==
    /\ panel = "save" /\ r \in DOMAIN todo
    /\ db' = [db EXCEPT ![r] = todo[r]]
    /\ todo' = [s \in DOMAIN todo \ {r} |-> todo[s]]
    /\ UNCHANGED <<panel, draft, newId, made, panelFiles>>
    /\ panelRest

\* Mutant: the id is the clock alone.
NextRequestIdByClock(now, current) == now

\* nextRequestId: at least one more than the id of the request file.
NextRequestId(now, current) == IF now > current THEN now ELSE current + 1

PanelRender(now) ==
    /\ panel = "save" /\ DOMAIN todo = {}
    /\ draft' = [yaml |-> db, ver |-> made + 1]
    /\ made' = made + 1
    /\ newId' = NextRequestId(now, request)
    /\ panel' = "write1"
    /\ UNCHANGED <<db, todo, panelFiles>>
    /\ panelRest

\* Mutant: request first, custom.yaml second.
WriteApplySwapped(n) ==
    IF n = 2 THEN custom' = draft /\ UNCHANGED <<request, asked>>
             ELSE request' = newId /\ asked' = draft.ver /\ UNCHANGED custom

\* writeApply: two atomic renames, custom.yaml first, request second.
WriteApply(n) ==
    IF n = 1 THEN custom' = draft /\ UNCHANGED <<request, asked>>
             ELSE request' = newId /\ asked' = draft.ver /\ UNCHANGED custom

PanelWrite1 ==
    /\ panel = "write1"
    /\ WriteApply(1)
    /\ panel' = "write2"
    /\ UNCHANGED <<db, todo, draft, newId, made>>
    /\ panelRest

PanelWrite2 ==
    /\ panel = "write2"
    /\ WriteApply(2)
    /\ panel' = "idle" /\ draft' = NoFile /\ newId' = 0
    /\ UNCHANGED <<db, todo, made>>
    /\ panelRest

\* The panel process stops, or a write throws IOException: apply() ends here.
PanelAbort ==
    /\ panel # "idle"
    /\ panel' = "idle" /\ todo' = NoChange /\ draft' = NoFile /\ newId' = 0
    /\ UNCHANGED <<db, made, panelFiles>>
    /\ panelRest

Panel ==
    \/ \E change \in Changes : PanelStart(change)
    \/ \E r \in Rules : PanelSave(r)
    \/ \E now \in Readings : PanelRender(now)
    \/ PanelWrite1
    \/ PanelWrite2
    \/ PanelAbort

-----------------------------------------------------------------------------
(* The watcher's start: what an earlier life left behind comes first.      *)

watcherRest == UNCHANGED <<panelVars, panelFiles, catalog, stops>>

\* wait_lapi gives up after 120 s and the watcher goes on all the same.
WaitLapi ==
    /\ wpc = "lapi"
    /\ Timely => cs # "starting"
    /\ wpc' = IF startupApplying THEN "drop" ELSE "killed"
    /\ UNCHANGED <<watchFiles, watchLocals, active, csVars>>
    /\ watcherRest

\* startup-applying is there: crowdsec died while last-good.yaml was reloaded.
DropLastGood ==
    /\ wpc = "drop"
    /\ lastGood' = NoFile
    /\ wpc' = "undrop"
    /\ UNCHANGED <<result, processed, applying, startupApplying, watchLocals,
                   active, csVars>>
    /\ watcherRest

ClearStartupMark ==
    /\ wpc = "undrop"
    /\ startupApplying' = FALSE
    /\ wpc' = "killed"
    /\ UNCHANGED <<result, processed, applying, lastGood, watchLocals, active,
                   csVars>>
    /\ watcherRest

\* Mutant: the mark is removed and nothing is reported.
AfterKilledSilent == "reapply"
AfterKilled == IF applying = 0 THEN "reapply" ELSE "failed"

\* applying is there: crowdsec died while that request was reloaded.
ReportKilled ==
    /\ wpc = "killed"
    /\ wid' = applying /\ applying' = 0
    /\ wpc' = AfterKilled
    /\ UNCHANGED <<result, processed, startupApplying, lastGood,
                   wsrc, prev, booting, wasked, active, csVars>>
    /\ watcherRest

\* Mutants: the existence test is missing; nothing is re-applied.
MissingNeedsReapply == lastGood = NoFile \/ lastGood.yaml # active.yaml
NeverNeedsReapply == FALSE
NeedsReapply == lastGood # NoFile /\ lastGood.yaml # active.yaml

Reapply ==
    /\ wpc = "reapply"
    /\ booting' = FALSE /\ wid' = 0
    /\ IF NeedsReapply
         THEN wsrc' = lastGood /\ wpc' = "apply"
         ELSE wsrc' = NoFile /\ wpc' = "poll"
    /\ UNCHANGED <<watchFiles, prev, wasked, active, csVars>>
    /\ watcherRest

-----------------------------------------------------------------------------
(* The poll loop and apply(): id 0 is the re-application at start.         *)

Poll ==
    /\ wpc = "poll"
    /\ request # 0 /\ request # processed
    /\ wid' = request /\ wasked' = asked
    /\ wpc' = "snap"
    /\ UNCHANGED <<watchFiles, wsrc, prev, booting, active, csVars>>
    /\ watcherRest

SnapCustom ==
    /\ wpc = "snap"
    /\ wsrc' = custom
    /\ wpc' = IF custom = NoFile THEN "poll" ELSE "apply"
    /\ UNCHANGED <<watchFiles, wid, prev, booting, wasked, active, csVars>>
    /\ watcherRest

Install ==
    /\ wpc = "apply"
    /\ prev' = active /\ active' = wsrc
    /\ wsrc' = NoFile
    /\ wpc' = "test"
    /\ UNCHANGED <<watchFiles, wid, booting, wasked, csVars>>
    /\ watcherRest

\* A failed apply is reported, except the re-application at start.
Failing == IF wid = 0 THEN "poll" ELSE "failed"

\* Mutant: the exit code of the test is lost.
RefusesNothing(version) == FALSE
Refuses(version) == version.yaml \in Rejected

TestConfig ==
    /\ wpc = "test"
    /\ IF Refuses(active)
         THEN active' = prev /\ prev' = NoFile /\ wpc' = Failing
         ELSE UNCHANGED <<active, prev>> /\ wpc' = "pid"
    /\ UNCHANGED <<watchFiles, wid, wsrc, booting, wasked, csVars>>
    /\ watcherRest

\* pgrep may find a crowdsec that is still starting.
FindPid ==
    /\ wpc = "pid"
    /\ prev' = NoFile
    /\ \E found \in {cs = "up", cs # "dead"} :
          IF found THEN wpc' = "mark" /\ UNCHANGED active
          ELSE active' = prev /\ wpc' = Failing
    /\ UNCHANGED <<watchFiles, wid, wsrc, booting, wasked, csVars>>
    /\ watcherRest

\* Mutant: the re-application at start leaves no mark.
StartupMarkForgotten == startupApplying
StartupMark == startupApplying \/ wid = 0

Mark ==
    /\ wpc = "mark"
    /\ applying' = (IF wid # 0 THEN wid ELSE applying)
    /\ startupApplying' = StartupMark
    /\ wpc' = "hup"
    /\ UNCHANGED <<result, processed, lastGood, watchLocals, active, csVars>>
    /\ watcherRest

\* A signal that comes before crowdsec has a handler for it is its end.
Hup ==
    /\ wpc = "hup"
    /\ cs' \in IF cs = "starting" THEN {"starting", "dead"} ELSE {cs}
    /\ hup' = (cs' # "dead")
    /\ wpc' = "sleep"
    /\ UNCHANGED <<watchFiles, watchLocals, active, loaded>>
    /\ watcherRest

\* The end of sleep 5.  Timely: crowdsec has finished reloading by then, and
\* if that killed it the container (whose main process it is) is gone too.
Wake ==
    /\ wpc = "sleep"
    /\ Timely => ~hup /\ cs = "up"
    /\ applying' = 0 /\ startupApplying' = FALSE
    /\ wpc' = "alive"
    /\ UNCHANGED <<result, processed, lastGood, watchLocals, active, csVars>>
    /\ watcherRest

CheckAlive ==
    /\ wpc = "alive"
    /\ wpc' = IF cs # "dead" THEN "good" ELSE Failing
    /\ UNCHANGED <<watchFiles, watchLocals, active, csVars>>
    /\ watcherRest

KeepLastGood ==
    /\ wpc = "good"
    /\ lastGood' = active
    /\ wpc' = IF wid = 0 THEN "poll" ELSE "ok"
    /\ UNCHANGED <<result, processed, applying, startupApplying, watchLocals,
                   active, csVars>>
    /\ watcherRest

\* write_result: result.json, then processed.
WriteResult ==
    /\ wpc \in {"ok", "failed"}
    /\ result' = [id |-> wid, status |-> wpc]
    /\ wpc' = "processed"
    /\ UNCHANGED <<processed, applying, startupApplying, lastGood, watchLocals,
                   active, csVars>>
    /\ watcherRest

WriteProcessed ==
    /\ wpc = "processed"
    /\ processed' = wid /\ wid' = 0
    /\ wpc' = IF booting THEN "reapply" ELSE "poll"
    /\ UNCHANGED <<result, applying, startupApplying, lastGood,
                   wsrc, prev, booting, wasked, active, csVars>>
    /\ watcherRest

Watcher ==
    \/ WaitLapi \/ DropLastGood \/ ClearStartupMark \/ ReportKilled \/ Reapply
    \/ Poll \/ SnapCustom \/ Install \/ TestConfig \/ FindPid \/ Mark \/ Hup
    \/ Wake \/ CheckAlive \/ KeepLastGood \/ WriteResult \/ WriteProcessed

-----------------------------------------------------------------------------
(* The crowdsec process and its container.                                 *)

crowdsecRest == UNCHANGED <<panelVars, panelFiles, catalog, watchFiles, wpc,
                            watchLocals, active, stops>>

\* Loading a refused configuration makes crowdsec exit; a killing one may.
Load ==
    /\ loaded' = active
    /\ cs' \in IF active.yaml \in Rejected THEN {"dead"}
               ELSE IF active.yaml \in Killing THEN {"up", "dead"} ELSE {"up"}

CrowdsecStart ==
    /\ wpc # "down" /\ cs = "starting"
    /\ Load /\ UNCHANGED hup
    /\ crowdsecRest

CrowdsecReload ==
    /\ hup /\ cs = "up"
    /\ Load /\ hup' = FALSE
    /\ crowdsecRest

containerRest == UNCHANGED <<panelVars, panelFiles, watchFiles>>

\* Every process of the container ends; its own file system and the volume stay.
StopContainer ==
    /\ wpc' = "down" /\ cs' = "dead" /\ hup' = FALSE
    /\ wid' = 0 /\ wsrc' = NoFile /\ prev' = NoFile
    /\ booting' = FALSE /\ wasked' = 0
    /\ UNCHANGED <<catalog, active, loaded>>
    /\ containerRest

ContainerDies ==
    /\ wpc # "down" /\ cs = "dead"
    /\ StopContainer /\ UNCHANGED stops

ContainerStops ==
    /\ wpc # "down" /\ stops < MaxStops
    /\ StopContainer /\ stops' = stops + 1

\* nwu-start.sh: default config, rule catalog, the watcher, then crowdsec.
ContainerStart ==
    /\ wpc = "down"
    /\ active' = DefaultVersion /\ catalog' = TRUE
    /\ wpc' = "lapi" /\ booting' = TRUE /\ cs' = "starting"
    /\ UNCHANGED <<hup, loaded, wid, wsrc, prev, wasked, stops>>
    /\ containerRest

Container == CrowdsecStart \/ CrowdsecReload \/ ContainerDies \/ ContainerStart

Next == Panel \/ Watcher \/ Container \/ ContainerStops

Fairness ==
    /\ WF_vars(Watcher)
    /\ WF_vars(CrowdsecStart) /\ WF_vars(CrowdsecReload)
    /\ WF_vars(ContainerDies) /\ WF_vars(ContainerStart)

Spec == Init /\ [][Next]_vars
FairSpec == Spec /\ Fairness
-----------------------------------------------------------------------------
(* Properties.                                                             *)

PanelSteps == {"idle", "save", "write1", "write2"}
WatcherSteps == {"down", "lapi", "drop", "undrop", "killed", "reapply", "poll",
                 "snap", "apply", "test", "pid", "mark", "hup", "sleep",
                 "alive", "good", "ok", "failed", "processed"}

\* Every variable holds a value the code could hold.
TypeOK ==
    /\ db \in Configs
    /\ panel \in PanelSteps
    /\ todo \in UNION {[S -> Actions] : S \in SUBSET Rules}
    /\ draft \in Versions \cup {NoFile}
    /\ newId \in Nat /\ made \in Nat /\ catalog \in BOOLEAN
    /\ custom \in Versions \cup {NoFile}
    /\ request \in Nat /\ asked \in Nat
    /\ result \in [id : Nat, status : {"none", "ok", "failed"}]
    /\ processed \in Nat /\ applying \in Nat /\ startupApplying \in BOOLEAN
    /\ lastGood \in Versions \cup {NoFile}
    /\ wpc \in WatcherSteps /\ wid \in Nat /\ wasked \in Nat
    /\ wsrc \in Versions \cup {NoFile} /\ prev \in Versions \cup {NoFile}
    /\ booting \in BOOLEAN
    /\ active \in Versions /\ loaded \in Versions
    /\ cs \in {"starting", "up", "dead"} /\ hup \in BOOLEAN
    /\ stops \in Nat

\* Every id on the volume is an id the panel asked for, and in order: what is
\* processed has its result, a request under reload is not older than the last
\* result.  A restart of either side must not turn the ids back.
IdOrder ==
    /\ processed <= result.id
    /\ result.id <= request
    /\ applying # 0 => result.id <= applying /\ applying <= request

\* nwu-waf-watch.sh:12: crowdsec only ever loads a configuration that
\* `crowdsec -t` accepted, whatever the interleaving of reloads and restarts.
OnlyTestedLoaded == loaded.yaml \notin Rejected

\* What WafTuningService.inSync compares the database with is the truth: with
\* crowdsec up and the watcher idle, last-good.yaml (or the image default when
\* there is none) is what crowdsec runs.
EffectiveYaml == IF lastGood = NoFile THEN DefaultConfig ELSE lastGood.yaml
LastGoodIsLoaded ==
    wpc = "poll" /\ cs = "up" => loaded.yaml = EffectiveYaml

\* "ok" for a request never speaks of settings older than the ones rendered
\* for it: custom.yaml may be overtaken by a newer apply, not by an older one.
OkNotOlder ==
    [][result' # result /\ result'.status = "ok" =>
         lastGood' # NoFile /\ lastGood'.ver >= wasked]_vars

\* The panel's view of the protocol: see ApplyPromise.
Promise == INSTANCE ApplyPromise WITH asked <- request, answer <- result
KeepsPromise == Promise!Spec

\* Its safety half: only asked requests are answered and ids never turn back,
\* even when crowdsec is slower than the watcher expects.
PromiseSafety == Promise!Safety

\* A killing configuration does not keep the container in a restart loop: again
\* and again crowdsec is up and the watcher serves requests.
KeepsServing == []<>(cs = "up" /\ wpc = "poll")
=============================================================================
