# nginxWebUI: a verification project

TLA+ models of nginxWebUI, a web panel that builds nginx configurations, drives
CrowdSec (IP bans, WAF, challenge) and keeps certificates, backups and statistics.
The models are translated from the Java services, the shell watcher and the scripts
of the repository; TLC checks them on small instances and the TLA+ proof system
proves the main safety properties for every value of the constants.

Paths below are relative to the repository; `J/` stands for
`src/main/java/com/cym/`.

## 1. The system

The panel is one Java process (Solon). Requests run on a thread pool, scheduled
tasks (`J/task/ScheduleTask.java`) on threads of their own. Its state is a
relational database reached through `SqlHelper`, which **commits every statement by
itself**: there is no transaction that spans two statements, so every handler with
two writes has states in between that others see and that a crash keeps. The other
state is files: the live nginx directory, a temp directory for tests, and a volume
shared with the CrowdSec container.

| Component | State | Operations | Talks to | What is hard | What makes it correct |
|---|---|---|---|---|---|
| WAF rule application: `J/service/WafTuningService.java`, `docker/crowdsec/nwu-waf-watch.sh`, `nwu-start.sh` | rows `WafRuleSetting`; volume files custom.yaml, request, result.json, processed, applying, startup-applying, last-good.yaml; the active file in the container; what crowdsec loaded | apply, status, inSync; the watcher's boot and poll loop; reload by SIGHUP | panel and watcher through files only | both sides stop anywhere; a bad configuration kills crowdsec and with it the watcher; clock as id source | ids in order, only tested configurations loaded, every latest request answered, no restart loop, the panel's "in sync" is true |
| Saving http parameters: `J/controller/adminPage/HttpController.java` with `ConfService.precheckConf` | rows `Http`; the temp directory; two monitors | saveEnable, setEnable, addOver, del; check and checkBase pages | nginx -t | interleaving with edits and page tests; roll-back row by row; nginx that hangs | failed saves undone exactly, accepted ones acceptable, nobody locked out |
| WAF event sync: `J/service/WafEventSyncService.java` | settings (sync point, last alert, gap, retention), flag `running`, rows `WafEvent`, `WafEventRule` | sync, cleanup, setRetentionDays, status | LAPI alerts, `WafEventService.store` | relative time windows, paging, LAPI deleting alerts, outages | nothing lost in silence; a sync ends |
| WAF event store: `J/service/WafEventService.java` | rows `WafEvent`, `WafEventRule` | store (merging the alerts of a request), cleanup, list | sync, cleanup job | several statements per alert; cleanup in between | merged events complete, no orphans |
| Building and publishing: `J/service/ConfService.java`, `J/controller/adminPage/ConfController.java`, `Bak*` | live directory, rows `Bak`, `BakSub` | buildConf, replace, reload, restore | nginx | no lock on the live directory; backup in many statements | what is backed up is what was live; reload reads a whole configuration |
| ASN blocking: `J/service/AsnBlockService.java`, `J/controller/adminPage/AsnController.java` | rows `AsBlockIntent`, profile setting; LAPI decisions | addIntent, pushIntent, revoke, setProfile | LAPI | long loops of calls; switch while pushing; lost answers | light profile leaves no bans; row status agrees with bans |
| LAPI client: `J/service/CrowdSecClient.java` | cached machine token | token, invalidateToken, paging deletes | LAPI | many threads, one token; offset paging over a changing list | valid credentials are not called invalid |
| Certificates: `J/controller/adminPage/CertController.java` | flag `isInApply`, rows `Cert` | apply, renewal task | acme.sh | flag tested then set, never reset after an exception | no edit undone unnoticed, applying always possible again |
| Downloads: AsnMeta, Geoip, DenyAllow services | files, rows, flags | single-flight download, refresh | internet | stale write-back | no edit undone |
| Challenge and bouncer: `docker/lua/*.lua`, `cloudflare/challenge-worker` | shared dictionaries | tickets, nonces, cookies | nginx, browser | expiry against memory | a ticket is used once |
| Servers, upstreams, streams: `J/service/ServerService.java` ... | rows | edit, order, delete | buildConf | several statements per save and move; deleted rows come back without a number | pages show what was saved, in the order wanted |
| Remote packs: `J/controller/adminPage/RemoteController.java` | whole tables | setAsycPack | other panels | delete all, insert all | no state of empty tables |
| Settings, login, start-up, frontend, monitors | – | – | – | see PROJECT.json | – |

`PROJECT.json` lists every component with its status, and under `hazards` the places
of the code that a test would hardly reach, each at its line, with the properties
that cover it and a note where they excuse a part of it, or the reason why none does.

## 2. What is modelled

### WafApply – applying WAF rule settings

`WafApply.tla` models both programs and the process between them.

* **State.** `db` is the table of settings (the effective action of every rule).
  The volume's files are `custom`, `request`, `result`, `processed`, `applying`,
  `startupApplying` and `lastGood`; the container's own file is `active`;
  `cs`, `loaded` and `hup` are the crowdsec process. `panel` and `wpc` say where
  apply() and the watcher's script stand; the other variables are their locals.
  A configuration file carries the number of the render it came from (`ver`):
  history, read by no step.
* **Panel.** `PanelStart`, `PanelSave` (one row, committed), `PanelRender`
  (render and nextRequestId), `PanelWrite1`, `PanelWrite2` (the two renames of
  writeApply), `PanelAbort` (IOException or the process stops: at any step).
* **Watcher.** One action per command whose order matters: the boot sequence
  (`WaitLapi`, `DropLastGood`, `ClearStartupMark`, `ReportKilled`, `Reapply`),
  the loop (`Poll`, `SnapCustom`) and apply() (`Install`, `TestConfig`,
  `FindPid`, `Mark`, `Hup`, `Wake`, `CheckAlive`, `KeepLastGood`,
  `WriteResult`, `WriteProcessed`).
* **Environment.** `CrowdsecStart` and `CrowdsecReload` load the active file as it
  is at that moment; a refused one kills, a "killing" one (accepted by the test,
  fatal when reloaded) may. `ContainerDies`, `ContainerStops` and `ContainerStart`
  end and start the container: its main process is crowdsec, so the watcher dies with
  it. The volume survives; nwu-start.sh resets the active file to the default.
* **Promise.** `ApplyPromise.tla` is the contract as one sees it from the two ids:
  requests and answers move forward only, nothing unasked is answered, the latest
  request is answered in the end. `KeepsPromise` is the refinement
  (`INSTANCE ApplyPromise WITH asked <- request, answer <- result`), `PromiseSafety`
  its safety half, which is a theorem and has no run of its own.

Left out: the watcher dying alone (nothing in the script can make it exit, and no
supervisor would notice), `refused` requests and links in the volume (files are
always regular), and the wording of messages and of YAML. `catalog` only becomes
true when the container has started once, as `NoCatalogException` demands.

`Timely` is the one timing assumption: the waits of the script suffice, that is
crowdsec has come up when wait_lapi returns and has finished the reload (or the
container has ended) when `sleep 5` is over. With `Timely = FALSE` both may end at
any time, and `pgrep` may or may not find a crowdsec that is still starting (`FindPid`).

### HttpParamSave – saving the http parameter panel

`HttpParamSave.tla` models `saveEnable` and `precheckConf` step by step: the rows
read, each `updateById`, the build, the deletion and writing of the temp directory,
the test, and each row of the roll-back. `table` is the database, `list`, `old` and
`todo` the request's locals, `monitor` and `confLock` the two `synchronized`
objects, `temp` the directory (a main file and a file of conf.d). `Edit` covers
setEnable, addOver and del; `CheckStart`, `CheckBaseBuild` and `CheckDone` with the
shared steps `DelTemp` ... `WriteSub` are the two pages. `InsertOrUpdate` keeps
what `SqlHelper` does with a row that is gone (a new id) and with null columns (not
written). `runs` is FALSE on a host where nginx -t never ends: the save then goes on
after 15 s ("SKIPPED"), the page waits. `Throw` is an exception at any write of a row or a
file (`Throwing`): neither saveEnable nor the writing of the temp directory has a try, so
the request ends there, the monitors are freed and nothing is rolled back. `Stop` is the panel being
stopped. `RollbackExact` is therefore about saves that get as far as the answer of nginx
("refused"). The comment at `HttpController`:243 promises a roll-back when the precheck fails; a save
that cannot write the files to be tested (`ConfService`:641-649), or one of its rows, has none and
leaves the rows as they are by then.

### WafEventSync – copying alerts

`WafEventSync.tla` models `sync` as `Start`, one `FetchPage` per page, `FindGap`
(with the probe of `detectGap`), `StoreHit` per alert, `SetLastAlert`, `Advance`,
and `Fail` at any of them. `Arrive`, `Flush` and `Tick` are CrowdSec and the clock.
`since` and `until` are ages, evaluated by the LAPI when the request arrives, as in
the API. Times are whole seconds, periods small numbers in the same order as the
real ones. `told` is history: hits whose loss is not silent, because they lie in a
recorded gap, are beyond the retention, or are gone in one of the situations in which
no gap is recorded (`Unseen`; the javadoc, lines 21-24, names most of them).

Left out: the branch for a LAPI without credentials (no state changes), `status`
(read only), the error settings (never read by a sync but for logging), a clock
that jumps; the merging of alerts into events is WafEventStore's.

### AsnBan – banning the ranges of an autonomous system

`rows` is the table of intents, `bans` the LAPI's decisions with a tag of the panel,
`req` what each request thread is doing with its locals. `AddIntent`,
`SuggestCandidate` and `Insert` make rows. A push is `PushStart` (the profile is checked
once), `PushPend`, `PushFetch` (the feeds of an AS, any of which may fail), one
`PushBan` per range, and `PushStop` or `PushDone`, which write the whole row
read at the start. `RevokeStart` ... `RevokeDone` revoke one AS with one call of
the LAPI; `RevokeAllStart`, `ListPage`, `Sweep` and `Mark` are the switch to the light
profile, which pages through the decisions by offset, deletes them one by one,
then marks rows it reads only then. Faults: a ban whose answer is lost, refused and failed calls, a
decision that expires, a restart of the panel. `excused` is history: the ASs
whose rows and bans may disagree, because a push, a second revocation, a
failed call or the end of the list came in between.

### ConfPublish – publishing, backups, reload

`live` are the files on disk, each with the number of the request that wrote it;
`running` what nginx loaded; `baks` and `bakSubs` the two tables of backups.
`Clear`, `WriteMain`, `WriteSub`, `InsertBak`, `InsertBakSub` are the steps of
`ConfService.replace`; `Restore` ... `RestoreDone` those of `BakController.replace`;
`DelBak`, `DelAllBaks` delete in two statements; `Reload` may come at
any time. A request may fail at each step. Writing one file and
deleting conf.d are single steps. `expect`, `pure`, `ranPure` and `sentAs` are
history: what the files should be, and whether a second writer touched them.

### ConfPage – the page that publishes

The browser: `left` (what `replace` will send), `right` (what is on disk), edit mode,
and the answers of loadConf, loadOrg, decompose and replace, delivered in any
order or as errors. `CopyByRank` is the copy of the files by position in
`enterEditMode`. The server is ConfPublish with a publish as one step, and loads what is true when
it is asked; only its answer takes time.

The editors of the left side are writable at all times (`conf/index.js`:19 and 152), not
only in edit mode: `Type` changes the main file or another one to text of the admin's own (`Own`). What
is typed outside edit mode is published as it is and stays on the page after publishing, since
loadConf is called only in edit mode (:115). `newest`, `lost` and `typed` are history: what loadConf was
asked for last, whether one of its answers failed or overtook another since none was under way, and
whether the left side was typed over since it was filled. `LeftIsGenerated` says that, but for
these, the left side outside edit mode is exactly what was asked for last. Nothing in the code
prevents overtaking: the page then shows, and would publish, an older state of the database until
it calls loadConf again.

### Challenge – bouncer, challenge and worker

`decisions` are those cached for the prefixes of an address; `Action` is `access` of
nwu_crowdsec.lua with `action_behind_captcha`. `Visit` hands out a token (an ALTCHA
challenge, or a request ticket), `Submit`, `Solved` and their refusals are the
worker with a clock `skew` seconds away and the Turnstile call between its two
checks, `Redeem` is the callback or the verification, with the dict of used
nonces, whose entries expire by themselves. `Restart` empties the dict. Signatures
are taken as unforgeable. `passed`, `twice` and `refused` are history.

### WafEventStore – alerts into events

`store()` statement by statement: `Start` (the hits already known), `LoadEvents`,
`WriteEvent` (insert, or merge in memory), `WriteRule`, `Update` (the merged events,
last; a row that is gone is inserted under a new id), `Return`, with `Stop` anywhere;
`CleanRules` and `CleanEvents` are the nightly cleanup, which takes no lock.
`deleted`, `torn` and `acked` are history.

### MachineToken – the token of the LAPI client

`token` is the cache, `secret` what the LAPI signs with. `Call`, `Unauthorized`,
`Invalidate`, `Resend` and `Fail` are `sendWithJwt` of several threads; `GetToken` is
`token()` with its login under the lock, so one step. Time passes, but no
request outlives its timeout. `before` and `spurious` are history.

### CertApply – applying for certificates

Pages and the renewal task run `apply`: `Test` and `SetFlag` are two steps, as in the
code; `ReadRow` reads the row, `Succeeds` writes it back whole when acme.sh has
ended, `Throws` is the NullPointerException for a deleted certificate, which
leaves `isInApply` set. `Edit`, `Del` and `Ages` happen meanwhile. `edited`, `during`
and `thrown` are history.

### DenyAllowLists – lists of addresses

`Save` is the conflict check of `addOver`, `SaveFetched` and `SaveAsTyped` what follows a
download that works or not; `Refresh`, `Refreshed`, `RefreshFails` the daily job, which
writes back rows it read before all its downloads; `Whitelist` the button of the
CrowdSec page. A form of type "none" is that of the deny/allow page, which sends no
type. `told`, `savedAs` and `lost` are history.

### ServerStore – servers and their locations

`addOver` row by row: `WriteNew` or `WriteOld`, `ReadLocationIds`, `ClearParams`,
`InsertParam`, `ReadOlds`, `DropLocs`, `InsertLoc` (with the description found by
`findLocationDescr`), `SaveDone`; `Del` and `DelLocs`; `Move`, `ChooseTarget` and two times
`UpdateRow` for `setSeq`. A server that another request deleted is inserted again,
without a number, and a list with such a server makes `setSeq` throw or
not, depending on how far it gets (`NoTarget`). `shown`, `named`, `wanted` and `settled` are history:
what the page should show, which descriptions, which order, and the last edit.

The number of a new server is drawn by the controller before its row is inserted (`Save`, then
`WriteNew`), so two creations may be inserted in the other order; `wanted` puts the later
insertion behind the servers numbered after it (`Above`). A location has a `place`, its path and its
type, and `findLocationDescr` compares both: a save that changes the type in the form loses the
description, and `DescrStays` promises nothing then. A form may have one place twice.

Left out: how parameters look. `deleteById` takes several ids and deletes one
after the other; the model has a request for each. The settings of a row are one stamp (`edit`), whatever
column a request sets, so that a save which undoes a switch made since its page was
loaded counts as the latest edit.

### How the small parts are run together

`PanelParts.tla` composes the last eight modules, ConfPublish to ServerStore: each is an
INSTANCE, a step of the panel (`PublishStep` ... `ServerStep`) is a step of one of them, and
`PartsAssumption` is the conjunction of their assumptions. They share no state, so
`MCPanelParts.tla` adds a variable `focus` that picks the part that moves in a behaviour: the
state graph is the sum of those of the parts, not their product.

## 3. What is checked

| Run | Instance | Shows |
|---|---|---|
| `waf_apply` | 2 rules, 2 actions, one configuration refused, one that may kill; clock reads 1 or 3 at will (so it also jumps back); 2 applies, 2 stops; `Timely` | `TypeOK`, `IdOrder`, `OnlyTestedLoaded`, `LastGoodIsLoaded`, `OkNotOlder`, `KeepsPromise`, `KeepsServing` |
| `waf_untested` (violation) | `Timely = FALSE` | "watching anyway" can have crowdsec load an untested configuration |
| `http_param_save` | 2 savers, 1 page tester, editors; a locked row and a disabled row with a refused value; 2 saves, 2 other requests, exceptions or stops | `TypeOK`, `RollbackExact`, `SavedIsAccepted`, `EverySaveAnswered` |
| `precheck_own` (violation) | 1 saver, 1 page tester | the precheck can pass on somebody else's files |
| `writes_enable_only` (violation) | 1 saver, editors | a save undoes an edit or brings back a deleted row |
| `waf_event_sync` | 1 hit, 2 other alerts, pages of 1, 2 pages; clock to 5; two retention periods | `TypeOK`, `NoSilentLoss` |
| `waf_sync_ends` | 1 hit, 1 other alert | `SyncEnds` |
| `waf_fetches_all` (violation) | the same | the window start moves on with the time a request takes |
| `asn_ban` | 2 threads, 2 rows, 2 ASs, 2 ranges; pages of 1 decision, at most 3 pages; 5 requests, 3 bans, 1 fault | `TypeOK`, `RevokedMeansGone`, `ActiveMeansBanned`, `PushIsConcluded` |
| `panel_parts`, publish | 2 threads, 3 requests, or 2 and a fault (`PublishWork`); 2 states of the database, the second with a file less | `PublishTypeOK`, `RunsWhole`, `LiveIsExpected`, `BackupIsWhole` |
| `panel_parts`, page | the same two states; 3 edits, publishes, typed texts or lost answers | `LeftIsGenerated` |
| `panel_parts`, pass | lives 3 and 1, limit 3, clock to 4; skews -1, 0, 2, 3; 2 prefixes, 1 new decision | `TokenPassesOnce`, `NoFalseRefusal`, `FirstDecides` |
| `panel_parts`, store | 3 alerts of 2 requests, 2 stores, 1 cleanup | `OneEvent`, `KnownIsWhole`, `AckedIsStored` |
| `panel_parts`, token | 2 callers, life 3, margin and timeout 1, clock to 5, 3 secrets | `NoFalseAlarm`, `NoneExpires` |
| `panel_parts`, cert | 2 certificates, 1 page and the task, 2 edits, 3 renewals | `EditSurvives`, `FlagHasOwner` |
| `panel_parts`, lists | 2 lists, one with a source; 2 addresses, 3 saves, 1 refresh | `SavedStays`, `NotEmptied` |
| `panel_parts`, servers | 3 servers, the first with a location, the last perhaps without a number; two forms, one with its path under two types; 2 threads, 2 requests, 1 fault | `SavedIsShown`, `DescrStays`, `OrderIsWanted`, `EditsStay` |
| `conf_edit` (violation) | as page | edit mode shows files under the names of others |
| `deny_allow_conflict` (violation) | 2 lists without a source | an address gets onto lists of both types and nobody is told |

**Bounds.** Two applies are enough for a newer request to overtake an older one at
each step of the watcher, two stops for a crash during the recovery from a crash;
deaths caused by crowdsec itself are not bounded. Three applies with two stops have
been checked once (2.9 million states). Two saves compete for the monitor, and two
other requests are enough for a row to be deleted and edited, or edited and tested,
during one save; exceptions and stops are counted with them (`Stops` is off in the two violation
runs, which do not need it). Three alerts with pages of one are enough for a truncated window, a full
page of one second, and the pattern the probe exists for: an alert seen, a hit lost
behind it, a newer alert found. Two alerts of WAF kind and one other (11 million
states) have been checked once.
`Slack` bounds how long a sync takes and must not exceed `Overlap` (the proof needs no more than this
and `Timing`'s other, weak conditions): with
`Slack = 2` and `Overlap = 1` TLC finds a hit lost in silence. The code allows
120 pages of 15 s each against an overlap of 5 minutes; this is the most useful
thing the finding `waf_fetches_all` says.
`Slack = 2` with `Overlap = 2` and `MaxAge = 4` shows one more blind spot of `detectGap` than its
javadoc names: a sync that runs across CrowdSec's age limit after an outage almost as long finds
its window empty, and an empty window records no gap. `Unseen` excuses it.

In AsnBan three bans and pages of one make a revocation need three pages, so that
deletions shift them; five requests are enough for two intents, their
pushes and a revocation. Two concurrent publishes, a publish and a
restore, or either and a deletion, with a third request to see what they
left, is what ConfPublish allows; a fault lets one of two stop at each step (three requests
with one have been checked once, 1.2 million states). The
tokens of Challenge expire within the clock's bound, and the skews are one on each
side of both limits. In WafEventStore the alerts are two of one request, the
later one first, and one of another, so that both
stores merge, and the cutoff of the cleanup lies between the two requests or after both.
MachineToken has time for a token to be renewed and to expire, and two
changes of the secret, the least that a true `NoFalseAlarm` case needs. In CertApply the
task renews one certificate while the other is edited, deleted or renewed
from the page. Two moves of neighbours that overlap, and a move with an edit, a save
or a deletion, are the cases of ServerStore; runs with three and four requests have been
checked once. The one with four refuted an earlier `DescrStays`: two overlapping saves can leave
a place twice in a server, and a description given to the older of the two locations is lost by the
next save. `named` therefore only holds descriptions of locations that are alone in their place
(`Alone`), and with this `DescrStays` is proved for any number of requests.

`CHECK_DEADLOCK FALSE` is set everywhere since every model comes to rest when its bounds
are used up.

**Fairness.** The watcher is one sequential script in an endless loop, hence
`WF(Watcher)`. Crowdsec starts, acts on a signal, and its container restarts
(`restart: unless-stopped`, `docker/docker-compose.yml`:82), hence WF on each. The panel has no
fairness: a request may stop at any step. In HttpParamSave a thread inside a
request runs on (WF), and a thread that waits for a monitor which is free again
and again gets it (SF on `Save` and `Check`; Java does not promise this, but the
bounded number of requests here makes weaker schedules indistinguishable from it);
no fairness makes `nginx -t` end. In WafEventSync the steps of a sync go on
(`WF(Sync)`): every LAPI call ends by its timeout, as an answer or as `Fail`.
The other modules have safety properties only and no fairness.

With `Timely = FALSE` there is no run for `IdOrder`, `OkNotOlder` and
`PromiseSafety`: they are theorems there.

Every property has a mutant in `PROJECT.json`: an operator next to the original
that changes the model as a plausible bug would, under which TLC must refute it.

## 4. What is proved

`WafApplyProofs.tla` proves, for every choice of the constants that meets
`ConfigAssumption` and `BoundAssumption` (any rules and actions, any bounds):

* `TypeCorrect` – `TypeOK`. The inductive invariant `TypeInv` adds what a step
  needs of the step before: which locals are set at which position of either program.
* `IdOrderCorrect` – `IdOrder`. It is not inductive by itself: it needs that the id
  under way (`wid`) is not older than the last result and not newer than the request,
  and that the id apply() is about to write exceeds the request (`IdInv`).
* `OkNotOlderCorrect` – `OkNotOlder`, an action property. `AgeInv` says that custom.yaml
  is at least as new as the request file claims at every moment (custom is
  renamed first), and follows the copy through the watcher: snapshot, active
  file, last-good.yaml.
* `PromiseSafetyCorrect` – WafApply implements the safety half of ApplyPromise:
  every step is an `Ask`, an `Answer` or a stutter.
* `OnlyTestedLoadedCorrect` and `LastGoodIsLoadedCorrect`, both under `Timely`
  (the run `waf_untested` shows the former false without it). `TestedInv` says where
  an untested file can be: only in `active` between `Install` and `TestConfig`, while no
  reload is pending and crowdsec is not starting. `LastGoodInv` relates loaded,
  active and last-good.yaml at every position of the watcher.

The smaller parts have proofs of their own. Each theorem assumes what its module asks of
the constants (the `...Assumption` of the module), and nothing about the bounds.

* `HttpParamSaveProofs.tla`: `TypeCorrect`, `SavedIsAcceptedCorrect`, `RollbackExactCorrect`.
  `Inside` ties the position of a save to the two monitors, so that at most one save is under way.
  `BuiltInv` says that what is being tested is what the save built and that this is the build of the
  rows in the table; `RowsInv` says which rows are still those the save read and which it has
  written, both up to the requests (`edited`) and pages (`trampled`) noted meanwhile. The proof
  needs one assumption TLC did not ask for: `Values` is not empty, since `setEnable` of a deleted
  row inserts a default. An exception or a stop ends a save in any position (`ThrowStep`,
  `StopStep`); the invariants survive it since they speak only of saves that are under way.
* `AsnBanProofs.tla`: `TypeCorrect`, `PushIsConcludedCorrect`. `PendingInv`: a row left pending by a
  push has a request that will still conclude it, which is pushing the row, or revoking its AS and
  has not yet come to the row (`WillConclude`). `LocalsInv` says what a request holds at each of
  its steps; a push, one row.
  `RevokedMeansGoneCorrect`, `ActiveMeansBannedCorrect` from `BanInv`, which says of each AS that is not
  excused (`Sound`): nobody pushes it while it is revoked, one request revokes it, and nobody else
  revokes anything while decisions are listed (`Alone`); what a revocation has not deleted is on a
  page to come or in its list, and what it has not marked is in `todo` (`Cleans`); what a push has
  posted is banned (`Feeds`); and while nobody revokes it, its rows and bans agree (`Settled`). That a
  page which is not full is the last one (`ShortPage`) rests on `Positions`: in a
  finite set numbered by ids, every position up to its size is taken. TLC checked `BanInv` as an
  invariant of `asn_ban` before it was proved.
* `WafEventSyncProofs.tla`: `TypeCorrect`, and `NoSilentLossCorrect` under `Timing`: a sync takes no
  longer than the overlap and the shortest retention, and CrowdSec keeps alerts for longer than
  `GapCheckAfter + Slack`. `PagesInv`: while pages are fetched, a hit that is neither found nor safe
  (in the database or told of) is older than all that was found, and the next request reaches it.
  `MissedInv`: after the last page such a hit is gone, or the fetch was truncated. `FlushInv`
  says that what is gone is older than what is kept, hence that the probe tells a hole
  from a quiet time; `WindowInv`, that the window begins early enough even for a request that is
  `Slack` late. With these, each branch of `detectGap` covers what it must.
* `ConfPublishProofs.tla`: `TypeCorrect`, `RunsWholeCorrect`, `LiveIsExpectedCorrect`,
  `BackupIsWholeCorrect`, from nine invariants that need each other. `AloneInv`: a writer that is
  alone is the only one, and the files are what it has written so far, all under its number.
  `PureInv` and `ExpectInv` then hold of the files whenever they are `pure` or expected, in the middle of
  a publish too. `BackupsInv`: what is recorded of a backup is what was sent, but for the parts its
  thread has `left`; `RestoreInv`: what a restore has read is what was sent. `IdsInv` keeps them
  apart: no two requests have the same number, and no backup has that of a later one.
* `WafEventStoreProofs.tla`: `OneEventCorrect`, `KnownIsWholeCorrect`, `AckedIsStoredCorrect`.
  `MemoryInv`: an event in memory is the one stored, but for the rules merged into it meanwhile,
  unless the cleanup deleted it. `FreshInv`: a hit yet to be written has no row, and its event is in
  memory if there is one. `HitInv`: the hit being written has rows for the rules not in `todo`.
  `RowsInv` ties the rows of a hit to an event that has its rules, or will have them once the merged
  events are updated (`MergedInto`); `BatchInv` says which hits of the batch are stored.
* `ServerStoreProofs.tla`: `EditsStayCorrect`, `DescrStaysCorrect`, `SavedIsShownCorrect`,
  `OrderIsWantedCorrect`. `HeldInv`: a row that a move will
  write has the settings of the last edit, unless there was an edit since the move read it. `AloneInv`:
  nothing else works on the server of a save that is alone. `NamedInv` and `SaveInv` follow a description
  through a save: on the location, then in `olds`, then on the location inserted again.
  `PageInv` (`SavedIsShown`): a save that is alone has inserted the last so many parameters and
  locations of its form (`Done`), each with a larger id than those before, and no other
  request inserts or deletes rows of its server (`JobOk`); so every known page has what it shows
  (`ShownInv`). `OrderInv` (`OrderIsWanted`): the list wanted is that of the numbers (`ListInv`),
  and a move that is alone holds rows which, once written, give the list with the two
  exchanged (`Prepared`); `NextAbove` and `NextBelow` say that what setSeq finds is the
  neighbour. `NumberInv`: a number that is drawn and not yet written is nobody else's, in a row or
  in the hands of another request, so that inserting its server behind the `Above` ones gives
  the list of the new numbers (`ListsMore`). Both speak of lists in descending order. That there is only one (`DescendingIs`)
  would be an induction over its length; it is proved without one: the place of an element is
  the number of elements that are at least as large (`Rank`), and a list without two alike
  reaches them all because it has as many places as there are elements.
* `PanelPartsProofs.tla` has the proofs of the smaller parts and the theorems about PanelParts: under
  `PartsAssumption`, all 21 properties of `panel_parts` hold of its `Spec`. `PartsStep`
  says that a step of the panel is a step of each part or leaves it as it is; the theorems
  of the three modules above carry over through it, and the invariants of
  the others are proved here:
  * token: `NoneExpiresCorrect`, `NoFalseAlarmCorrect`. `FlightInv`:
    a request on its way carries a token that outlives its timeout. It needs
    `Timeout <= RenewBefore` for a cached token and `Timeout < Lifetime` for a new one.
    `RenewedInv`: once a call has dropped the token, whatever is cached later, by
    whomever, was made with the secret of that moment or a newer one.
  * challenge: `TokenPassesOnceCorrect` from `UsedIsKnown` (the nonce of a token
    that passed is in the dict for `DictSlack > 0` seconds longer than the
    token lives), `NoFalseRefusalCorrect` from `LifeBounded` and `KnownIsUsed`, and
    `FirstDecidesCorrect`, for any number of prefixes, from the existence of a least index.
  * certificates: `EditSurvivesCorrect` from `HeldIsCurrent` (the row a call will write back
    is what the last edit left, unless that edit found it held), `FlagHasOwnerCorrect`.
  * lists: `SavedStaysCorrect`, `NotEmptiedCorrect`, with `WrittenKeeps` about the
    write both ways of saving share.
  * page: `LeftIsGeneratedCorrect` from `PageInv`: unless `lost`, the last answer of loadConf under way
    is what was asked for last (`LastIs`), with lemmas on what taking an answer out of a
    sequence (`Removed`, `LastStays`) and queueing others behind it (`Queued`, `Asked`) keep.

Only model-checked: the liveness properties (`KeepsPromise`, `KeepsServing`,
`EverySaveAnswered`, `SyncEnds`), since liveness under fairness is beyond the
prover. Every safety property and action property of a passing run is a theorem.

## 5. Findings

Each is a run that TLC refutes; `PROJECT.json` quotes the line it contradicts.

1. `waf_untested`: after 120 s without LAPI the watcher installs a configuration before
   testing it while crowdsec is still about to read the active file.
2. `precheck_own`: the temp directory is shared with pages that take no lock.
3. `writes_enable_only`: saving enable flags writes back whole rows.
4. `waf_fetches_all`: the start of the window is an age computed once.
5. `conf_edit`: edit mode copies files by position (`conf/index.js`:513), and the right side lists only
   the names the database would generate, so a file on disk that is no longer
   generated is not shown, and contents can land under other names.
6. `deny_allow_conflict`: the conflict check (`DenyAllowController`:70) compares nothing when
   the form has no type, and comes before the download.

## 6. Not modelled, and the plan

Not modelled, and why:

* Remote packs (`ConfService.setAsycPack`, 1873 and after): every table is deleted and filled again,
  so that between two statements a table is empty; a model would say little
  more than that. It is the next component to model, against ServerStore.
* Upstreams, streams, parameters and templates are saved and moved by code of the shape
  of ServerStore's.
* Text algorithms (parsing of nginx files, formatting, block codec): no state.
* Login, settings, start-up, frontend and monitors: `PROJECT.json` has the reasons.

Smaller hazards, not in the hazard list:

* Event sync: the wall clock is read before the flag is won (`WafEventSyncService`:98), and
  a second gap overwrites the first one (:198).
* Watcher: a stop within five seconds of the start-up reload leaves its mark
  (`nwu-waf-watch.sh`:150); a slow reload is reported as ok (:122; the theorems that do
  not assume `Timely` hold all the same).
* Settings: find, then insert (`SettingService`:17); nulls never clear an old column of AS
  metadata (`AsnMetaService`:79); a setEnable of a deleted parameter inserts it
  (`HttpController`:237).
* Pages: one `remoteCode` for all remote logins (`LoginController`:231), a whitelisting of
  which one half fails (`CrowdSecWhitelistService`:69), `nginx -t` failing without a message
  (`ConfController`:246), the status of "the current request" (`WafTuningService`:459), two
  reloads on two locks (`NginxApiController`:78).
* The response ticket of the worker has the nonce of the request ticket
  (`tickets.js`:67), so that a request ticket gives one pass while the dict of nginx keeps the entry
  of a response that passed, and no longer.

## 7. Running

    tlc -config MCWafApply.cfg MCWafApply
    tlc -config MCAsnBan.cfg MCAsnBan
    tlc -config MCPanelParts.cfg MCPanelParts
    tlapm WafApplyProofs.tla

and in the same way for the other configurations and proof modules; the runs of
`PROJECT.json` name the module of each configuration. `panel_parts` is the longest run
(0.8 million states, about two minutes with two workers).
