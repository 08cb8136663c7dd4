----------------------------- MODULE PanelParts -----------------------------
(***************************************************************************)
(* The small parts of the panel side by side.  They share no variables: a  *)
(* step of the whole is a step of one part.                                *)
(***************************************************************************)
EXTENDS Integers

CONSTANTS
    Workers,                            \* request threads of the panel
    Names, Pos, Versions, SubsOf,       \* configurations
    PublishRequests, PublishFaults, PageWork,
    Nonces, RequestTtl, ResponseTtl, MaxAhead, DictSlack, PassTtl, Prefixes,
    Skews, PassTime, PassChanges,       \* the challenge
    Alerts, KeyOf, TimeOf, RulesOf, Cutoffs, MaxStores, MaxCleanups,
    Clients, Lifetime, RenewBefore, Timeout, TokenTime, MaxSecrets, NoToken,
    Certs, Pages, Task, NoCert, NoRow, MaxEdits, MaxRenewals,
    IpLists, Sourced, Ips, Admins, NoList, NoForm, MaxSaves, MaxRefreshes,
    NServers, FirstPlace, FirstParam, ServerForms, Descrs, NoDescr,
    ServerRequests, ServerFaults        \* servers and locations

VARIABLES
    live, running, baks, bakSubs, req, requests, faults, expect, pure,
    ranPure, sentAs,
    db, disk, left, right, edit, sending, answers, work, actual,
    newest, lost, typed,
    mode, skew, clock, decisions, tokens, checking, dict, cookie, passed,
    twice, refused, changes,
    events, rules, nextId, store, batch, fresh, byKey, dirty, hit, todo,
    cleanup, deleted, torn, acked, stores, cleanups,
    time, secret, token, step, using, before, spurious,
    lists, saving, due, told, savedAs, lostLists, saves, refreshes,
    rows, isInApply, listed, at, cert, row, edited, during, thrown, edits,
    renewals,
    servers, locs, params, newId, jobs, asked, breaks, shown, named, wanted,
    settled

Publish == INSTANCE ConfPublishProofs WITH
    MaxRequests <- PublishRequests, MaxFaults <- PublishFaults
Page == INSTANCE ConfPage WITH MaxWork <- PageWork
Pass == INSTANCE Challenge WITH MaxTime <- PassTime, MaxChanges <- PassChanges
Store == INSTANCE WafEventStoreProofs
Token == INSTANCE MachineToken WITH
    clock <- time, Callers <- Clients, MaxTime <- TokenTime
Cert == INSTANCE CertApply WITH step <- at
Lists == INSTANCE DenyAllowLists WITH Lists <- IpLists, lost <- lostLists
Servers == INSTANCE ServerStoreProofs WITH
    nextId <- newId, requests <- asked, faults <- breaks,
    Forms <- ServerForms, MaxRequests <- ServerRequests,
    MaxFaults <- ServerFaults

ASSUME PartsAssumption ==
    /\ Publish!PublishAssumption /\ Page!PageAssumption
    /\ Pass!ChallengeAssumption /\ Store!StoreAssumption
    /\ Token!TokenAssumption /\ Cert!CertAssumption
    /\ Lists!ListsAssumption /\ Servers!ServerAssumption

publishVars == <<live, running, baks, bakSubs, req, requests, faults, expect,
                 pure, ranPure, sentAs>>
pageVars == <<db, disk, left, right, edit, sending, answers, work, actual,
              newest, lost, typed>>
passVars == <<mode, skew, clock, decisions, tokens, checking, dict, cookie,
              passed, twice, refused, changes>>
storeVars == <<events, rules, nextId, store, batch, fresh, byKey, dirty, hit,
               todo, cleanup, deleted, torn, acked, stores, cleanups>>
tokenVars == <<time, secret, token, step, using, before, spurious>>
certVars == <<rows, isInApply, listed, at, cert, row, edited, during, thrown,
              edits, renewals>>
listVars == <<lists, saving, due, told, savedAs, lostLists, saves, refreshes>>
serverVars == <<servers, locs, params, newId, jobs, asked, breaks, shown,
                named, wanted, settled>>
partsVars == <<publishVars, pageVars, passVars, storeVars, tokenVars, certVars,
               listVars, serverVars>>

Init ==
    /\ Publish!Init /\ Page!Init /\ Pass!Init /\ Store!Init /\ Token!Init
    /\ Cert!Init /\ Lists!Init /\ Servers!Init

\* The steps of each part, in which the others stay as they are.
PublishStep ==
    /\ Publish!Next
    /\ UNCHANGED <<pageVars, passVars, storeVars, tokenVars, certVars, listVars,
                   serverVars>>
PageStep ==
    /\ Page!Next
    /\ UNCHANGED <<publishVars, passVars, storeVars, tokenVars, certVars,
                   listVars, serverVars>>
PassStep ==
    /\ Pass!Next
    /\ UNCHANGED <<publishVars, pageVars, storeVars, tokenVars, certVars,
                   listVars, serverVars>>
StoreStep ==
    /\ Store!Next
    /\ UNCHANGED <<publishVars, pageVars, passVars, tokenVars, certVars,
                   listVars, serverVars>>
TokenStep ==
    /\ Token!Next
    /\ UNCHANGED <<publishVars, pageVars, passVars, storeVars, certVars,
                   listVars, serverVars>>
CertStep ==
    /\ Cert!Next
    /\ UNCHANGED <<publishVars, pageVars, passVars, storeVars, tokenVars,
                   listVars, serverVars>>
ListStep ==
    /\ Lists!Next
    /\ UNCHANGED <<publishVars, pageVars, passVars, storeVars, tokenVars,
                   certVars, serverVars>>
ServerStep ==
    /\ Servers!Next
    /\ UNCHANGED <<publishVars, pageVars, passVars, storeVars, tokenVars,
                   certVars, listVars>>

Next ==
    \/ PublishStep \/ PageStep \/ PassStep \/ StoreStep \/ TokenStep
    \/ CertStep \/ ListStep \/ ServerStep

Spec == Init /\ [][Next]_partsVars

-----------------------------------------------------------------------------
(* Properties: those of the parts.                                         *)

\* The types of publishing.  (ConfService.replace, BakController.replace)
PublishTypeOK == Publish!TypeOK
\* nginx runs what one request wrote.  (ConfService.replace, reload)
RunsWhole == Publish!RunsWhole
\* The files are those of the last publish or restore.  (ConfService.replace)
LiveIsExpected == Publish!LiveIsExpected
\* A recorded backup is complete.  (ConfService.replace, BakService)
BackupIsWhole == Publish!BackupIsWhole
\* Outside edit mode the left side of the publish page is what loadConf was
\* asked for last, as long as it is not typed over.  (conf/index.js)
LeftIsGenerated == Page!LeftIsGenerated
\* A ticket gives a pass once.  (nwu_challenge.lua)
TokenPassesOnce == Pass!TokenPassesOnce
\* A ticket in time is not refused.  (nwu_challenge.lua, tickets.js)
NoFalseRefusal == Pass!NoFalseRefusal
\* The most specific decision that is not a captcha decides.
\* (nwu_crowdsec.lua)
FirstDecides == Pass!FirstDecides
\* A request is one event.  (WafEventService.store)
OneEvent == Store!OneEvent
\* A known hit is known completely.  (WafEventService.store and cleanup)
KnownIsWhole == Store!KnownIsWhole
\* What a store returned for is stored.  (WafEventService.store)
AckedIsStored == Store!AckedIsStored
\* Credentials are not called wrong because of other callers.  (sendWithJwt)
NoFalseAlarm == Token!NoFalseAlarm
\* No token expires on its way.  (CrowdSecClient.token)
NoneExpires == Token!NoneExpires
\* Only what is edited while acme.sh runs for it is undone.
\* (CertController.apply)
EditSurvives == Cert!EditSurvives
\* isInApply does not stay set, but for exceptions.  (CertController.apply)
FlagHasOwner == Cert!FlagHasOwner
\* What an admin saved stays, unless a refresh read it earlier.
\* (ScheduleTask.fetchDenyAllowLists)
SavedStays == Lists!SavedStays
\* No source empties a list.  (DenyAllowService.fetchAndUpdate)
NotEmptied == Lists!NotEmptied
\* The page of a server shows what was saved.  (ServerService.addOver)
SavedIsShown == Servers!SavedIsShown
\* Descriptions of locations survive a save.  (findLocationDescr)
DescrStays == Servers!DescrStays
\* A move exchanges neighbours.  (ServerService.setSeq)
OrderIsWanted == Servers!OrderIsWanted
\* Only a move that read the row before undoes an edit of a server.
\* (ServerService.setSeq)
EditsStay == Servers!EditsStay
=============================================================================
