---------------------------- MODULE ConfPublish ----------------------------
(***************************************************************************)
(* Publishing the configuration: ConfService.replace writes nginx.conf and *)
(* the files of conf.d one by one and records a backup, BakController      *)
(* restores one, and nginx reloads what it finds.  Nothing is locked.      *)
(*                                                                         *)
(* A configuration is the version of its main file and the contents of its *)
(* other files, each content naming the version and file it was made for.  *)
(***************************************************************************)
EXTENDS Integers, FiniteSets

CONSTANTS
    Workers,        \* request threads of the panel
    Names, Pos,     \* files of conf.d, and their order in a file list
    Versions, SubsOf,   \* states of the database, and the files each includes
    MaxRequests, MaxFaults      \* bounds

\* What the constants must satisfy; the modules that instantiate this one
\* assume it.
PublishAssumption ==
    /\ IsFiniteSet(Names) /\ Pos \in [Names -> Nat]
    /\ \A m, n \in Names : Pos[m] = Pos[n] => m = n
    /\ 0 \notin Versions /\ Versions \subseteq Nat
    /\ SubsOf \in [Versions -> SUBSET Names]
    \* allowlist_http.conf is always among them
    /\ \A v \in Versions : SubsOf[v] # {}
    /\ {MaxRequests, MaxFaults} \subseteq Nat

VARIABLES
    live,           \* files on disk, each with the request that wrote it
    running,        \* the files nginx loaded
    baks, bakSubs,  \* tables Bak and BakSub
    req,            \* what each thread is doing, with its locals
    requests, faults,   \* counters of the bounds
    expect,         \* history: what the files should be when nobody writes
    pure,           \* history: no restore or second writer touched the files
    ranPure,        \* history: they were so when nginx loaded them
    sentAs          \* history: what the publish of each backup sent

disk == <<live, expect, pure>>
nginx == <<running, ranPure>>
tables == <<baks, bakSubs, sentAs>>
counters == <<requests, faults>>
vars == <<disk, nginx, tables, req, counters>>

Empty == <<>>               \* a file without content
Contents == {Empty} \cup (Versions \X Names)
IsSubs(subs) == DOMAIN subs \subseteq Names
                /\ \A n \in DOMAIN subs : subs[n] \in Contents
\* 0 is the version of an empty main file.
IsConf(c) == /\ DOMAIN c = {"main", "subs"}
             /\ c.main \in Versions \cup {0} /\ IsSubs(c.subs)
NoConf == [main |-> 0, subs |-> <<>>]

\* buildConf.
Generated(v) == [main |-> v, subs |-> [n \in SubsOf[v] |-> <<v, n>>]]

File(c, by) == [c |-> c, by |-> by]
Contained(files) ==
    [main |-> files.main.c,
     subs |-> [n \in DOMAIN files.subs |-> files.subs[n].c]]
Written(conf, by) ==
    [main |-> File(conf.main, by),
     subs |-> [n \in DOMAIN conf.subs |-> File(conf.subs[n], by)]]
Put(f, n, x) == [m \in DOMAIN f \cup {n} |-> IF m = n THEN x ELSE f[m]]

Idle == [pc |-> "idle", conf |-> NoConf, left |-> {}, id |-> 0, bak |-> 0,
         alone |-> FALSE]

Init ==
    /\ \E v \in Versions :
          live = Written(Generated(v), 0) /\ expect = Generated(v)
    /\ running = live
    /\ baks = <<>> /\ bakSubs = {} /\ sentAs = <<>>
    /\ req = [t \in Workers |-> Idle]
    /\ requests = 0 /\ faults = 0
    /\ pure = TRUE /\ ranPure = TRUE

Count == requests < MaxRequests /\ requests' = requests + 1
Begin(t, r) ==
    /\ req[t] = Idle /\ Count
    /\ req' = [req EXCEPT ![t] = [r EXCEPT !.id = requests + 1]]
    /\ UNCHANGED faults
Goto(t, r) == req' = [req EXCEPT ![t] = r]

Writers == {t \in Workers : req[t].pc \in
              {"main", "subs", "bak", "restoreClear", "restoreParts",
               "restoreSubs"}}
Alone(t) == Writers \ {t} = {}
\* The first write of a request: from here on the others are not alone.
StartsWriting(t, r) ==
    /\ req' = [u \in Workers |->
                 IF u = t THEN [r EXCEPT !.alone = Alone(t)]
                 ELSE [req[u] EXCEPT !.alone = FALSE]]
    /\ expect' = NoConf

-----------------------------------------------------------------------------
(* ConfController.replace and ConfService.replace.                         *)

\* What may be sent: by the API and the remote page a configuration of the
\* database (getReplaceJson), by the page also one it showed earlier, or in
\* edit mode a main file of one version with the file list of another.
Sent(v, w) ==
    [main |-> v, subs |-> [n \in SubsOf[w] |-> IF n \in SubsOf[v] THEN <<v, n>>
                                                ELSE Empty]]

Replace(t, v, w) ==
    /\ Begin(t, [Idle EXCEPT !.pc = "clear", !.conf = Sent(v, w)])
    /\ UNCHANGED <<disk, nginx, tables>>

\* Mutant: the files of conf.d are not deleted.
KeptSubs(subs) == subs
ClearedSubs(subs) == <<>>

Clear(t) ==
    /\ req[t].pc = "clear"
    /\ live' = [live EXCEPT !.subs = ClearedSubs(@)]
    /\ StartsWriting(t, [req[t] EXCEPT !.pc = "main"])
    /\ pure' = Alone(t)
    /\ UNCHANGED <<nginx, tables, counters>>

WriteMain(t) ==
    /\ req[t].pc = "main"
    /\ live' = [live EXCEPT !.main = File(req[t].conf.main, req[t].id)]
    /\ Goto(t, [req[t] EXCEPT !.pc = "subs",
                              !.left = DOMAIN req[t].conf.subs])
    /\ UNCHANGED <<expect, pure, nginx, tables, counters>>

First(names) == CHOOSE n \in names : \A m \in names : Pos[n] <= Pos[m]

WriteSub(t) ==
    /\ req[t].pc \in {"subs", "restoreSubs"} /\ req[t].left # {}
    /\ LET n == First(req[t].left)
       IN  /\ live' = [live EXCEPT !.subs =
                         Put(@, n, File(req[t].conf.subs[n], req[t].id))]
           /\ Goto(t, [req[t] EXCEPT !.left = @ \ {n}])
    /\ UNCHANGED <<expect, pure, nginx, tables, counters>>

\* The backup row; its id is new.
InsertBak(t) ==
    /\ req[t].pc = "subs" /\ req[t].left = {}
    /\ baks' = Put(baks, req[t].id, req[t].conf.main)
    /\ sentAs' = Put(sentAs, req[t].id, req[t].conf)
    /\ Goto(t, [req[t] EXCEPT !.pc = "bak", !.left = DOMAIN req[t].conf.subs])
    /\ expect' = IF req[t].alone THEN req[t].conf ELSE NoConf
    /\ UNCHANGED <<live, pure, nginx, bakSubs, counters>>

\* Mutants: the id is read before the row has one; the content is left out.
BakSubUnbound(t, n) == [bak |-> 0, name |-> n, c |-> req[t].conf.subs[n]]
BakSubEmpty(t, n) == [bak |-> req[t].id, name |-> n, c |-> Empty]
BakSub(t, n) == [bak |-> req[t].id, name |-> n, c |-> req[t].conf.subs[n]]

InsertBakSub(t) ==
    /\ req[t].pc = "bak" /\ req[t].left # {}
    /\ LET n == First(req[t].left)
       IN  /\ bakSubs' = bakSubs \cup {BakSub(t, n)}
           /\ Goto(t, [req[t] EXCEPT !.left = @ \ {n}])
    /\ UNCHANGED <<disk, nginx, baks, sentAs, counters>>

ReplaceDone(t) ==
    /\ req[t].pc = "bak" /\ req[t].left = {}
    /\ Goto(t, Idle)
    /\ UNCHANGED <<disk, nginx, tables, counters>>

\* An exception while the request runs: the page is told, and what is done
\* stays done.
ReplaceFails(t) ==
    /\ req[t].pc \in {"clear", "main", "subs", "bak"}
    /\ faults < MaxFaults /\ faults' = faults + 1
    /\ Goto(t, Idle)
    /\ sentAs' = IF req[t].pc = "bak"
                 THEN Put(sentAs, req[t].id, NoConf) ELSE sentAs
    /\ UNCHANGED <<disk, nginx, baks, bakSubs, requests>>

-----------------------------------------------------------------------------
(* BakController.                                                          *)

Parts(b) == {p \in bakSubs : p.bak = b}

\* The row is read, then the main file is written, conf.d deleted, and only
\* then the parts are read.
Restore(t, b) ==
    /\ b \in DOMAIN baks
    /\ Begin(t, [Idle EXCEPT !.pc = "restoreMain", !.bak = b,
                             !.conf = [NoConf EXCEPT !.main = baks[b]]])
    /\ UNCHANGED <<disk, nginx, tables>>

RestoreMain(t) ==
    /\ req[t].pc = "restoreMain"
    /\ live' = [live EXCEPT !.main = File(req[t].conf.main, req[t].id)]
    /\ StartsWriting(t, [req[t] EXCEPT !.pc = "restoreClear"])
    /\ pure' = FALSE
    /\ UNCHANGED <<nginx, tables, counters>>

RestoreClear(t) ==
    /\ req[t].pc = "restoreClear"
    /\ live' = [live EXCEPT !.subs = ClearedSubs(@)]
    /\ Goto(t, [req[t] EXCEPT !.pc = "restoreParts"])
    /\ UNCHANGED <<expect, pure, nginx, tables, counters>>

RestoreParts(t) ==
    /\ req[t].pc = "restoreParts"
    /\ LET parts == Parts(req[t].bak)
           names == {p.name : p \in parts}
       IN  Goto(t, [req[t] EXCEPT !.pc = "restoreSubs", !.left = names,
                      !.conf.subs = [n \in names |->
                        (CHOOSE p \in parts : p.name = n).c]])
    /\ UNCHANGED <<disk, nginx, tables, counters>>

\* A restore that nothing disturbed should bring back what was published.
RestoreDone(t) ==
    /\ req[t].pc = "restoreSubs" /\ req[t].left = {}
    /\ Goto(t, Idle)
    /\ pure' = req[t].alone
    /\ expect' = IF req[t].alone THEN sentAs[req[t].bak] ELSE NoConf
    /\ UNCHANGED <<live, nginx, tables, counters>>

RestoreFails(t) ==
    /\ req[t].pc \in {"restoreMain", "restoreClear", "restoreParts",
                     "restoreSubs"}
    /\ faults < MaxFaults /\ faults' = faults + 1
    /\ Goto(t, Idle)
    /\ UNCHANGED <<disk, nginx, tables, requests>>

\* What is under way with a backup that is deleted cannot be relied on.
Doubt(bs) == sentAs' = [b \in DOMAIN sentAs |->
                          IF b \in bs THEN NoConf ELSE sentAs[b]]

\* del and delAll: the rows, then their parts in a second statement.
DelBak(t, b) ==
    /\ b \in DOMAIN baks
    /\ Begin(t, [Idle EXCEPT !.pc = "delSubs", !.bak = b])
    /\ baks' = [i \in DOMAIN baks \ {b} |-> baks[i]]
    /\ Doubt({b})
    /\ UNCHANGED <<disk, nginx, bakSubs>>

DelAllBaks(t) ==
    /\ baks # <<>>
    /\ Begin(t, [Idle EXCEPT !.pc = "delAllSubs"])
    /\ baks' = <<>> /\ Doubt(DOMAIN sentAs)
    /\ UNCHANGED <<disk, nginx, bakSubs>>

\* Mutant: the parts of all backups.
DeletedPartsAll(t) == bakSubs
DeletedParts(t) ==
    IF req[t].pc = "delSubs" THEN Parts(req[t].bak) ELSE bakSubs

DelBakSubs(t) ==
    /\ req[t].pc \in {"delSubs", "delAllSubs"}
    /\ bakSubs' = bakSubs \ DeletedParts(t)
    /\ IF req[t].pc = "delSubs" THEN UNCHANGED sentAs
       ELSE Doubt(DOMAIN sentAs)
    /\ Goto(t, Idle)
    /\ UNCHANGED <<disk, nginx, baks, counters>>

-----------------------------------------------------------------------------
(* nginx -s reload, from the page, the API or a renewed certificate.  nginx *)
(* keeps what it runs when an included file is missing.                    *)

Loadable == /\ live.main.c # 0
            /\ SubsOf[live.main.c] \subseteq DOMAIN live.subs

Reload ==
    /\ Loadable
    /\ running' = [live EXCEPT !.subs =
                     [n \in SubsOf[live.main.c] |-> live.subs[n]]]
    /\ ranPure' = pure
    /\ UNCHANGED <<disk, tables, req, counters>>

-----------------------------------------------------------------------------
Publish(t) ==
    \/ \E v, w \in Versions : Replace(t, v, w)
    \/ Clear(t) \/ WriteMain(t)
    \/ WriteSub(t) \/ InsertBak(t) \/ InsertBakSub(t) \/ ReplaceDone(t)
    \/ ReplaceFails(t)
Backups(t) ==
    \/ \E b \in DOMAIN baks : Restore(t, b) \/ DelBak(t, b)
    \/ RestoreMain(t) \/ RestoreClear(t) \/ RestoreParts(t)
    \/ RestoreDone(t) \/ RestoreFails(t)
    \/ DelAllBaks(t) \/ DelBakSubs(t)
Next == (\E t \in Workers : Publish(t) \/ Backups(t)) \/ Reload

Spec == Init /\ [][Next]_vars

-----------------------------------------------------------------------------
(* Properties.                                                             *)

Pcs == {"idle", "clear", "main", "subs", "bak", "restoreMain",
        "restoreClear", "restoreParts", "restoreSubs", "delSubs",
        "delAllSubs"}
IsFiles(f) ==
    /\ DOMAIN f = {"main", "subs"}
    /\ IsConf(Contained(f))
    /\ \A n \in DOMAIN f.subs : f.subs[n].by \in 0..MaxRequests
    /\ f.main.by \in 0..MaxRequests
IsRequest(r) ==
    /\ DOMAIN r = DOMAIN Idle /\ r.pc \in Pcs /\ IsConf(r.conf)
    /\ r.left \subseteq DOMAIN r.conf.subs
    /\ {r.id, r.bak} \subseteq 0..MaxRequests
    /\ r.alone \in BOOLEAN

TypeOK ==
    /\ IsFiles(live) /\ IsFiles(running)
    /\ DOMAIN baks \subseteq 1..MaxRequests
    /\ \A b \in DOMAIN baks : baks[b] \in Versions \cup {0}
    /\ \A p \in bakSubs : /\ p.bak \in 1..MaxRequests
                          /\ p.name \in Names /\ p.c \in Contents
    /\ \A b \in DOMAIN sentAs : IsConf(sentAs[b])
    /\ DOMAIN req = Workers /\ \A t \in Workers : IsRequest(req[t])
    /\ IsConf(expect) /\ {pure, ranPure} \subseteq BOOLEAN

\* What nginx runs was written by one request as a whole, even if nginx was
\* reloaded in the middle of a publish or after one that failed: conf.d is
\* deleted before the main file changes.  Excepted are files touched by two
\* writers at a time or by a restore under way, which changes the main file
\* first.  (ConfService.replace against ConfController.reload)
RunsWhole ==
    ranPure => \A n \in DOMAIN running.subs :
                  running.subs[n].by = running.main.by

\* After a publish that nothing disturbed, the files are those it sent and no
\* others; after such a restore, they are those the publish that made the
\* backup sent, unless that backup was deleted or never completed.
\* (ConfService.replace, BakController.replace)
LiveIsExpected == expect # NoConf => Contained(live) = expect

\* A backup all of whose parts were recorded, and that no deletion met, is
\* complete.  (ConfService.replace against BakService.delAll)
BackupIsWhole ==
    \A b \in DOMAIN baks :
        sentAs[b] # NoConf /\ (\A t \in Workers : req[t].id # b)
          => /\ baks[b] = sentAs[b].main
             /\ {<<p.name, p.c>> : p \in Parts(b)}
                  = {<<n, sentAs[b].subs[n]>> : n \in DOMAIN sentAs[b].subs}
=============================================================================
