------------------------- MODULE ConfPublishProofs -------------------------
(***************************************************************************)
(* Proofs about publishing, for any number of threads, files, states of    *)
(* the database and requests that satisfy PublishAssumption.               *)
(***************************************************************************)
EXTENDS ConfPublish, WellFoundedInduction, TLAPS

\* Functions on some files.
FilesOf(C) == UNION {[names -> C] : names \in SUBSET Names}
Mains == Versions \cup {0}
Ids == 0..MaxRequests
Confs == [main : Mains, subs : FilesOf(Contents)]
Live == [main : [c : Mains, by : Ids], subs : FilesOf([c : Contents, by : Ids])]
Requests == [pc : Pcs, conf : Confs, left : SUBSET Names, id : Ids, bak : Ids,
             alone : BOOLEAN]

FilesInv ==
    /\ live \in Live /\ running \in Live /\ expect \in Confs
    /\ pure \in BOOLEAN /\ ranPure \in BOOLEAN
    /\ requests \in Ids

TablesInv ==
    /\ DOMAIN baks \subseteq DOMAIN sentAs
    /\ \A b \in DOMAIN baks : baks[b] \in Mains
    /\ DOMAIN sentAs \subseteq 1..requests
    /\ \A b \in DOMAIN sentAs : sentAs[b] \in Confs
    /\ bakSubs \subseteq [bak : DOMAIN sentAs, name : Names, c : Contents]

RequestsInv ==
    /\ req \in [Workers -> Requests]
    /\ \A t \in Workers : req[t].id <= requests
    /\ \A t \in Workers : req[t].left \subseteq DOMAIN req[t].conf.subs
    /\ \A t \in Workers :
          req[t].pc \in {"clear", "main", "subs"} =>
             req[t].conf.main # 0 /\ req[t].id # 0

\* The id of a request is that of no other one, nor of a backup, unless it
\* is recording that backup.
IdsInv ==
    /\ \A t, u \in Workers :
          t # u => req[t].id = 0 \/ req[t].id # req[u].id
    /\ \A t \in Workers :
          req[t].id \in DOMAIN sentAs <=> req[t].pc = "bak"
    /\ \A t \in Workers :
          req[t].pc \in {"restoreMain", "restoreClear", "restoreParts",
                         "restoreSubs", "delSubs"} =>
             req[t].bak \in DOMAIN sentAs

\* What is recorded of a backup is what was sent, but for the parts that the
\* thread recording it has left.
Recorded(b) ==
    /\ b \in DOMAIN baks /\ baks[b] = sentAs[b].main
    /\ sentAs[b].main # 0
    /\ \A t \in Workers : req[t].id = b => req[t].conf = sentAs[b]
    /\ \A p \in bakSubs : p.bak = b =>
          /\ p.name \in DOMAIN sentAs[b].subs
          /\ p.c = sentAs[b].subs[p.name]
    /\ \A n \in DOMAIN sentAs[b].subs :
          (\A t \in Workers : req[t].id = b => n \notin req[t].left) =>
             \E p \in bakSubs : p.bak = b /\ p.name = n

BackupsInv ==
    \A b \in DOMAIN sentAs : sentAs[b] # NoConf => Recorded(b)

Writing == {"main", "subs", "restoreClear", "restoreParts", "restoreSubs"}

\* A writer that is alone is the only one, and the files are what it wrote.
AloneInv ==
    \A t \in Writers : req[t].alone =>
       /\ Writers = {t}
       /\ req[t].pc \in {"main", "restoreParts"} => DOMAIN live.subs = {}
       /\ req[t].pc # "main" =>
             /\ live.main = File(req[t].conf.main, req[t].id)
             /\ req[t].pc # "restoreClear" =>
                   \A n \in DOMAIN live.subs : live.subs[n].by = req[t].id
       /\ req[t].pc \in {"subs", "restoreSubs"} =>
             /\ DOMAIN live.subs = DOMAIN req[t].conf.subs \ req[t].left
             /\ \A n \in DOMAIN live.subs :
                   live.subs[n].c = req[t].conf.subs[n]

\* What a restore reads is what was sent, if its backup is not in doubt, and
\* a backup whose parts are yet to be deleted is.
RestoreInv ==
    \A t \in Workers :
       /\ req[t].pc = "delSubs" => sentAs[req[t].bak] = NoConf
       /\ req[t].bak \in DOMAIN sentAs /\ sentAs[req[t].bak] # NoConf =>
             /\ req[t].pc \in {"restoreMain", "restoreClear", "restoreParts"} =>
                   req[t].conf.main = sentAs[req[t].bak].main
             /\ req[t].pc = "restoreSubs" /\ req[t].alone =>
                   req[t].conf = sentAs[req[t].bak]

\* pure: the files were written by one request, which may still be writing.
PureInv ==
    pure =>
       /\ \A n \in DOMAIN live.subs : live.subs[n].by = live.main.by
       /\ \A t \in Writers : /\ req[t].alone
                             /\ req[t].pc \in {"main", "subs", "bak"}

\* expect: nobody is changing the files.
ExpectInv ==
    expect # NoConf =>
       /\ Contained(live) = expect
       /\ \A t \in Workers : req[t].pc \notin Writing

IInv ==
    /\ FilesInv /\ TablesInv /\ RequestsInv /\ IdsInv /\ BackupsInv
    /\ AloneInv /\ RestoreInv /\ PureInv /\ ExpectInv

-----------------------------------------------------------------------------
(* Functions on some files.                                                *)

LEMMA FilesOfIs ==
    ASSUME NEW C, NEW f
    PROVE  f \in FilesOf(C) <=> /\ f = [n \in DOMAIN f |-> f[n]]
                                /\ DOMAIN f \subseteq Names
                                /\ \A n \in DOMAIN f : f[n] \in C
<1>1. ASSUME f \in FilesOf(C)
      PROVE  /\ f = [n \in DOMAIN f |-> f[n]]
             /\ DOMAIN f \subseteq Names
             /\ \A n \in DOMAIN f : f[n] \in C
  <2>1. PICK names \in SUBSET Names : f \in [names -> C]
    BY <1>1 DEF FilesOf
  <2> QED BY <2>1
<1>2. ASSUME f = [n \in DOMAIN f |-> f[n]], DOMAIN f \subseteq Names,
             \A n \in DOMAIN f : f[n] \in C
      PROVE  f \in FilesOf(C)
  <2>1. f \in [DOMAIN f -> C]
    BY <1>2
  <2> QED BY <1>2, <2>1 DEF FilesOf
<1> QED BY <1>1, <1>2

LEMMA PutAt ==
    ASSUME NEW f, NEW n, NEW x
    PROVE  /\ DOMAIN Put(f, n, x) = DOMAIN f \cup {n}
           /\ Put(f, n, x)[n] = x
           /\ \A m \in DOMAIN f \ {n} : Put(f, n, x)[m] = f[m]
BY DEF Put

LEMMA PutIs ==
    ASSUME NEW C, NEW f \in FilesOf(C), NEW n \in Names, NEW x \in C
    PROVE  /\ Put(f, n, x) \in FilesOf(C)
           /\ DOMAIN Put(f, n, x) = DOMAIN f \cup {n}
           /\ Put(f, n, x)[n] = x
           /\ \A m \in DOMAIN f \ {n} : Put(f, n, x)[m] = f[m]
<1> DEFINE g == Put(f, n, x)
<1>1. DOMAIN f \subseteq Names /\ \A m \in DOMAIN f : f[m] \in C
  BY FilesOfIs
<1>2. DOMAIN g = DOMAIN f \cup {n} /\ g = [m \in DOMAIN g |-> g[m]]
  BY DEF Put
<1>3. \A m \in DOMAIN g : g[m] = IF m = n THEN x ELSE f[m]
  BY <1>2 DEF Put
<1>4. g \in FilesOf(C)
  <2> HIDE DEF g
  <2>1. DOMAIN g \subseteq Names /\ \A m \in DOMAIN g : g[m] \in C
    BY <1>1, <1>2, <1>3
  <2> QED BY <1>2, <2>1, FilesOfIs
<1> QED BY <1>2, <1>3, <1>4

LEMMA EmptyIs ==
    ASSUME NEW C
    PROVE  <<>> \in FilesOf(C) /\ DOMAIN <<>> = {}
<1>1. DOMAIN <<>> = {} /\ <<>> = [n \in {} |-> <<>>[n]]
  OBVIOUS
<1> QED BY <1>1, FilesOfIs

LEMMA LeastExists ==
    ASSUME NEW S, S \subseteq Nat, S # {}
    PROVE  \E i \in S : \A j \in S : i <= j
<1> DEFINE R == OpToRel(<, Nat)
<1>1. \E i \in S : \A j \in S : ~(<<j, i>> \in R)
  BY NatLessThanWellFounded, WFMin
<1>2. \A i, j \in S : <<j, i>> \notin R => i <= j
  BY DEF OpToRel
<1> QED BY <1>1, <1>2

LEMMA FirstIn ==
    ASSUME PublishAssumption, NEW names \in SUBSET Names, names # {}
    PROVE  First(names) \in names
<1> DEFINE S == {Pos[n] : n \in names}
<1>1. S \subseteq Nat /\ S # {}
  BY DEF PublishAssumption
<1>2. PICK i \in S : \A j \in S : i <= j
  BY <1>1, LeastExists
<1>3. PICK n \in names : \A m \in names : Pos[n] <= Pos[m]
  BY <1>2
<1> QED BY <1>3 DEF First

LEMMA ContainedIs ==
    ASSUME NEW f \in Live
    PROVE  /\ Contained(f) \in Confs
           /\ Contained(f).main = f.main.c
           /\ DOMAIN Contained(f).subs = DOMAIN f.subs
           /\ \A n \in DOMAIN f.subs : Contained(f).subs[n] = f.subs[n].c
<1>1. f.subs \in FilesOf([c : Contents, by : Ids]) /\ f.main.c \in Mains
  BY DEF Live
<1>2. /\ DOMAIN f.subs \subseteq Names
      /\ \A n \in DOMAIN f.subs : f.subs[n] \in [c : Contents, by : Ids]
  BY <1>1, FilesOfIs
<1> DEFINE g == [n \in DOMAIN f.subs |-> f.subs[n].c]
<1>3. /\ DOMAIN g = DOMAIN f.subs /\ g = [n \in DOMAIN g |-> g[n]]
      /\ \A n \in DOMAIN g : g[n] = f.subs[n].c
  OBVIOUS
<1>4. Contained(f) = [main |-> f.main.c, subs |-> g]
  BY DEF Contained
<1> HIDE DEF g
<1>5. g \in FilesOf(Contents)
  <2>1. \A n \in DOMAIN g : g[n] \in Contents
    BY <1>2, <1>3
  <2> QED BY <1>2, <1>3, <2>1, FilesOfIs
<1> QED BY <1>1, <1>3, <1>4, <1>5 DEF Confs

\* Two configurations with the same main file and the same files are equal.
LEMMA SameConf ==
    ASSUME NEW c \in Confs, NEW d \in Confs, c.main = d.main,
           DOMAIN c.subs = DOMAIN d.subs,
           \A n \in DOMAIN c.subs : c.subs[n] = d.subs[n]
    PROVE  c = d
<1>1. c.subs \in FilesOf(Contents) /\ d.subs \in FilesOf(Contents)
  BY DEF Confs
<1>2. c.subs = d.subs
  BY <1>1, FilesOfIs
<1>3. /\ c = [main |-> c.main, subs |-> c.subs]
      /\ d = [main |-> d.main, subs |-> d.subs]
  BY DEF Confs
<1> QED BY <1>2, <1>3

-----------------------------------------------------------------------------
(* What the steps do to the requests.                                      *)

LEMMA GotoIs ==
    ASSUME RequestsInv, NEW t \in Workers, NEW r \in Requests, Goto(t, r)
    PROVE  /\ req' \in [Workers -> Requests]
           /\ req'[t] = r
           /\ \A u \in Workers \ {t} : req'[u] = req[u]
BY DEF RequestsInv, Goto

LEMMA BeginIs ==
    ASSUME RequestsInv, FilesInv, PublishAssumption,
           NEW t \in Workers, NEW r \in Requests, Begin(t, r)
    PROVE  /\ req[t] = Idle
           /\ requests' = requests + 1 /\ requests' \in Ids /\ requests \in Nat
           /\ req' \in [Workers -> Requests]
           /\ req'[t] = [r EXCEPT !.id = requests + 1]
           /\ \A u \in Workers \ {t} : req'[u] = req[u]
<1>1. requests + 1 \in Ids /\ requests \in Nat
  BY DEF FilesInv, Begin, Count, Ids, PublishAssumption
<1>2. [r EXCEPT !.id = requests + 1] \in Requests
  BY <1>1 DEF Requests
<1> QED BY <1>1, <1>2 DEF Begin, Count, RequestsInv

\* A request that starts to write is alone if nobody else writes, and then
\* nobody else is.
LEMMA StartsWritingIs ==
    ASSUME RequestsInv, NEW t \in Workers, NEW r \in Requests,
           StartsWriting(t, r)
    PROVE  /\ req' \in [Workers -> Requests]
           /\ req'[t] = [r EXCEPT !.alone = Alone(t)]
           /\ req'[t].alone = Alone(t)
           /\ \A u \in Workers \ {t} :
                 /\ req'[u] = [req[u] EXCEPT !.alone = FALSE]
                 /\ req'[u].alone = FALSE
           /\ expect' = NoConf
<1>1. Alone(t) \in BOOLEAN
  BY DEF Alone
<1>2. [r EXCEPT !.alone = Alone(t)] \in Requests
  BY <1>1 DEF Requests
<1>3. \A u \in Workers : /\ [req[u] EXCEPT !.alone = FALSE] \in Requests
                         /\ [req[u] EXCEPT !.alone = FALSE].alone = FALSE
  BY DEF RequestsInv, Requests
<1>4. [r EXCEPT !.alone = Alone(t)].alone = Alone(t)
  BY DEF Requests
<1>5. req' = [u \in Workers |->
                 IF u = t THEN [r EXCEPT !.alone = Alone(t)]
                 ELSE [req[u] EXCEPT !.alone = FALSE]] /\ expect' = NoConf
  BY DEF StartsWriting
<1> HIDE DEF Alone
<1> QED BY <1>2, <1>3, <1>4, <1>5

LEMMA RequestIs ==
    ASSUME PublishAssumption, FilesInv, RequestsInv, NEW t \in Workers
    PROVE  /\ req[t] \in Requests
           /\ req[t].conf \in Confs
           /\ req[t].conf.main \in Mains
           /\ req[t].conf.subs \in FilesOf(Contents)
           /\ DOMAIN req[t].conf.subs \subseteq Names
           /\ req[t].left \subseteq DOMAIN req[t].conf.subs
           /\ req[t].id \in Ids
           /\ requests \in Nat
<1>1. req[t] \in Requests /\ req[t].left \subseteq DOMAIN req[t].conf.subs
  BY DEF RequestsInv
<1>2. req[t].conf \in Confs /\ req[t].id \in Ids
  BY <1>1 DEF Requests
<1>3. req[t].conf.main \in Mains /\ req[t].conf.subs \in FilesOf(Contents)
  BY <1>2 DEF Confs
<1>4. requests \in Nat
  BY DEF PublishAssumption, FilesInv, Ids
<1> QED BY <1>1, <1>2, <1>3, <1>4, FilesOfIs

LEMMA IdleIs ==
    ASSUME PublishAssumption
    PROVE  /\ NoConf \in Confs /\ NoConf.main = 0 /\ DOMAIN NoConf.subs = {}
           /\ Idle \in Requests
           /\ Idle.pc = "idle" /\ Idle.conf = NoConf /\ Idle.left = {}
           /\ Idle.id = 0 /\ Idle.bak = 0 /\ Idle.alone = FALSE
<1>1. NoConf \in Confs /\ NoConf.main = 0 /\ DOMAIN NoConf.subs = {}
  BY EmptyIs DEF NoConf, Confs, Mains
<1>2. 0 \in Ids
  BY DEF PublishAssumption, Ids
<1> QED BY <1>1, <1>2 DEF Idle, Requests, Pcs

\* A backup that is not in doubt stays recorded, if its rows are left alone
\* and so is the thread that has parts of it left.
LEMMA StaysRecorded ==
    ASSUME BackupsInv, NEW b \in DOMAIN sentAs, sentAs[b] # NoConf,
           sentAs'[b] = sentAs[b],
           b \in DOMAIN baks => b \in DOMAIN baks' /\ baks'[b] = baks[b],
           \A p \in bakSubs \cup bakSubs' :
              p.bak = b => p \in bakSubs /\ p \in bakSubs',
           \A u \in Workers :
              req'[u].id = b => req[u].id = b /\ req'[u].conf = req[u].conf,
           \A u \in Workers : req[u].id = b =>
              \/ req[u].left = {}
              \/ req'[u].id = b /\ req'[u].left = req[u].left
    PROVE  Recorded(b)'
<1>1. Recorded(b)
  BY DEF BackupsInv
<1>2. (b \in DOMAIN baks /\ baks[b] = sentAs[b].main /\ sentAs[b].main # 0)'
  BY <1>1 DEF Recorded
<1>3. \A u \in Workers : req'[u].id = b => req'[u].conf = sentAs'[b]
  BY <1>1 DEF Recorded
<1>4. \A p \in bakSubs' : p.bak = b =>
         /\ p.name \in DOMAIN sentAs'[b].subs
         /\ p.c = sentAs'[b].subs[p.name]
  BY <1>1 DEF Recorded
<1>5. ASSUME NEW n \in DOMAIN sentAs'[b].subs,
             \A u \in Workers : req'[u].id = b => n \notin req'[u].left
      PROVE  \E p \in bakSubs' : p.bak = b /\ p.name = n
  <2>1. \A u \in Workers : req[u].id = b => n \notin req[u].left
    BY <1>5
  <2> QED BY <1>1, <1>5, <2>1 DEF Recorded
<1> QED BY <1>2, <1>3, <1>4, <1>5 DEF Recorded

\* So do all, if the tables are left alone and no other thread records.
LEMMA StayRecorded ==
    ASSUME TablesInv, BackupsInv, UNCHANGED tables,
           \A u \in Workers : req'[u].id \in DOMAIN sentAs =>
              req'[u].id = req[u].id /\ req'[u].conf = req[u].conf,
           \A u \in Workers : req[u].id \in DOMAIN sentAs =>
              \/ req[u].left = {}
              \/ req'[u].id = req[u].id /\ req'[u].left = req[u].left
    PROVE  BackupsInv'
<1> SUFFICES ASSUME NEW b \in DOMAIN sentAs, sentAs[b] # NoConf
             PROVE  Recorded(b)'
  BY DEF BackupsInv, tables
<1>1. UNCHANGED <<baks, bakSubs, sentAs>>
  BY DEF tables
<1>2. \A u \in Workers :
         /\ req'[u].id = b => req[u].id = b /\ req'[u].conf = req[u].conf
         /\ req[u].id = b => \/ req[u].left = {}
                             \/ req'[u].id = b /\ req'[u].left = req[u].left
  OBVIOUS
<1> QED BY <1>1, <1>2, StaysRecorded

LEMMA SentIs ==
    ASSUME PublishAssumption, NEW v \in Versions, NEW w \in Versions
    PROVE  Sent(v, w) \in Confs /\ Sent(v, w).main # 0
<1> DEFINE g == [n \in SubsOf[w] |->
                   IF n \in SubsOf[v] THEN <<v, n>> ELSE Empty]
<1>1. SubsOf[w] \subseteq Names /\ v # 0
  BY DEF PublishAssumption
<1>2. DOMAIN g = SubsOf[w] /\ \A n \in SubsOf[w] : g[n] \in Contents
  BY <1>1 DEF Contents
<1>3. g = [n \in DOMAIN g |-> g[n]]
  OBVIOUS
<1>4. Sent(v, w) = [main |-> v, subs |-> g]
  BY DEF Sent
<1> HIDE DEF g
<1>5. g \in FilesOf(Contents)
  BY <1>1, <1>2, <1>3, FilesOfIs
<1> QED BY <1>1, <1>4, <1>5 DEF Confs, Mains

-----------------------------------------------------------------------------
(* Every step keeps the invariant.                                         *)

LEMMA WriteMainStep ==
    ASSUME PublishAssumption, IInv, NEW t \in Workers, WriteMain(t)
    PROVE  IInv'
<1> DEFINE r == [req[t] EXCEPT !.pc = "subs", !.left = DOMAIN req[t].conf.subs]
<1> USE DEF IInv
<1>1. /\ req[t] \in Requests /\ req[t].conf \in Confs /\ req[t].id \in Ids
      /\ requests \in Nat
      /\ DOMAIN req[t].conf.subs \subseteq Names
      /\ req[t].left \subseteq DOMAIN req[t].conf.subs
  BY RequestIs
<1>2. r \in Requests
  BY <1>1 DEF Requests, Pcs
<1>3. /\ req' \in [Workers -> Requests]
      /\ req'[t] = r
      /\ \A u \in Workers \ {t} : req'[u] = req[u]
  <2> HIDE DEF r
  <2> QED BY <1>2, GotoIs DEF WriteMain, r
<1>4. /\ req[t].pc = "main"
      /\ r.pc = "subs" /\ r.conf = req[t].conf /\ r.id = req[t].id
      /\ r.bak = req[t].bak /\ r.alone = req[t].alone
      /\ r.left = DOMAIN req[t].conf.subs
  BY <1>1 DEF Requests, WriteMain
<1>5. /\ live' = [live EXCEPT !.main = File(req[t].conf.main, req[t].id)]
      /\ UNCHANGED <<expect, pure, nginx, tables, counters>>
  BY DEF WriteMain
<1>6. /\ live' \in Live /\ live'.main = File(req[t].conf.main, req[t].id)
      /\ live'.subs = live.subs
  <2>1. File(req[t].conf.main, req[t].id) \in [c : Mains, by : Ids]
    BY <1>1, RequestIs DEF File
  <2> QED BY <1>5, <2>1 DEF FilesInv, Live
<1> HIDE DEF r
<1>11. FilesInv'
  BY <1>1, <1>3, <1>4, <1>5, <1>6 DEF FilesInv, nginx, counters, disk
<1>12. TablesInv'
  BY <1>1, <1>3, <1>4, <1>5, <1>6 DEF TablesInv, tables, counters
<1>13. RequestsInv'
  BY <1>1, <1>3, <1>4, <1>5, <1>6 DEF RequestsInv, counters
<1>14. IdsInv'
  BY <1>1, <1>3, <1>4, <1>5, <1>6 DEF IdsInv, tables, TablesInv
<1>15. BackupsInv'
  <2>1. \A u \in Workers : req'[u].id \in DOMAIN sentAs =>
           req'[u].id = req[u].id /\ req'[u].conf = req[u].conf
    BY <1>3, <1>4, <1>5 DEF IdsInv, TablesInv
  <2>2. \A u \in Workers : req[u].id \in DOMAIN sentAs =>
           \/ req[u].left = {}
           \/ req'[u].id = req[u].id /\ req'[u].left = req[u].left
    BY <1>3, <1>4, <1>5 DEF IdsInv, TablesInv
  <2> QED BY <1>3, <1>4, <1>5, <2>1, <2>2, StayRecorded DEF tables
<1>16. AloneInv'
  BY <1>1, <1>3, <1>4, <1>5, <1>6 DEF AloneInv, Writers, disk
<1>17. RestoreInv'
  BY <1>1, <1>3, <1>4, <1>5, <1>6 DEF RestoreInv, tables
<1>18. PureInv'
  BY <1>1, <1>3, <1>4, <1>5, <1>6 DEF PureInv, AloneInv, Writers, disk
<1>19. ExpectInv'
  BY <1>1, <1>3, <1>4, <1>5, <1>6 DEF ExpectInv, Writing, disk
<1> QED BY <1>11, <1>12, <1>13, <1>14, <1>15, <1>16, <1>17, <1>18, <1>19

LEMMA InsertBakSubStep ==
    ASSUME PublishAssumption, IInv, NEW t \in Workers, InsertBakSub(t)
    PROVE  IInv'
<1> DEFINE r == [req[t] EXCEPT !.left = @ \ {First(req[t].left)}]
<1> USE DEF IInv
<1>1. /\ req[t] \in Requests /\ req[t].conf \in Confs /\ req[t].id \in Ids
      /\ requests \in Nat
      /\ DOMAIN req[t].conf.subs \subseteq Names
      /\ req[t].left \subseteq DOMAIN req[t].conf.subs
  BY RequestIs
<1>2. r \in Requests
  BY <1>1 DEF Requests, Pcs
<1>3. /\ req' \in [Workers -> Requests]
      /\ req'[t] = r
      /\ \A u \in Workers \ {t} : req'[u] = req[u]
  <2> HIDE DEF r
  <2> QED BY <1>2, GotoIs DEF InsertBakSub, r
<1>4. /\ req[t].pc = "bak"
      /\ r.left = req[t].left \ {First(req[t].left)} /\ r.pc = "bak"
      /\ r.conf = req[t].conf /\ r.id = req[t].id /\ r.bak = req[t].bak
      /\ r.alone = req[t].alone
  BY <1>1 DEF Requests, InsertBakSub
<1>5. /\ bakSubs' = bakSubs \cup {BakSub(t, First(req[t].left))}
      /\ UNCHANGED <<disk, nginx, baks, sentAs, counters>>
  BY DEF InsertBakSub
<1>6. First(req[t].left) \in req[t].left
  BY <1>1, FirstIn DEF InsertBakSub
<1>7. LET p == BakSub(t, First(req[t].left))
      IN  /\ p \in [bak : DOMAIN sentAs, name : Names, c : Contents]
          /\ p.bak = req[t].id /\ p.name = First(req[t].left)
          /\ p.c = req[t].conf.subs[First(req[t].left)]
  <2>1. /\ req[t].id \in DOMAIN sentAs
        /\ req[t].conf.subs[First(req[t].left)] \in Contents
    BY <1>1, <1>4, <1>6, RequestIs, FilesOfIs DEF IdsInv
  <2> QED BY <1>1, <1>6, <2>1 DEF BakSub
<1> HIDE DEF r
<1>11. FilesInv'
  BY <1>1, <1>3, <1>4, <1>5, <1>6, <1>7 DEF FilesInv, nginx, counters, disk
<1>12. TablesInv'
  BY <1>1, <1>3, <1>4, <1>5, <1>6, <1>7 DEF TablesInv, tables, counters
<1>13. RequestsInv'
  BY <1>1, <1>3, <1>4, <1>5, <1>6, <1>7 DEF RequestsInv, counters
<1>14. IdsInv'
  BY <1>1, <1>3, <1>4, <1>5, <1>6, <1>7 DEF IdsInv, tables, TablesInv
<1>15. BackupsInv'
  <2> SUFFICES ASSUME NEW b \in DOMAIN sentAs, sentAs[b] # NoConf
               PROVE  Recorded(b)'
    BY <1>5 DEF BackupsInv
  <2>1. CASE b # req[t].id
    BY <1>3, <1>4, <1>5, <1>7, <2>1, StaysRecorded
  <2>2. CASE b = req[t].id
    <3> DEFINE p == BakSub(t, First(req[t].left))
    <3>1. Recorded(b) /\ req[t].conf = sentAs[b]
      BY <2>2 DEF BackupsInv, Recorded
    <3>2. /\ p.bak = b /\ p.name = First(req[t].left)
          /\ p.name \in DOMAIN sentAs[b].subs
          /\ p.c = sentAs[b].subs[p.name]
      BY <1>1, <1>6, <1>7, <2>2, <3>1
    <3> HIDE DEF p
    <3>3. bakSubs' = bakSubs \cup {p}
      BY <1>5 DEF p
    <3>4. ASSUME NEW n \in DOMAIN sentAs[b].subs,
                 \A u \in Workers : req'[u].id = b => n \notin req'[u].left
          PROVE  \E q \in bakSubs' : q.bak = b /\ q.name = n
      <4>1. n \notin req[t].left \/ n = p.name
        BY <1>3, <1>4, <2>2, <3>2, <3>4
      <4>2. CASE n = p.name
        BY <3>2, <3>3, <4>2
      <4>3. CASE n \notin req[t].left
        <5>1. \A u \in Workers : req[u].id = b => n \notin req[u].left
          BY <1>3, <2>2, <3>4, <4>3
        <5> QED BY <3>1, <3>3, <5>1 DEF Recorded
      <4> QED BY <4>1, <4>2, <4>3
    <3> QED BY <1>3, <1>4, <1>5, <3>1, <3>2, <3>3, <3>4 DEF Recorded
  <2> QED BY <2>1, <2>2
<1>16. AloneInv'
  BY <1>1, <1>3, <1>4, <1>5, <1>6, <1>7 DEF AloneInv, Writers, disk
<1>17. RestoreInv'
  BY <1>1, <1>3, <1>4, <1>5, <1>6, <1>7 DEF RestoreInv, tables
<1>18. PureInv'
  BY <1>1, <1>3, <1>4, <1>5, <1>6, <1>7 DEF PureInv, AloneInv, Writers, disk
<1>19. ExpectInv'
  BY <1>1, <1>3, <1>4, <1>5, <1>6, <1>7 DEF ExpectInv, Writing, disk
<1> QED BY <1>11, <1>12, <1>13, <1>14, <1>15, <1>16, <1>17, <1>18, <1>19

LEMMA ReplaceDoneStep ==
    ASSUME PublishAssumption, IInv, NEW t \in Workers, ReplaceDone(t)
    PROVE  IInv'
<1> DEFINE r == Idle
<1> USE DEF IInv
<1>1. /\ req[t] \in Requests /\ req[t].conf \in Confs /\ req[t].id \in Ids
      /\ requests \in Nat
      /\ DOMAIN req[t].conf.subs \subseteq Names
      /\ req[t].left \subseteq DOMAIN req[t].conf.subs
  BY RequestIs
<1>2. r \in Requests
  BY IdleIs
<1>3. /\ req' \in [Workers -> Requests]
      /\ req'[t] = r
      /\ \A u \in Workers \ {t} : req'[u] = req[u]
  <2> HIDE DEF r
  <2> QED BY <1>2, GotoIs DEF ReplaceDone, r
<1>4. /\ req[t].pc = "bak" /\ req[t].left = {}
      /\ r.pc = "idle" /\ r.id = 0 /\ r.left = {} /\ r.conf = NoConf
      /\ r.bak = 0 /\ r.alone = FALSE
  BY IdleIs DEF ReplaceDone
<1>5. UNCHANGED <<disk, nginx, tables, counters>>
  BY DEF ReplaceDone
<1> HIDE DEF r
<1>11. FilesInv'
  BY <1>1, <1>3, <1>4, <1>5 DEF FilesInv, nginx, counters, disk
<1>12. TablesInv'
  BY <1>1, <1>3, <1>4, <1>5 DEF TablesInv, tables, counters
<1>13. RequestsInv'
  BY <1>1, <1>3, <1>4, <1>5 DEF RequestsInv, counters
<1>14. IdsInv'
  BY <1>1, <1>3, <1>4, <1>5 DEF IdsInv, tables, TablesInv
<1>15. BackupsInv'
  <2>1. \A u \in Workers : req'[u].id \in DOMAIN sentAs =>
           req'[u].id = req[u].id /\ req'[u].conf = req[u].conf
    BY <1>1, <1>3, <1>4, <1>5 DEF IdsInv, TablesInv
  <2>2. \A u \in Workers : req[u].id \in DOMAIN sentAs =>
           \/ req[u].left = {}
           \/ req'[u].id = req[u].id /\ req'[u].left = req[u].left
    BY <1>1, <1>3, <1>4, <1>5 DEF IdsInv, TablesInv
  <2> QED BY <1>1, <1>3, <1>4, <1>5, <2>1, <2>2, StayRecorded DEF tables
<1>16. AloneInv'
  BY <1>1, <1>3, <1>4, <1>5 DEF AloneInv, Writers, disk
<1>17. RestoreInv'
  BY <1>1, <1>3, <1>4, <1>5 DEF RestoreInv, tables
<1>18. PureInv'
  BY <1>1, <1>3, <1>4, <1>5 DEF PureInv, AloneInv, Writers, disk
<1>19. ExpectInv'
  BY <1>1, <1>3, <1>4, <1>5 DEF ExpectInv, Writing, disk
<1> QED BY <1>11, <1>12, <1>13, <1>14, <1>15, <1>16, <1>17, <1>18, <1>19

LEMMA ReplaceFailsStep ==
    ASSUME PublishAssumption, IInv, NEW t \in Workers, ReplaceFails(t)
    PROVE  IInv'
<1> DEFINE r == Idle
<1> USE DEF IInv
<1>1. /\ req[t] \in Requests /\ req[t].conf \in Confs /\ req[t].id \in Ids
      /\ requests \in Nat
      /\ DOMAIN req[t].conf.subs \subseteq Names
      /\ req[t].left \subseteq DOMAIN req[t].conf.subs
  BY RequestIs
<1>2. r \in Requests
  BY IdleIs
<1>3. /\ req' \in [Workers -> Requests]
      /\ req'[t] = r
      /\ \A u \in Workers \ {t} : req'[u] = req[u]
  <2> HIDE DEF r
  <2> QED BY <1>2, GotoIs DEF ReplaceFails, r
<1>4. /\ req[t].pc \in {"clear", "main", "subs", "bak"}
      /\ r.pc = "idle" /\ r.id = 0 /\ r.left = {} /\ r.conf = NoConf
      /\ r.bak = 0 /\ r.alone = FALSE
  BY IdleIs DEF ReplaceFails
<1>5. UNCHANGED <<disk, nginx, baks, bakSubs, requests>>
  BY DEF ReplaceFails
<1>6. /\ DOMAIN sentAs' = DOMAIN sentAs
      /\ \A b \in DOMAIN sentAs :
            sentAs'[b] = IF b = req[t].id THEN NoConf ELSE sentAs[b]
  <2>1. CASE req[t].pc = "bak"
    <3>1. /\ sentAs' = Put(sentAs, req[t].id, NoConf)
          /\ req[t].id \in DOMAIN sentAs
      BY <2>1 DEF ReplaceFails, IdsInv
    <3>2. DOMAIN sentAs' = DOMAIN sentAs
      BY <3>1 DEF Put
    <3>3. ASSUME NEW b \in DOMAIN sentAs
          PROVE  sentAs'[b] = IF b = req[t].id THEN NoConf ELSE sentAs[b]
      BY <3>1 DEF Put
    <3> QED BY <3>2, <3>3
  <2>2. CASE req[t].pc # "bak"
    BY <2>2 DEF ReplaceFails, IdsInv
  <2> QED BY <2>1, <2>2
<1>7. NoConf \in Confs
  BY IdleIs
<1> HIDE DEF r
<1>11. FilesInv'
  BY <1>1, <1>3, <1>4, <1>5, <1>6, <1>7 DEF FilesInv, nginx, counters, disk
<1>12. TablesInv'
  BY <1>1, <1>5, <1>6, <1>7 DEF TablesInv
<1>13. RequestsInv'
  BY <1>1, <1>3, <1>4, <1>5, <1>6, <1>7 DEF RequestsInv, counters
<1>14. IdsInv'
  BY <1>1, <1>3, <1>4, <1>5, <1>6, <1>7 DEF IdsInv, tables, TablesInv
<1>15. BackupsInv'
  <2> SUFFICES ASSUME NEW b \in DOMAIN sentAs', sentAs'[b] # NoConf
               PROVE  Recorded(b)'
    BY DEF BackupsInv
  <2>1. b \in DOMAIN sentAs /\ sentAs[b] # NoConf /\ sentAs'[b] = sentAs[b]
        /\ b # 0 /\ b \in DOMAIN baks
    BY <1>1, <1>3, <1>4, <1>5, <1>6 DEF tables, TablesInv, BackupsInv, Recorded
  <2>2. baks'[b] = baks[b] /\ b \in DOMAIN baks'
    BY <2>1, <1>1, <1>3, <1>4, <1>5, <1>6 DEF tables
  <2>3. \A p \in bakSubs \cup bakSubs' :
           p.bak = b => p \in bakSubs /\ p \in bakSubs'
    BY <2>1, <1>1, <1>3, <1>4, <1>5, <1>6 DEF tables
  <2>4. \A u \in Workers :
           req'[u].id = b => req[u].id = b /\ req'[u].conf = req[u].conf
    BY <2>1, <1>1, <1>3, <1>4, <1>5, <1>6
  <2>5. \A u \in Workers : req[u].id = b =>
           \/ req[u].left = {}
           \/ req'[u].id = b /\ req'[u].left = req[u].left
    BY <2>1, <1>1, <1>3, <1>4, <1>5, <1>6 DEF IdsInv
  <2> QED BY <2>1, <2>2, <2>3, <2>4, <2>5, StaysRecorded
<1>16. AloneInv'
  BY <1>1, <1>3, <1>4, <1>5, <1>6, <1>7 DEF AloneInv, Writers, disk
<1>17. RestoreInv'
  BY <1>3, <1>4, <1>6 DEF RestoreInv, IdsInv
<1>18. PureInv'
  BY <1>1, <1>3, <1>4, <1>5, <1>6, <1>7 DEF PureInv, AloneInv, Writers, disk
<1>19. ExpectInv'
  BY <1>1, <1>3, <1>4, <1>5, <1>6, <1>7 DEF ExpectInv, Writing, disk
<1> QED BY <1>11, <1>12, <1>13, <1>14, <1>15, <1>16, <1>17, <1>18, <1>19

LEMMA RestoreFailsStep ==
    ASSUME PublishAssumption, IInv, NEW t \in Workers, RestoreFails(t)
    PROVE  IInv'
<1> DEFINE r == Idle
<1> USE DEF IInv
<1>1. /\ req[t] \in Requests /\ req[t].conf \in Confs /\ req[t].id \in Ids
      /\ requests \in Nat
      /\ DOMAIN req[t].conf.subs \subseteq Names
      /\ req[t].left \subseteq DOMAIN req[t].conf.subs
  BY RequestIs
<1>2. r \in Requests
  BY IdleIs
<1>3. /\ req' \in [Workers -> Requests]
      /\ req'[t] = r
      /\ \A u \in Workers \ {t} : req'[u] = req[u]
  <2> HIDE DEF r
  <2> QED BY <1>2, GotoIs DEF RestoreFails, r
<1>4. /\ req[t].pc \in {"restoreMain", "restoreClear", "restoreParts",
                         "restoreSubs"}
      /\ r.pc = "idle" /\ r.id = 0 /\ r.left = {} /\ r.conf = NoConf
      /\ r.bak = 0 /\ r.alone = FALSE
  BY IdleIs DEF RestoreFails
<1>5. UNCHANGED <<disk, nginx, tables, requests>>
  BY DEF RestoreFails
<1> HIDE DEF r
<1>11. FilesInv'
  BY <1>1, <1>3, <1>4, <1>5 DEF FilesInv, nginx, counters, disk
<1>12. TablesInv'
  BY <1>1, <1>3, <1>4, <1>5 DEF TablesInv, tables, counters
<1>13. RequestsInv'
  BY <1>1, <1>3, <1>4, <1>5 DEF RequestsInv, counters
<1>14. IdsInv'
  BY <1>1, <1>3, <1>4, <1>5 DEF IdsInv, tables, TablesInv
<1>15. BackupsInv'
  <2>1. \A u \in Workers : req'[u].id \in DOMAIN sentAs =>
           req'[u].id = req[u].id /\ req'[u].conf = req[u].conf
    BY <1>1, <1>3, <1>4, <1>5 DEF IdsInv, TablesInv
  <2>2. \A u \in Workers : req[u].id \in DOMAIN sentAs =>
           \/ req[u].left = {}
           \/ req'[u].id = req[u].id /\ req'[u].left = req[u].left
    BY <1>1, <1>3, <1>4, <1>5 DEF IdsInv, TablesInv
  <2> QED BY <1>1, <1>3, <1>4, <1>5, <2>1, <2>2, StayRecorded DEF tables
<1>16. AloneInv'
  BY <1>1, <1>3, <1>4, <1>5 DEF AloneInv, Writers, disk
<1>17. RestoreInv'
  BY <1>1, <1>3, <1>4, <1>5 DEF RestoreInv, tables
<1>18. PureInv'
  BY <1>1, <1>3, <1>4, <1>5 DEF PureInv, AloneInv, Writers, disk
<1>19. ExpectInv'
  BY <1>1, <1>3, <1>4, <1>5 DEF ExpectInv, Writing, disk
<1> QED BY <1>11, <1>12, <1>13, <1>14, <1>15, <1>16, <1>17, <1>18, <1>19

LEMMA ReplaceStep ==
    ASSUME PublishAssumption, IInv, NEW t \in Workers,
           NEW v \in Versions, NEW w \in Versions,
           Replace(t, v, w)
    PROVE  IInv'
<1> DEFINE r == [pc |-> "clear", conf |-> Sent(v, w), left |-> {},
                id |-> requests + 1, bak |-> 0, alone |-> FALSE]
<1> USE DEF IInv
<1>1. /\ requests \in Nat /\ requests + 1 \in Ids /\ 0 \in Ids
      /\ requests' = requests + 1 /\ req[t] = Idle
  BY IdleIs, RequestIs DEF Replace, Begin, Count, PublishAssumption, Ids,
     FilesInv
<1>2. /\ Sent(v, w) \in Confs /\ Sent(v, w).main # 0
  BY SentIs
<1>3. r \in Requests
  BY <1>1, <1>2, EmptyIs DEF Requests, Pcs, Ids, Confs
<1>4. /\ req' \in [Workers -> Requests]
      /\ req'[t] = r
      /\ \A u \in Workers \ {t} : req'[u] = req[u]
  BY <1>3, IdleIs DEF Replace, Begin, Idle, RequestsInv
<1>5. /\ req[t].pc = "idle" /\ req[t].left = {} /\ req[t].id = 0
      /\ r.pc = "clear" /\ r.conf = Sent(v, w) /\ r.left = {}
      /\ r.id = requests + 1 /\ r.bak = 0 /\ r.alone = FALSE
  BY <1>1, IdleIs
<1>6. UNCHANGED <<disk, nginx, tables>>
  BY DEF Replace, Begin
<1>7. /\ \A u \in Workers :
            req[u].id <= requests + 1 /\ req[u].id # requests + 1
      /\ \A i \in DOMAIN sentAs : i # requests + 1 /\ i # 0
  <2>1. \A u \in Workers : req[u].id \in Nat /\ req[u].id <= requests
    BY RequestIs DEF RequestsInv, Ids
  <2> QED BY <1>1, <2>1 DEF TablesInv
<1> HIDE DEF r
<1>11. FilesInv'
  BY <1>1, <1>6 DEF FilesInv, disk, nginx
<1>12. TablesInv'
  BY <1>1, <1>6 DEF TablesInv, tables
<1>13. RequestsInv'
  BY <1>1, <1>2, <1>4, <1>5, <1>6, <1>7 DEF RequestsInv
<1>14. IdsInv'
  BY <1>1, <1>4, <1>5, <1>6, <1>7 DEF IdsInv, tables, TablesInv
<1>15. BackupsInv'
  <2>1. \A u \in Workers : req'[u].id \in DOMAIN sentAs =>
           req'[u].id = req[u].id /\ req'[u].conf = req[u].conf
    BY <1>1, <1>4, <1>5, <1>6, <1>7 DEF IdsInv, TablesInv
  <2>2. \A u \in Workers : req[u].id \in DOMAIN sentAs =>
           \/ req[u].left = {}
           \/ req'[u].id = req[u].id /\ req'[u].left = req[u].left
    BY <1>1, <1>4, <1>5, <1>6, <1>7 DEF IdsInv, TablesInv
  <2> QED BY <1>1, <1>4, <1>5, <1>6, <1>7, <2>1, <2>2, StayRecorded DEF tables
<1>16. AloneInv'
  BY <1>1, <1>4, <1>5, <1>6, <1>7 DEF AloneInv, Writers, disk
<1>17. RestoreInv'
  BY <1>1, <1>4, <1>5, <1>6, <1>7 DEF RestoreInv, tables
<1>18. PureInv'
  BY <1>1, <1>4, <1>5, <1>6, <1>7 DEF PureInv, AloneInv, Writers, disk
<1>19. ExpectInv'
  BY <1>1, <1>4, <1>5, <1>6, <1>7 DEF ExpectInv, Writing, disk
<1> QED BY <1>11, <1>12, <1>13, <1>14, <1>15, <1>16, <1>17, <1>18, <1>19

LEMMA RestoreStep ==
    ASSUME PublishAssumption, IInv, NEW t \in Workers, NEW b \in DOMAIN baks,
           Restore(t, b)
    PROVE  IInv'
<1> DEFINE r == [pc |-> "restoreMain",
                conf |-> [NoConf EXCEPT !.main = baks[b]], left |-> {},
                id |-> requests + 1, bak |-> b, alone |-> FALSE]
<1> USE DEF IInv
<1>1. /\ requests \in Nat /\ requests + 1 \in Ids /\ 0 \in Ids
      /\ requests' = requests + 1 /\ req[t] = Idle
  BY IdleIs, RequestIs DEF Restore, Begin, Count, PublishAssumption, Ids,
     FilesInv
<1>2. /\ [NoConf EXCEPT !.main = baks[b]] \in Confs
      /\ [NoConf EXCEPT !.main = baks[b]].main = baks[b]
      /\ b \in Ids /\ b \in DOMAIN sentAs
  <2>1. b \in DOMAIN sentAs /\ b \in 1..requests
    BY DEF TablesInv
  <2>2. baks[b] \in Mains /\ b \in Ids
    BY <1>1, <2>1 DEF TablesInv, Ids, FilesInv, PublishAssumption
  <2> QED BY <2>1, <2>2, IdleIs DEF Confs
<1>3. r \in Requests
  BY <1>1, <1>2, EmptyIs DEF Requests, Pcs, Ids, Confs
<1>4. /\ req' \in [Workers -> Requests]
      /\ req'[t] = r
      /\ \A u \in Workers \ {t} : req'[u] = req[u]
  BY <1>3, IdleIs DEF Restore, Begin, Idle, RequestsInv
<1>5. /\ req[t].pc = "idle" /\ req[t].left = {} /\ req[t].id = 0
      /\ r.pc = "restoreMain" /\ r.left = {}
      /\ r.conf = [NoConf EXCEPT !.main = baks[b]]
      /\ r.id = requests + 1 /\ r.bak = b /\ r.alone = FALSE
  BY <1>1, IdleIs
<1>6. UNCHANGED <<disk, nginx, tables>>
  BY DEF Restore, Begin
<1>7. /\ \A u \in Workers :
            req[u].id <= requests + 1 /\ req[u].id # requests + 1
      /\ \A i \in DOMAIN sentAs : i # requests + 1 /\ i # 0
  <2>1. \A u \in Workers : req[u].id \in Nat /\ req[u].id <= requests
    BY RequestIs DEF RequestsInv, Ids
  <2> QED BY <1>1, <2>1 DEF TablesInv
<1> HIDE DEF r
<1>11. FilesInv'
  BY <1>1, <1>6 DEF FilesInv, disk, nginx
<1>12. TablesInv'
  BY <1>1, <1>6 DEF TablesInv, tables
<1>13. RequestsInv'
  BY <1>1, <1>2, <1>4, <1>5, <1>6, <1>7 DEF RequestsInv
<1>14. IdsInv'
  BY <1>1, <1>2, <1>4, <1>5, <1>6, <1>7 DEF IdsInv, tables
<1>15. BackupsInv'
  <2>1. \A u \in Workers : req'[u].id \in DOMAIN sentAs =>
           req'[u].id = req[u].id /\ req'[u].conf = req[u].conf
    BY <1>1, <1>4, <1>5, <1>6, <1>7 DEF IdsInv, TablesInv
  <2>2. \A u \in Workers : req[u].id \in DOMAIN sentAs =>
           \/ req[u].left = {}
           \/ req'[u].id = req[u].id /\ req'[u].left = req[u].left
    BY <1>1, <1>4, <1>5, <1>6, <1>7 DEF IdsInv, TablesInv
  <2> QED BY <1>1, <1>4, <1>5, <1>6, <1>7, <2>1, <2>2, StayRecorded DEF tables
<1>16. AloneInv'
  BY <1>1, <1>4, <1>5, <1>6, <1>7 DEF AloneInv, Writers, disk
<1>17. RestoreInv'
  <2>1. sentAs[b] # NoConf => baks[b] = sentAs[b].main
    BY <1>2 DEF BackupsInv, Recorded
  <2>2. r.pc = "restoreMain" /\ r.bak = b /\ r.conf.main = baks[b]
    BY <1>2, <1>5
  <2> QED BY <1>4, <1>6, <2>1, <2>2 DEF RestoreInv, tables
<1>18. PureInv'
  BY <1>1, <1>4, <1>5, <1>6, <1>7 DEF PureInv, AloneInv, Writers, disk
<1>19. ExpectInv'
  BY <1>1, <1>4, <1>5, <1>6, <1>7 DEF ExpectInv, Writing, disk
<1> QED BY <1>11, <1>12, <1>13, <1>14, <1>15, <1>16, <1>17, <1>18, <1>19

LEMMA ClearStep ==
    ASSUME PublishAssumption, IInv, NEW t \in Workers, Clear(t)
    PROVE  IInv'
<1> DEFINE r == [req[t] EXCEPT !.pc = "main"]
<1> USE DEF IInv
<1>1. /\ req[t] \in Requests /\ req[t].conf \in Confs /\ req[t].id \in Ids
      /\ requests \in Nat
      /\ req[t].left \subseteq DOMAIN req[t].conf.subs
  BY RequestIs
<1>2. r \in Requests
  BY <1>1 DEF Requests, Pcs
<1>3. /\ req' \in [Workers -> Requests]
      /\ req'[t] = [r EXCEPT !.alone = Alone(t)]
      /\ req'[t].alone = Alone(t)
      /\ \A u \in Workers \ {t} :
            /\ req'[u] = [req[u] EXCEPT !.alone = FALSE]
            /\ req'[u].alone = FALSE
      /\ expect' = NoConf
  <2> HIDE DEF r
  <2> QED BY <1>2, StartsWritingIs DEF Clear, r
<1>4. /\ req[t].pc = "clear" /\ req'[t].pc = "main"
      /\ req'[t].alone = Alone(t)
      /\ \A u \in Workers \ {t} : req'[u].pc = req[u].pc /\ ~req'[u].alone
  <2>1. \A u \in Workers : req[u] \in Requests
    BY RequestIs
  <2>2. req[t].pc = "clear" /\ req'[t].pc = "main"
    BY <1>1, <1>3 DEF Requests, Clear
  <2> QED BY <1>3, <2>1, <2>2 DEF Requests
<1>5. \A u \in Workers :
         /\ req'[u].conf = req[u].conf /\ req'[u].id = req[u].id
         /\ req'[u].bak = req[u].bak /\ req'[u].left = req[u].left
  <2>1. \A u \in Workers : req[u] \in Requests
    BY RequestIs
  <2>2. /\ req'[t].conf = req[t].conf /\ req'[t].id = req[t].id
        /\ req'[t].bak = req[t].bak /\ req'[t].left = req[t].left
    BY <1>1, <1>3 DEF Requests
  <2>3. \A u \in Workers \ {t} :
           /\ req'[u].conf = req[u].conf /\ req'[u].id = req[u].id
           /\ req'[u].bak = req[u].bak /\ req'[u].left = req[u].left
    BY <1>3, <2>1 DEF Requests
  <2> QED BY <2>2, <2>3
<1>6. /\ live' = [live EXCEPT !.subs = ClearedSubs(@)]
      /\ pure' = Alone(t)
      /\ UNCHANGED <<nginx, tables, counters>>
  BY DEF Clear
<1>7. /\ live' \in Live /\ live'.main = live.main /\ DOMAIN live'.subs = {}
  BY <1>6, EmptyIs DEF FilesInv, Live, ClearedSubs
<1> HIDE DEF r
<1>11. FilesInv'
  BY <1>3, <1>4, <1>5, <1>6, <1>7, IdleIs DEF FilesInv, nginx, counters, Alone
<1>12. TablesInv'
  BY <1>4, <1>5, <1>6, <1>7 DEF TablesInv, tables, counters
<1>13. RequestsInv'
  BY <1>3, <1>4, <1>5, <1>6 DEF RequestsInv, counters
<1>14. IdsInv'
  BY <1>4, <1>5, <1>6 DEF IdsInv, tables
<1>15. BackupsInv'
  <2>1. \A u \in Workers : req'[u].id \in DOMAIN sentAs =>
           req'[u].id = req[u].id /\ req'[u].conf = req[u].conf
    BY <1>4, <1>5, <1>6 DEF IdsInv, TablesInv
  <2>2. \A u \in Workers : req[u].id \in DOMAIN sentAs =>
           \/ req[u].left = {}
           \/ req'[u].id = req[u].id /\ req'[u].left = req[u].left
    BY <1>4, <1>5, <1>6 DEF IdsInv, TablesInv
  <2> QED BY <1>4, <1>5, <1>6, <2>1, <2>2, StayRecorded DEF tables
<1>16. AloneInv'
  <2>1. Writers' = Writers \cup {t}
    BY <1>4 DEF Writers
  <2> SUFFICES ASSUME req'[t].alone
               PROVE  AloneInv'
    BY <1>4, <2>1 DEF AloneInv, Writers
  <2>2. Writers' = {t}
    BY <1>4, <2>1 DEF Alone
  <2> QED BY <1>4, <1>5, <1>6, <1>7, <2>2 DEF AloneInv
<1>17. RestoreInv'
  BY <1>4, <1>5, <1>6 DEF RestoreInv, tables
<1>18. PureInv'
  BY <1>4, <1>5, <1>6, <1>7 DEF PureInv, Writers, Alone
<1>19. ExpectInv'
  BY <1>3 DEF ExpectInv
<1> QED BY <1>11, <1>12, <1>13, <1>14, <1>15, <1>16, <1>17, <1>18, <1>19

LEMMA RestoreMainStep ==
    ASSUME PublishAssumption, IInv, NEW t \in Workers, RestoreMain(t)
    PROVE  IInv'
<1> DEFINE r == [req[t] EXCEPT !.pc = "restoreClear"]
<1> USE DEF IInv
<1>1. /\ req[t] \in Requests /\ req[t].conf \in Confs /\ req[t].id \in Ids
      /\ requests \in Nat
      /\ req[t].left \subseteq DOMAIN req[t].conf.subs
  BY RequestIs
<1>2. r \in Requests
  BY <1>1 DEF Requests, Pcs
<1>3. /\ req' \in [Workers -> Requests]
      /\ req'[t] = [r EXCEPT !.alone = Alone(t)]
      /\ req'[t].alone = Alone(t)
      /\ \A u \in Workers \ {t} :
            /\ req'[u] = [req[u] EXCEPT !.alone = FALSE]
            /\ req'[u].alone = FALSE
      /\ expect' = NoConf
  <2> HIDE DEF r
  <2> QED BY <1>2, StartsWritingIs DEF RestoreMain, r
<1>4. /\ req[t].pc = "restoreMain" /\ req'[t].pc = "restoreClear"
      /\ req'[t].alone = Alone(t)
      /\ \A u \in Workers \ {t} : req'[u].pc = req[u].pc /\ ~req'[u].alone
  <2>1. \A u \in Workers : req[u] \in Requests
    BY RequestIs
  <2>2. req[t].pc = "restoreMain" /\ req'[t].pc = "restoreClear"
    BY <1>1, <1>3 DEF Requests, RestoreMain
  <2> QED BY <1>3, <2>1, <2>2 DEF Requests
<1>5. \A u \in Workers :
         /\ req'[u].conf = req[u].conf /\ req'[u].id = req[u].id
         /\ req'[u].bak = req[u].bak /\ req'[u].left = req[u].left
  <2>1. \A u \in Workers : req[u] \in Requests
    BY RequestIs
  <2>2. /\ req'[t].conf = req[t].conf /\ req'[t].id = req[t].id
        /\ req'[t].bak = req[t].bak /\ req'[t].left = req[t].left
    BY <1>1, <1>3 DEF Requests
  <2>3. \A u \in Workers \ {t} :
           /\ req'[u].conf = req[u].conf /\ req'[u].id = req[u].id
           /\ req'[u].bak = req[u].bak /\ req'[u].left = req[u].left
    BY <1>3, <2>1 DEF Requests
  <2> QED BY <2>2, <2>3
<1>6. /\ live' = [live EXCEPT !.main = File(req[t].conf.main, req[t].id)]
      /\ pure' = FALSE
      /\ UNCHANGED <<nginx, tables, counters>>
  BY DEF RestoreMain
<1>7. /\ live' \in Live /\ live'.main = File(req[t].conf.main, req[t].id)
      /\ live'.subs = live.subs
  <2>1. File(req[t].conf.main, req[t].id) \in [c : Mains, by : Ids]
    BY <1>1, RequestIs DEF File
  <2> QED BY <1>6, <2>1 DEF FilesInv, Live
<1> HIDE DEF r
<1>11. FilesInv'
  BY <1>3, <1>4, <1>5, <1>6, <1>7, IdleIs DEF FilesInv, nginx, counters, Alone
<1>12. TablesInv'
  BY <1>4, <1>5, <1>6, <1>7 DEF TablesInv, tables, counters
<1>13. RequestsInv'
  BY <1>3, <1>4, <1>5, <1>6 DEF RequestsInv, counters
<1>14. IdsInv'
  BY <1>4, <1>5, <1>6 DEF IdsInv, tables
<1>15. BackupsInv'
  <2>1. \A u \in Workers : req'[u].id \in DOMAIN sentAs =>
           req'[u].id = req[u].id /\ req'[u].conf = req[u].conf
    BY <1>4, <1>5, <1>6 DEF IdsInv, TablesInv
  <2>2. \A u \in Workers : req[u].id \in DOMAIN sentAs =>
           \/ req[u].left = {}
           \/ req'[u].id = req[u].id /\ req'[u].left = req[u].left
    BY <1>4, <1>5, <1>6 DEF IdsInv, TablesInv
  <2> QED BY <1>4, <1>5, <1>6, <2>1, <2>2, StayRecorded DEF tables
<1>16. AloneInv'
  <2>1. Writers' = Writers \cup {t}
    BY <1>4 DEF Writers
  <2> SUFFICES ASSUME req'[t].alone
               PROVE  AloneInv'
    BY <1>4, <2>1 DEF AloneInv, Writers
  <2>2. Writers' = {t}
    BY <1>4, <2>1 DEF Alone
  <2> QED BY <1>4, <1>5, <1>6, <1>7, <2>2 DEF AloneInv
<1>17. RestoreInv'
  BY <1>4, <1>5, <1>6 DEF RestoreInv, tables
<1>18. PureInv'
  BY <1>4, <1>5, <1>6, <1>7 DEF PureInv, Writers, Alone
<1>19. ExpectInv'
  BY <1>3 DEF ExpectInv
<1> QED BY <1>11, <1>12, <1>13, <1>14, <1>15, <1>16, <1>17, <1>18, <1>19

LEMMA RestoreClearStep ==
    ASSUME PublishAssumption, IInv, NEW t \in Workers, RestoreClear(t)
    PROVE  IInv'
<1> DEFINE r == [req[t] EXCEPT !.pc = "restoreParts"]
<1> USE DEF IInv
<1>1. /\ req[t] \in Requests /\ req[t].conf \in Confs /\ req[t].id \in Ids
      /\ requests \in Nat
      /\ DOMAIN req[t].conf.subs \subseteq Names
      /\ req[t].left \subseteq DOMAIN req[t].conf.subs
  BY RequestIs
<1>2. r \in Requests
  BY <1>1 DEF Requests, Pcs
<1>3. /\ req' \in [Workers -> Requests]
      /\ req'[t] = r
      /\ \A u \in Workers \ {t} : req'[u] = req[u]
  <2> HIDE DEF r
  <2> QED BY <1>2, GotoIs DEF RestoreClear, r
<1>4. /\ req[t].pc = "restoreClear"
      /\ r.pc = "restoreParts" /\ r.left = req[t].left /\ r.alone = req[t].alone
      /\ r.conf = req[t].conf /\ r.id = req[t].id /\ r.bak = req[t].bak
  BY <1>1 DEF Requests, RestoreClear
<1>5. /\ live' = [live EXCEPT !.subs = ClearedSubs(@)]
      /\ UNCHANGED <<expect, pure, nginx, tables, counters>>
  BY DEF RestoreClear
<1>6. /\ live' \in Live /\ live'.main = live.main /\ DOMAIN live'.subs = {}
  BY <1>5, EmptyIs DEF FilesInv, Live, ClearedSubs
<1> HIDE DEF r
<1>11. FilesInv'
  BY <1>1, <1>3, <1>4, <1>5, <1>6 DEF FilesInv, nginx, counters, disk
<1>12. TablesInv'
  BY <1>1, <1>3, <1>4, <1>5, <1>6 DEF TablesInv, tables, counters
<1>13. RequestsInv'
  BY <1>1, <1>3, <1>4, <1>5, <1>6 DEF RequestsInv, counters
<1>14. IdsInv'
  BY <1>3, <1>4, <1>5 DEF IdsInv, tables, TablesInv
<1>15. BackupsInv'
  <2>1. \A u \in Workers : req'[u].id \in DOMAIN sentAs =>
           req'[u].id = req[u].id /\ req'[u].conf = req[u].conf
    BY <1>1, <1>3, <1>4, <1>5, <1>6 DEF IdsInv, TablesInv
  <2>2. \A u \in Workers : req[u].id \in DOMAIN sentAs =>
           \/ req[u].left = {}
           \/ req'[u].id = req[u].id /\ req'[u].left = req[u].left
    BY <1>1, <1>3, <1>4, <1>5, <1>6 DEF IdsInv, TablesInv
  <2> QED BY <1>1, <1>3, <1>4, <1>5, <1>6, <2>1, <2>2, StayRecorded DEF tables
<1>16. AloneInv'
  BY <1>1, <1>3, <1>4, <1>5, <1>6 DEF AloneInv, Writers, disk
<1>17. RestoreInv'
  BY <1>1, <1>3, <1>4, <1>5, <1>6 DEF RestoreInv, tables
<1>18. PureInv'
  BY <1>1, <1>3, <1>4, <1>5, <1>6 DEF PureInv, AloneInv, Writers, disk
<1>19. ExpectInv'
  BY <1>1, <1>3, <1>4, <1>5, <1>6 DEF ExpectInv, Writing, disk
<1> QED BY <1>11, <1>12, <1>13, <1>14, <1>15, <1>16, <1>17, <1>18, <1>19

LEMMA RestoreDoneStep ==
    ASSUME PublishAssumption, IInv, NEW t \in Workers, RestoreDone(t)
    PROVE  IInv'
<1> DEFINE r == Idle
<1> USE DEF IInv
<1>1. /\ req[t] \in Requests /\ req[t].conf \in Confs /\ req[t].id \in Ids
      /\ requests \in Nat
      /\ DOMAIN req[t].conf.subs \subseteq Names
      /\ req[t].left \subseteq DOMAIN req[t].conf.subs
  BY RequestIs
<1>2. r \in Requests
  BY IdleIs
<1>3. /\ req' \in [Workers -> Requests]
      /\ req'[t] = r
      /\ \A u \in Workers \ {t} : req'[u] = req[u]
  <2> HIDE DEF r
  <2> QED BY <1>2, GotoIs DEF RestoreDone, r
<1>4. /\ req[t].pc = "restoreSubs" /\ req[t].left = {}
      /\ r.pc = "idle" /\ r.id = 0 /\ r.left = {} /\ r.conf = NoConf
      /\ r.bak = 0 /\ r.alone = FALSE
  BY IdleIs DEF RestoreDone
<1>5. /\ pure' = req[t].alone
      /\ expect' = IF req[t].alone THEN sentAs[req[t].bak] ELSE NoConf
      /\ UNCHANGED <<live, nginx, tables, counters>>
  BY DEF RestoreDone
<1>6. /\ req[t].bak \in DOMAIN sentAs /\ sentAs[req[t].bak] \in Confs
      /\ req[t].alone \in BOOLEAN
  BY <1>1, <1>4 DEF IdsInv, TablesInv, Requests
<1> HIDE DEF r
<1>11. FilesInv'
  BY <1>5, <1>6, IdleIs DEF FilesInv, nginx, counters
<1>12. TablesInv'
  BY <1>1, <1>3, <1>4, <1>5, <1>6 DEF TablesInv, tables, counters
<1>13. RequestsInv'
  BY <1>1, <1>3, <1>4, <1>5, <1>6 DEF RequestsInv, counters
<1>14. IdsInv'
  BY <1>1, <1>3, <1>4, <1>5, <1>6 DEF IdsInv, tables, TablesInv
<1>15. BackupsInv'
  <2>1. \A u \in Workers : req'[u].id \in DOMAIN sentAs =>
           req'[u].id = req[u].id /\ req'[u].conf = req[u].conf
    BY <1>1, <1>3, <1>4, <1>5, <1>6 DEF IdsInv, TablesInv
  <2>2. \A u \in Workers : req[u].id \in DOMAIN sentAs =>
           \/ req[u].left = {}
           \/ req'[u].id = req[u].id /\ req'[u].left = req[u].left
    BY <1>1, <1>3, <1>4, <1>5, <1>6 DEF IdsInv, TablesInv
  <2> QED BY <1>1, <1>3, <1>4, <1>5, <1>6, <2>1, <2>2, StayRecorded DEF tables
<1>16. AloneInv'
  BY <1>1, <1>3, <1>4, <1>5, <1>6 DEF AloneInv, Writers, disk
<1>17. RestoreInv'
  BY <1>1, <1>3, <1>4, <1>5, <1>6 DEF RestoreInv, tables
<1>18. PureInv'
  <2> SUFFICES ASSUME req[t].alone
               PROVE  PureInv'
    BY <1>5 DEF PureInv
  <2>1. /\ Writers = {t} /\ live.main = File(req[t].conf.main, req[t].id)
        /\ \A n \in DOMAIN live.subs : live.subs[n].by = req[t].id
    BY <1>4 DEF AloneInv, Writers
  <2>2. Writers' = {}
    BY <1>3, <1>4, <2>1 DEF Writers
  <2> QED BY <1>5, <2>1, <2>2 DEF PureInv, File
<1>19. ExpectInv'
  <2> SUFFICES ASSUME expect' # NoConf
               PROVE  ExpectInv'
    BY DEF ExpectInv
  <2>1. req[t].alone /\ expect' = sentAs[req[t].bak]
    BY <1>5
  <2>2. expect' = req[t].conf
    BY <1>4, <1>6, <2>1 DEF RestoreInv
  <2>3. /\ Writers = {t} /\ live.main = File(req[t].conf.main, req[t].id)
        /\ DOMAIN live.subs = DOMAIN req[t].conf.subs
        /\ \A n \in DOMAIN live.subs :
              live.subs[n].c = req[t].conf.subs[n]
    BY <1>4, <2>1 DEF AloneInv, Writers
  <2>4. Contained(live) = req[t].conf
    <3>1. live.main.c = req[t].conf.main
      BY <2>3 DEF File
    <3> QED BY <1>1, <2>3, <3>1, ContainedIs, SameConf DEF FilesInv
  <2>5. Contained(live)' = expect'
    BY <1>5, <2>2, <2>4 DEF Contained
  <2>6. \A u \in Workers : req'[u].pc \notin Writing
    BY <1>3, <1>4, <2>3 DEF Writers, Writing
  <2> QED BY <2>5, <2>6 DEF ExpectInv
<1> QED BY <1>11, <1>12, <1>13, <1>14, <1>15, <1>16, <1>17, <1>18, <1>19

LEMMA WriteSubStep ==
    ASSUME PublishAssumption, IInv, NEW t \in Workers, WriteSub(t)
    PROVE  IInv'
<1> DEFINE n == First(req[t].left)
<1> DEFINE r == [req[t] EXCEPT !.left = @ \ {n}]
<1> USE DEF IInv
<1>1. /\ req[t] \in Requests /\ req[t].conf \in Confs /\ req[t].id \in Ids
      /\ requests \in Nat
      /\ DOMAIN req[t].conf.subs \subseteq Names
      /\ req[t].left \subseteq DOMAIN req[t].conf.subs
  BY RequestIs
<1>2. r \in Requests
  BY <1>1 DEF Requests, Pcs
<1>3. /\ req' \in [Workers -> Requests]
      /\ req'[t] = r
      /\ \A u \in Workers \ {t} : req'[u] = req[u]
  <2> HIDE DEF r
  <2> QED BY <1>2, GotoIs DEF WriteSub, r
<1>4. /\ req[t].pc \in {"subs", "restoreSubs"}
      /\ r.pc = req[t].pc /\ r.left = req[t].left \ {n}
      /\ r.conf = req[t].conf /\ r.id = req[t].id
      /\ r.bak = req[t].bak /\ r.alone = req[t].alone
  BY <1>1 DEF Requests, WriteSub
<1>5. /\ live' = [live EXCEPT !.subs =
                   Put(@, n, File(req[t].conf.subs[n], req[t].id))]
      /\ UNCHANGED <<expect, pure, nginx, tables, counters>>
  BY DEF WriteSub
<1>6. n \in req[t].left
  BY <1>1, FirstIn DEF WriteSub
<1>7. /\ live' \in Live /\ live'.main = live.main
      /\ DOMAIN live'.subs = DOMAIN live.subs \cup {n}
      /\ live'.subs[n].c = req[t].conf.subs[n]
      /\ live'.subs[n].by = req[t].id
      /\ \A m \in DOMAIN live.subs \ {n} : live'.subs[m] = live.subs[m]
  <2> DEFINE x == File(req[t].conf.subs[n], req[t].id)
             C == [c : Contents, by : Ids]
  <2>1. n \in Names /\ req[t].conf.subs[n] \in Contents
    BY <1>1, <1>6, RequestIs, FilesOfIs
  <2>2. x \in C /\ x.c = req[t].conf.subs[n] /\ x.by = req[t].id
    BY <1>1, <2>1 DEF File
  <2>3. live.subs \in FilesOf(C) /\ live \in Live
    BY DEF FilesInv, Live
  <2>4. /\ live' \in Live /\ live'.main = live.main
        /\ live'.subs = Put(live.subs, n, x)
    <3> HIDE DEF n, x
    <3>1. Put(live.subs, n, x) \in FilesOf(C)
      BY <2>1, <2>2, <2>3, PutIs
    <3>2. live' = [live EXCEPT !.subs = Put(live.subs, n, x)]
      BY <1>5 DEF n, x
    <3> QED BY <2>3, <3>1, <3>2 DEF Live
  <2> HIDE DEF n, x, C
  <2>5. /\ DOMAIN live'.subs = DOMAIN live.subs \cup {n}
        /\ live'.subs[n] = x
        /\ \A m \in DOMAIN live.subs \ {n} : live'.subs[m] = live.subs[m]
    BY <2>4 DEF Put
  <2> QED BY <2>2, <2>4, <2>5
<1> HIDE DEF n, r
<1>11. FilesInv'
  BY <1>1, <1>3, <1>4, <1>5, <1>6, <1>7 DEF FilesInv, nginx, counters, disk
<1>12. TablesInv'
  BY <1>1, <1>3, <1>4, <1>5, <1>6, <1>7 DEF TablesInv, tables, counters
<1>13. RequestsInv'
  BY <1>1, <1>3, <1>4, <1>5, <1>6, <1>7 DEF RequestsInv, counters
<1>14. IdsInv'
  BY <1>3, <1>4, <1>5 DEF IdsInv, tables
<1>15. BackupsInv'
  <2>1. \A u \in Workers : req'[u].id \in DOMAIN sentAs =>
           req'[u].id = req[u].id /\ req'[u].conf = req[u].conf
    BY <1>1, <1>3, <1>4, <1>5 DEF IdsInv, TablesInv
  <2>2. \A u \in Workers : req[u].id \in DOMAIN sentAs =>
           \/ req[u].left = {}
           \/ req'[u].id = req[u].id /\ req'[u].left = req[u].left
    BY <1>1, <1>3, <1>4, <1>5 DEF IdsInv, TablesInv
  <2> QED BY <1>1, <1>3, <1>4, <1>5, <2>1, <2>2, StayRecorded DEF tables
<1>16. AloneInv'
  <2>1. Writers' = Writers /\ t \in Writers
    BY <1>3, <1>4 DEF Writers
  <2> SUFFICES ASSUME req[t].alone
               PROVE  AloneInv'
    <3>1. \A u \in Writers : u # t => ~req[u].alone
      BY <2>1 DEF AloneInv
    <3>2. \A u \in Workers :
            req'[u].pc = req[u].pc /\ req'[u].alone = req[u].alone
      BY <1>3, <1>4
    <3>3. \A u \in Writers' : req'[u].alone => u = t /\ req[t].alone
      BY <2>1, <3>1, <3>2 DEF Writers
    <3> QED BY <3>3 DEF AloneInv
  <2>2. /\ Writers = {t} /\ live.main = File(req[t].conf.main, req[t].id)
        /\ \A m \in DOMAIN live.subs :
              /\ live.subs[m].by = req[t].id
              /\ live.subs[m].c = req[t].conf.subs[m]
        /\ DOMAIN live.subs = DOMAIN req[t].conf.subs \ req[t].left
    BY <1>4, <2>1 DEF AloneInv
  <2>3. /\ DOMAIN live'.subs = DOMAIN req[t].conf.subs \ r.left
        /\ \A m \in DOMAIN live'.subs :
              /\ live'.subs[m].by = req[t].id
              /\ live'.subs[m].c = req[t].conf.subs[m]
    BY <1>1, <1>4, <1>6, <1>7, <2>2
  <2> QED BY <1>3, <1>4, <1>7, <2>1, <2>2, <2>3 DEF AloneInv
<1>17. RestoreInv'
  BY <1>3, <1>4, <1>5 DEF RestoreInv, tables
<1>18. PureInv'
  <2>1. Writers' = Writers /\ t \in Writers
    BY <1>3, <1>4 DEF Writers
  <2>2. pure => req[t].alone /\ req[t].pc # "main"
    BY <1>4, <2>1 DEF PureInv
  <2>3. pure => live.main = File(req[t].conf.main, req[t].id)
    BY <2>1, <2>2 DEF AloneInv
  <2>4. pure => \A m \in DOMAIN live'.subs : live'.subs[m].by = live'.main.by
    BY <1>7, <2>3 DEF File, PureInv
  <2>5. \A u \in Workers :
          req'[u].pc = req[u].pc /\ req'[u].alone = req[u].alone
    BY <1>3, <1>4
  <2>6. pure => \A u \in Writers : /\ req'[u].alone
                                   /\ req'[u].pc \in {"main", "subs", "bak"}
    BY <2>5 DEF PureInv, Writers
  <2> QED BY <1>5, <2>1, <2>4, <2>6 DEF PureInv
<1>19. ExpectInv'
  BY <1>1, <1>3, <1>4, <1>5, <1>6, <1>7 DEF ExpectInv, Writing, disk
<1> QED BY <1>11, <1>12, <1>13, <1>14, <1>15, <1>16, <1>17, <1>18, <1>19

LEMMA RestorePartsStep ==
    ASSUME PublishAssumption, IInv, NEW t \in Workers, RestoreParts(t)
    PROVE  IInv'
<1> DEFINE parts == Parts(req[t].bak)
<1> DEFINE names == {p.name : p \in parts}
<1> DEFINE subs == [n \in names |-> (CHOOSE p \in parts : p.name = n).c]
<1> DEFINE r == [req[t] EXCEPT !.pc = "restoreSubs", !.left = names,
                               !.conf.subs = subs]
<1> USE DEF IInv
<1>01. /\ names \subseteq Names /\ DOMAIN subs = names
       /\ subs \in FilesOf(Contents)
       /\ \A n \in names : \E p \in parts : p.name = n /\ p.c = subs[n]
  <2>1. \A p \in parts : p \in bakSubs /\ p.bak = req[t].bak /\ p.name \in Names
                         /\ p.c \in Contents
    BY DEF Parts, TablesInv
  <2>2. DOMAIN subs = names /\ subs = [n \in DOMAIN subs |-> subs[n]]
    OBVIOUS
  <2>3. ASSUME NEW n \in names
        PROVE  \E p \in parts : p.name = n /\ p.c = subs[n]
    <3>1. \E p \in parts : p.name = n
      OBVIOUS
    <3> DEFINE q == CHOOSE p \in parts : p.name = n
    <3>2. q \in parts /\ q.name = n
      BY <3>1
    <3>3. subs[n] = q.c
      OBVIOUS
    <3> QED BY <3>2, <3>3
  <2> HIDE DEF subs
  <2>4. names \subseteq Names /\ \A n \in DOMAIN subs : subs[n] \in Contents
    BY <2>1, <2>2, <2>3
  <2>5. subs \in FilesOf(Contents)
    <3> HIDE DEF names
    <3> QED BY <2>2, <2>4, FilesOfIs
  <2> QED BY <2>2, <2>3, <2>4, <2>5
<1>1. /\ req[t] \in Requests /\ req[t].conf \in Confs /\ req[t].id \in Ids
      /\ requests \in Nat
      /\ DOMAIN req[t].conf.subs \subseteq Names
      /\ req[t].left \subseteq DOMAIN req[t].conf.subs
  BY RequestIs
<1>2. r \in Requests
  BY <1>1, <1>01 DEF Requests, Pcs, Confs
<1>3. /\ req' \in [Workers -> Requests]
      /\ req'[t] = r
      /\ \A u \in Workers \ {t} : req'[u] = req[u]
  <2> HIDE DEF r
  <2> QED BY <1>2, GotoIs DEF RestoreParts, r
<1>4. /\ req[t].pc = "restoreParts"
      /\ r.pc = "restoreSubs" /\ r.left = names /\ r.id = req[t].id
      /\ r.bak = req[t].bak /\ r.alone = req[t].alone
      /\ r.conf \in Confs
      /\ r.conf.main = req[t].conf.main /\ r.conf.subs = subs
  BY <1>1, <1>01 DEF Requests, Confs, RestoreParts
<1>5. UNCHANGED <<disk, nginx, tables, counters>>
  BY DEF RestoreParts
<1>6. req[t].bak \in DOMAIN sentAs /\ sentAs[req[t].bak] # NoConf
        /\ req[t].alone
      => r.conf = sentAs[req[t].bak]
  <2> SUFFICES ASSUME req[t].bak \in DOMAIN sentAs, sentAs[req[t].bak] # NoConf,
                      req[t].alone
               PROVE  r.conf = sentAs[req[t].bak]
    OBVIOUS
  <2> DEFINE b == req[t].bak
  <2>1. Recorded(b) /\ sentAs[b] \in Confs
    BY DEF BackupsInv, TablesInv
  <2>2. \A u \in Workers : req[u].id # b
    <3>1. Writers = {t}
      BY <1>4 DEF AloneInv, Writers
    <3> QED BY <1>4, <3>1 DEF IdsInv, Writers
  <2>3. r.conf.main = sentAs[b].main
    BY <1>4 DEF RestoreInv
  <2>4. \A p \in parts : p.name \in DOMAIN sentAs[b].subs
                         /\ p.c = sentAs[b].subs[p.name]
    BY <2>1 DEF Recorded, Parts
  <2>5. \A n \in DOMAIN sentAs[b].subs : \E p \in parts : p.name = n
    BY <2>1, <2>2 DEF Recorded, Parts
  <2>6. names = DOMAIN sentAs[b].subs
    BY <2>4, <2>5
  <2>7. \A n \in names : subs[n] = sentAs[b].subs[n]
    BY <1>01, <2>4
  <2> HIDE DEF names, subs, parts, r
  <2> QED BY <1>01, <1>4, <2>1, <2>3, <2>6, <2>7, SameConf
<1> HIDE DEF parts, names, subs, r
<1>11. FilesInv'
  BY <1>01, <1>1, <1>3, <1>4, <1>5, <1>6 DEF FilesInv, nginx, counters, disk
<1>12. TablesInv'
  BY <1>01, <1>1, <1>3, <1>4, <1>5, <1>6 DEF TablesInv, tables, counters
<1>13. RequestsInv'
  BY <1>01, <1>1, <1>3, <1>4, <1>5, <1>6 DEF RequestsInv, counters
<1>14. IdsInv'
  BY <1>01, <1>1, <1>3, <1>4, <1>5, <1>6 DEF IdsInv, tables, TablesInv
<1>15. BackupsInv'
  <2>1. \A u \in Workers : req'[u].id \in DOMAIN sentAs =>
           req'[u].id = req[u].id /\ req'[u].conf = req[u].conf
    BY <1>3, <1>4, <1>5 DEF IdsInv, TablesInv
  <2>2. \A u \in Workers : req[u].id \in DOMAIN sentAs =>
           \/ req[u].left = {}
           \/ req'[u].id = req[u].id /\ req'[u].left = req[u].left
    BY <1>3, <1>4, <1>5 DEF IdsInv, TablesInv
  <2> QED BY <1>3, <1>4, <1>5, <2>1, <2>2, StayRecorded DEF tables
<1>16. AloneInv'
  BY <1>01, <1>1, <1>3, <1>4, <1>5, <1>6 DEF AloneInv, Writers, disk
<1>17. RestoreInv'
  BY <1>01, <1>1, <1>3, <1>4, <1>5, <1>6 DEF RestoreInv, tables
<1>18. PureInv'
  BY <1>01, <1>1, <1>3, <1>4, <1>5, <1>6 DEF PureInv, AloneInv, Writers, disk
<1>19. ExpectInv'
  BY <1>01, <1>1, <1>3, <1>4, <1>5, <1>6 DEF ExpectInv, Writing, disk
<1> QED BY <1>11, <1>12, <1>13, <1>14, <1>15, <1>16, <1>17, <1>18, <1>19

LEMMA InsertBakStep ==
    ASSUME PublishAssumption, IInv, NEW t \in Workers, InsertBak(t)
    PROVE  IInv'
<1> DEFINE i == req[t].id
<1> DEFINE r == [req[t] EXCEPT !.pc = "bak", !.left = DOMAIN req[t].conf.subs]
<1> USE DEF IInv
<1>1. /\ req[t] \in Requests /\ req[t].conf \in Confs /\ req[t].id \in Ids
      /\ requests \in Nat
      /\ DOMAIN req[t].conf.subs \subseteq Names
      /\ req[t].left \subseteq DOMAIN req[t].conf.subs
  BY RequestIs
<1>2. r \in Requests
  BY <1>1 DEF Requests, Pcs
<1>3. /\ req' \in [Workers -> Requests]
      /\ req'[t] = r
      /\ \A u \in Workers \ {t} : req'[u] = req[u]
  <2> HIDE DEF r
  <2> QED BY <1>2, GotoIs DEF InsertBak, r
<1>4. /\ req[t].pc = "subs" /\ req[t].left = {}
      /\ r.pc = "bak" /\ r.left = DOMAIN req[t].conf.subs
      /\ r.conf = req[t].conf /\ r.id = req[t].id
      /\ r.bak = req[t].bak /\ r.alone = req[t].alone
  BY <1>1 DEF Requests, InsertBak
<1>5. /\ expect' = IF req[t].alone THEN req[t].conf ELSE NoConf
      /\ UNCHANGED <<live, pure, nginx, bakSubs, counters>>
  BY DEF InsertBak
<1>6. /\ DOMAIN baks' = DOMAIN baks \cup {i}
      /\ baks'[i] = req[t].conf.main
      /\ \A b \in DOMAIN baks \ {i} : baks'[b] = baks[b]
  BY DEF InsertBak, Put
<1>7. /\ DOMAIN sentAs' = DOMAIN sentAs \cup {i}
      /\ sentAs'[i] = req[t].conf
      /\ \A b \in DOMAIN sentAs \ {i} : sentAs'[b] = sentAs[b]
  BY DEF InsertBak, Put
<1>8. /\ i \in 1..requests /\ i # 0 /\ i \notin DOMAIN sentAs
      /\ req[t].conf.main \in Mains /\ req[t].conf.main # 0
  <2>1. i \in Nat /\ i <= requests /\ i # 0 /\ req[t].conf.main # 0
    BY <1>1, <1>4 DEF RequestsInv, Ids
  <2> QED BY <1>1, <1>4, <2>1, RequestIs DEF IdsInv
<1> HIDE DEF i, r
<1>11. FilesInv'
  BY <1>1, <1>5, IdleIs DEF FilesInv, nginx, counters
<1>12. TablesInv'
  <2>1. /\ DOMAIN baks' \subseteq DOMAIN sentAs'
        /\ DOMAIN sentAs' \subseteq 1..requests
    BY <1>6, <1>7, <1>8 DEF TablesInv
  <2>2. \A b \in DOMAIN baks' : baks'[b] \in Mains
    BY <1>6, <1>8 DEF TablesInv
  <2>3. \A b \in DOMAIN sentAs' : sentAs'[b] \in Confs
    BY <1>1, <1>7 DEF TablesInv
  <2>4. bakSubs' \subseteq [bak : DOMAIN sentAs', name : Names, c : Contents]
    BY <1>5, <1>7 DEF TablesInv
  <2> QED BY <1>5, <2>1, <2>2, <2>3, <2>4 DEF TablesInv, counters
<1>13. RequestsInv'
  BY <1>1, <1>3, <1>4, <1>5, <1>6, <1>7, <1>8 DEF RequestsInv, counters
<1>14. IdsInv'
  <2>1. \A u, w \in Workers :
           u # w => req'[u].id = 0 \/ req'[u].id # req'[w].id
    BY <1>3, <1>4 DEF IdsInv
  <2>2. \A u \in Workers : req'[u].id \in DOMAIN sentAs' <=> req'[u].pc = "bak"
    <3>1. \A u \in Workers \ {t} : req[u].id # i
      BY <1>8 DEF IdsInv, i
    <3> QED BY <1>3, <1>4, <1>7, <3>1 DEF IdsInv, i
  <2> QED BY <1>3, <1>4, <1>7, <2>1, <2>2 DEF IdsInv
<1>15. BackupsInv'
  <2> SUFFICES ASSUME NEW b \in DOMAIN sentAs', sentAs'[b] # NoConf
               PROVE  Recorded(b)'
    BY DEF BackupsInv
  <2>1. CASE b # i
    <3>1. \A u \in Workers :
             /\ req'[u].id = b => req[u].id = b /\ req'[u].conf = req[u].conf
             /\ req[u].id = b => req'[u].id = b /\ req'[u].left = req[u].left
      BY <1>3, <1>4, <2>1 DEF i
    <3>2. b \in DOMAIN sentAs /\ sentAs'[b] = sentAs[b] /\ bakSubs' = bakSubs
      BY <1>5, <1>7, <2>1
    <3> QED BY <1>6, <2>1, <3>1, <3>2, StaysRecorded
  <2>2. CASE b = i
    <3>1. \A p \in bakSubs' : p.bak # b
      BY <1>5, <1>8, <2>2 DEF TablesInv
    <3>2. \A u \in Workers : req'[u].id = b => u = t
      BY <1>3, <1>4, <1>8, <2>2 DEF IdsInv, i
    <3>3. req'[t].id = b /\ req'[t].conf = sentAs'[b]
          /\ req'[t].left = DOMAIN sentAs'[b].subs
      BY <1>3, <1>4, <1>7, <2>2 DEF i
    <3> QED BY <1>6, <1>7, <1>8, <2>2, <3>1, <3>2, <3>3 DEF Recorded
  <2> QED BY <2>1, <2>2
<1>16. AloneInv'
  BY <1>1, <1>3, <1>4, <1>5 DEF AloneInv, Writers
<1>17. RestoreInv'
  BY <1>3, <1>4, <1>7, <1>8 DEF RestoreInv, IdsInv
<1>18. PureInv'
  BY <1>1, <1>3, <1>4, <1>5 DEF PureInv, Writers
<1>19. ExpectInv'
  <2> SUFFICES ASSUME expect' # NoConf
               PROVE  ExpectInv'
    BY DEF ExpectInv
  <2>1. req[t].alone /\ expect' = req[t].conf
    BY <1>5
  <2>2. /\ Writers = {t} /\ live.main = File(req[t].conf.main, req[t].id)
        /\ DOMAIN live.subs = DOMAIN req[t].conf.subs
        /\ \A n \in DOMAIN live.subs :
              live.subs[n].c = req[t].conf.subs[n]
    BY <1>4, <2>1 DEF AloneInv, Writers
  <2>3. Contained(live) = req[t].conf
    <3>1. live.main.c = req[t].conf.main
      BY <2>2 DEF File
    <3> QED BY <1>1, <2>2, <3>1, ContainedIs, SameConf DEF FilesInv
  <2>4. Contained(live)' = expect'
    BY <1>5, <2>1, <2>3 DEF Contained
  <2>5. \A u \in Workers : req'[u].pc \notin Writing
    BY <1>3, <1>4, <2>2 DEF Writers, Writing
  <2> QED BY <2>4, <2>5 DEF ExpectInv
<1> QED BY <1>11, <1>12, <1>13, <1>14, <1>15, <1>16, <1>17, <1>18, <1>19

LEMMA DelBakStep ==
    ASSUME PublishAssumption, IInv, NEW t \in Workers, NEW b \in DOMAIN baks,
           DelBak(t, b)
    PROVE  IInv'
<1> DEFINE r == [pc |-> "delSubs", conf |-> NoConf, left |-> {},
                id |-> requests + 1, bak |-> b, alone |-> FALSE]
<1> USE DEF IInv
<1>1. /\ requests \in Nat /\ requests + 1 \in Ids /\ 0 \in Ids
      /\ requests' = requests + 1 /\ req[t] = Idle
  BY IdleIs, RequestIs DEF DelBak, Begin, Count, PublishAssumption, Ids,
     FilesInv
<1>2. /\ NoConf \in Confs
      /\ b \in Ids /\ b \in DOMAIN sentAs
  <2>1. b \in DOMAIN sentAs /\ b \in 1..requests
    BY DEF TablesInv
  <2>2. b \in Ids
    BY <1>1, <2>1 DEF Ids, FilesInv, PublishAssumption
  <2> QED BY <2>1, <2>2, IdleIs
<1>3. r \in Requests
  BY <1>1, <1>2, EmptyIs DEF Requests, Pcs, Ids, Confs
<1>4. /\ req' \in [Workers -> Requests]
      /\ req'[t] = r
      /\ \A u \in Workers \ {t} : req'[u] = req[u]
  BY <1>3, IdleIs DEF DelBak, Begin, Idle, RequestsInv
<1>5. /\ req[t].pc = "idle" /\ req[t].left = {} /\ req[t].id = 0
      /\ r.pc = "delSubs" /\ r.conf = NoConf /\ r.left = {}
      /\ r.id = requests + 1 /\ r.bak = b /\ r.alone = FALSE
  BY <1>1, IdleIs
<1>6. UNCHANGED <<disk, nginx, bakSubs>>
  BY DEF DelBak, Begin
<1>7. /\ \A u \in Workers :
            req[u].id <= requests + 1 /\ req[u].id # requests + 1
      /\ \A i \in DOMAIN sentAs : i # requests + 1 /\ i # 0
  <2>1. \A u \in Workers : req[u].id \in Nat /\ req[u].id <= requests
    BY RequestIs DEF RequestsInv, Ids
  <2> QED BY <1>1, <2>1 DEF TablesInv
<1>8. /\ DOMAIN baks' = DOMAIN baks \ {b}
      /\ \A i \in DOMAIN baks \ {b} : baks'[i] = baks[i]
  BY DEF DelBak
<1>9. /\ DOMAIN sentAs' = DOMAIN sentAs
      /\ \A i \in DOMAIN sentAs :
            sentAs'[i] = IF i = b THEN NoConf ELSE sentAs[i]
  BY DEF DelBak, Doubt
<1> HIDE DEF r
<1>11. FilesInv'
  BY <1>1, <1>6 DEF FilesInv, disk, nginx
<1>12. TablesInv'
  <2>1. /\ DOMAIN baks' \subseteq DOMAIN sentAs'
        /\ DOMAIN sentAs' \subseteq 1..requests'
    BY <1>1, <1>8, <1>9 DEF TablesInv
  <2> QED BY <1>2, <1>6, <1>8, <1>9, <2>1 DEF TablesInv
<1>13. RequestsInv'
  BY <1>1, <1>2, <1>4, <1>5, <1>6, <1>7 DEF RequestsInv
<1>14. IdsInv'
  BY <1>1, <1>2, <1>4, <1>5, <1>7, <1>9 DEF IdsInv
<1>15. BackupsInv'
  <2> SUFFICES ASSUME NEW i \in DOMAIN sentAs', sentAs'[i] # NoConf
               PROVE  Recorded(i)'
    BY DEF BackupsInv
  <2>1. i \in DOMAIN sentAs /\ sentAs'[i] = sentAs[i] /\ i # b
    BY <1>9
  <2>2. \A u \in Workers :
           /\ req'[u].id = i => req[u].id = i /\ req'[u].conf = req[u].conf
           /\ req[u].id = i => req'[u].id = i /\ req'[u].left = req[u].left
    BY <1>4, <1>5, <1>7, <2>1
  <2> QED BY <1>6, <1>8, <2>1, <2>2, StaysRecorded
<1>16. AloneInv'
  BY <1>1, <1>4, <1>5, <1>6, <1>7, <1>8, <1>9 DEF AloneInv, Writers, disk
<1>17. RestoreInv'
  BY <1>2, <1>4, <1>5, <1>9 DEF RestoreInv, IdsInv
<1>18. PureInv'
  BY <1>1, <1>4, <1>5, <1>6, <1>7, <1>8, <1>9 DEF PureInv, AloneInv, Writers,
     disk
<1>19. ExpectInv'
  BY <1>1, <1>4, <1>5, <1>6, <1>7, <1>8, <1>9 DEF ExpectInv, Writing, disk
<1> QED BY <1>11, <1>12, <1>13, <1>14, <1>15, <1>16, <1>17, <1>18, <1>19

LEMMA DelAllBaksStep ==
    ASSUME PublishAssumption, IInv, NEW t \in Workers, DelAllBaks(t)
    PROVE  IInv'
<1> DEFINE r == [pc |-> "delAllSubs", conf |-> NoConf, left |-> {},
                id |-> requests + 1, bak |-> 0, alone |-> FALSE]
<1> USE DEF IInv
<1>1. /\ requests \in Nat /\ requests + 1 \in Ids /\ 0 \in Ids
      /\ requests' = requests + 1 /\ req[t] = Idle
  BY IdleIs, RequestIs DEF DelAllBaks, Begin, Count, PublishAssumption, Ids,
     FilesInv
<1>2. /\ NoConf \in Confs
  BY IdleIs
<1>3. r \in Requests
  BY <1>1, <1>2, EmptyIs DEF Requests, Pcs, Ids, Confs
<1>4. /\ req' \in [Workers -> Requests]
      /\ req'[t] = r
      /\ \A u \in Workers \ {t} : req'[u] = req[u]
  BY <1>3, IdleIs DEF DelAllBaks, Begin, Idle, RequestsInv
<1>5. /\ req[t].pc = "idle" /\ req[t].left = {} /\ req[t].id = 0
      /\ r.pc = "delAllSubs" /\ r.conf = NoConf /\ r.left = {}
      /\ r.id = requests + 1 /\ r.bak = 0 /\ r.alone = FALSE
  BY <1>1, IdleIs
<1>6. UNCHANGED <<disk, nginx, bakSubs>>
  BY DEF DelAllBaks, Begin
<1>7. /\ \A u \in Workers :
            req[u].id <= requests + 1 /\ req[u].id # requests + 1
      /\ \A i \in DOMAIN sentAs : i # requests + 1 /\ i # 0
  <2>1. \A u \in Workers : req[u].id \in Nat /\ req[u].id <= requests
    BY RequestIs DEF RequestsInv, Ids
  <2> QED BY <1>1, <2>1 DEF TablesInv
<1>8. DOMAIN baks' = {}
  BY DEF DelAllBaks
<1>9. /\ DOMAIN sentAs' = DOMAIN sentAs
      /\ \A i \in DOMAIN sentAs : sentAs'[i] = NoConf
  BY DEF DelAllBaks, Doubt
<1> HIDE DEF r
<1>11. FilesInv'
  BY <1>1, <1>6 DEF FilesInv, disk, nginx
<1>12. TablesInv'
  <2>1. /\ DOMAIN baks' \subseteq DOMAIN sentAs'
        /\ DOMAIN sentAs' \subseteq 1..requests'
    BY <1>1, <1>8, <1>9 DEF TablesInv
  <2> QED BY <1>2, <1>6, <1>8, <1>9, <2>1 DEF TablesInv
<1>13. RequestsInv'
  BY <1>1, <1>2, <1>4, <1>5, <1>6, <1>7 DEF RequestsInv
<1>14. IdsInv'
  BY <1>1, <1>2, <1>4, <1>5, <1>7, <1>9 DEF IdsInv
<1>15. BackupsInv'
  BY <1>9 DEF BackupsInv
<1>16. AloneInv'
  BY <1>1, <1>4, <1>5, <1>6, <1>7, <1>8, <1>9 DEF AloneInv, Writers, disk
<1>17. RestoreInv'
  BY <1>4, <1>5, <1>9 DEF RestoreInv, IdsInv
<1>18. PureInv'
  BY <1>1, <1>4, <1>5, <1>6, <1>7, <1>8, <1>9 DEF PureInv, AloneInv, Writers,
     disk
<1>19. ExpectInv'
  BY <1>1, <1>4, <1>5, <1>6, <1>7, <1>8, <1>9 DEF ExpectInv, Writing, disk
<1> QED BY <1>11, <1>12, <1>13, <1>14, <1>15, <1>16, <1>17, <1>18, <1>19

LEMMA DelBakSubsStep ==
    ASSUME PublishAssumption, IInv, NEW t \in Workers, DelBakSubs(t)
    PROVE  IInv'
<1> DEFINE r == Idle
<1> USE DEF IInv
<1>1. /\ req[t] \in Requests /\ req[t].conf \in Confs /\ req[t].id \in Ids
      /\ requests \in Nat
      /\ DOMAIN req[t].conf.subs \subseteq Names
      /\ req[t].left \subseteq DOMAIN req[t].conf.subs
  BY RequestIs
<1>2. r \in Requests
  BY IdleIs
<1>3. /\ req' \in [Workers -> Requests]
      /\ req'[t] = r
      /\ \A u \in Workers \ {t} : req'[u] = req[u]
  <2> HIDE DEF r
  <2> QED BY <1>2, GotoIs DEF DelBakSubs, r
<1>4. /\ req[t].pc \in {"delSubs", "delAllSubs"}
      /\ r.pc = "idle" /\ r.id = 0 /\ r.left = {} /\ r.conf = NoConf
      /\ r.bak = 0 /\ r.alone = FALSE
  BY IdleIs DEF DelBakSubs
<1>5. UNCHANGED <<disk, nginx, baks, counters>>
  BY DEF DelBakSubs
<1>6. /\ DOMAIN sentAs' = DOMAIN sentAs
      /\ bakSubs' \subseteq bakSubs
      /\ \A b \in DOMAIN sentAs : sentAs'[b] \in {sentAs[b], NoConf}
      /\ \A b \in DOMAIN sentAs : sentAs'[b] # NoConf =>
            \A p \in bakSubs : p.bak = b => p \in bakSubs' 
  <2>1. bakSubs' = bakSubs \ DeletedParts(t)
    BY DEF DelBakSubs
  <2>2. CASE req[t].pc = "delSubs"
    <3>1. sentAs' = sentAs /\ DeletedParts(t) = Parts(req[t].bak)
      BY <2>2 DEF DelBakSubs, DeletedParts
    <3>2. req[t].bak \in DOMAIN sentAs /\ sentAs[req[t].bak] = NoConf
      BY <2>2 DEF IdsInv, RestoreInv
    <3> QED BY <2>1, <3>1, <3>2 DEF Parts
  <2>3. CASE req[t].pc # "delSubs"
    BY <2>1, <2>3 DEF DelBakSubs, Doubt
  <2> QED BY <2>2, <2>3
<1>7. NoConf \in Confs
  BY IdleIs
<1> HIDE DEF r
<1>11. FilesInv'
  BY <1>1, <1>3, <1>4, <1>5, <1>6, <1>7 DEF FilesInv, nginx, counters, disk
<1>12. TablesInv'
  BY <1>1, <1>5, <1>6, <1>7 DEF TablesInv, counters
<1>13. RequestsInv'
  BY <1>1, <1>3, <1>4, <1>5, <1>6, <1>7 DEF RequestsInv, counters
<1>14. IdsInv'
  BY <1>1, <1>3, <1>4, <1>5, <1>6, <1>7 DEF IdsInv, tables, TablesInv
<1>15. BackupsInv'
  <2> SUFFICES ASSUME NEW b \in DOMAIN sentAs', sentAs'[b] # NoConf
               PROVE  Recorded(b)'
    BY DEF BackupsInv
  <2>1. b \in DOMAIN sentAs /\ sentAs[b] # NoConf /\ sentAs'[b] = sentAs[b]
        /\ b # 0 /\ b \in DOMAIN baks
    BY <1>3, <1>4, <1>5, <1>6 DEF tables, TablesInv, BackupsInv, Recorded
  <2>2. baks'[b] = baks[b] /\ b \in DOMAIN baks'
    BY <2>1, <1>3, <1>4, <1>5, <1>6 DEF tables
  <2>3. \A p \in bakSubs \cup bakSubs' :
           p.bak = b => p \in bakSubs /\ p \in bakSubs'
    BY <2>1, <1>3, <1>4, <1>5, <1>6 DEF tables
  <2>4. \A u \in Workers :
           req'[u].id = b => req[u].id = b /\ req'[u].conf = req[u].conf
    BY <2>1, <1>3, <1>4, <1>5, <1>6
  <2>5. \A u \in Workers : req[u].id = b =>
           \/ req[u].left = {}
           \/ req'[u].id = b /\ req'[u].left = req[u].left
    BY <2>1, <1>3, <1>4, <1>5, <1>6 DEF IdsInv
  <2> QED BY <2>1, <2>2, <2>3, <2>4, <2>5, StaysRecorded
<1>16. AloneInv'
  BY <1>1, <1>3, <1>4, <1>5, <1>6, <1>7 DEF AloneInv, Writers, disk
<1>17. RestoreInv'
  BY <1>3, <1>4, <1>6 DEF RestoreInv, IdsInv
<1>18. PureInv'
  BY <1>1, <1>3, <1>4, <1>5, <1>6, <1>7 DEF PureInv, AloneInv, Writers, disk
<1>19. ExpectInv'
  BY <1>1, <1>3, <1>4, <1>5, <1>6, <1>7 DEF ExpectInv, Writing, disk
<1> QED BY <1>11, <1>12, <1>13, <1>14, <1>15, <1>16, <1>17, <1>18, <1>19

LEMMA ReloadStep ==
    ASSUME PublishAssumption, IInv, Reload
    PROVE  IInv' /\ RunsWhole'
<1>1. /\ SubsOf[live.main.c] \subseteq DOMAIN live.subs
      /\ running' = [live EXCEPT !.subs =
                       [n \in SubsOf[live.main.c] |-> live.subs[n]]]
      /\ ranPure' = pure
      /\ UNCHANGED <<disk, tables, req, counters>>
  BY DEF Reload, Loadable
<1> DEFINE C == [c : Contents, by : Ids]
           g == [n \in SubsOf[live.main.c] |-> live.subs[n]]
<1>2. live \in Live /\ live.subs \in FilesOf(C)
  BY DEF IInv, FilesInv, Live
<1>3. /\ DOMAIN g = SubsOf[live.main.c] /\ g = [n \in DOMAIN g |-> g[n]]
      /\ \A n \in DOMAIN g : g[n] = live.subs[n]
  OBVIOUS
<1>4. running' = [live EXCEPT !.subs = g]
  BY <1>1
<1> HIDE DEF g
<1>5. /\ DOMAIN live.subs \subseteq Names
      /\ \A n \in DOMAIN live.subs : live.subs[n] \in C
  <2> HIDE DEF C
  <2> QED BY <1>2, FilesOfIs
<1>6. g \in FilesOf(C)
  <2>1. DOMAIN g \subseteq Names /\ \A n \in DOMAIN g : g[n] \in C
    BY <1>1, <1>3, <1>5
  <2> HIDE DEF C
  <2> QED BY <1>3, <2>1, FilesOfIs
<1>7. running' \in Live /\ running'.main = live.main /\ running'.subs = g
  BY <1>2, <1>4, <1>6 DEF Live
<1>8. IInv'
  <2>1. FilesInv'
    BY <1>1, <1>7 DEF IInv, FilesInv, disk, counters
  <2>2. /\ TablesInv' /\ RequestsInv' /\ IdsInv' /\ BackupsInv'
        /\ RestoreInv'
    BY <1>1 DEF IInv, TablesInv, RequestsInv, IdsInv, BackupsInv, Recorded,
                RestoreInv, tables, counters
  <2>3. AloneInv' /\ PureInv' /\ ExpectInv'
    BY <1>1 DEF IInv, AloneInv, PureInv, ExpectInv, Writers, Contained, disk
  <2> QED BY <2>1, <2>2, <2>3 DEF IInv
<1>9. RunsWhole'
  BY <1>1, <1>3, <1>7 DEF RunsWhole, IInv, PureInv
<1> QED BY <1>8, <1>9

LEMMA StutterStep ==
    ASSUME IInv, UNCHANGED vars
    PROVE  IInv'
<1>1. UNCHANGED <<live, running, expect, pure, ranPure, baks, bakSubs, sentAs,
                  req, requests>>
  BY DEF vars, disk, nginx, tables, counters
<1>2. FilesInv' /\ TablesInv' /\ RequestsInv'
  BY <1>1 DEF IInv, FilesInv, TablesInv, RequestsInv
<1>3. IdsInv' /\ BackupsInv' /\ RestoreInv'
  BY <1>1 DEF IInv, IdsInv, BackupsInv, Recorded, RestoreInv
<1>4. AloneInv' /\ PureInv' /\ ExpectInv'
  BY <1>1 DEF IInv, AloneInv, PureInv, ExpectInv, Writers, Contained
<1> QED BY <1>2, <1>3, <1>4 DEF IInv

\* No thread makes nginx load anything.
LEMMA ThreadStep ==
    ASSUME PublishAssumption, IInv, NEW t \in Workers,
           Publish(t) \/ Backups(t)
    PROVE  IInv' /\ UNCHANGED nginx
<1>1. CASE \E v, w \in Versions : Replace(t, v, w)
  BY <1>1, ReplaceStep DEF Replace
<1>2. CASE Clear(t)
  BY <1>2, ClearStep DEF Clear
<1>3. CASE WriteMain(t)
  BY <1>3, WriteMainStep DEF WriteMain
<1>4. CASE WriteSub(t)
  BY <1>4, WriteSubStep DEF WriteSub
<1>5. CASE InsertBak(t)
  BY <1>5, InsertBakStep DEF InsertBak
<1>6. CASE InsertBakSub(t)
  BY <1>6, InsertBakSubStep DEF InsertBakSub
<1>7. CASE ReplaceDone(t)
  BY <1>7, ReplaceDoneStep DEF ReplaceDone
<1>8. CASE ReplaceFails(t)
  BY <1>8, ReplaceFailsStep DEF ReplaceFails
<1>9. ASSUME NEW b \in DOMAIN baks, Restore(t, b)
      PROVE  IInv' /\ UNCHANGED nginx
  BY <1>9, RestoreStep DEF Restore
<1>10. ASSUME NEW b \in DOMAIN baks, DelBak(t, b)
       PROVE  IInv' /\ UNCHANGED nginx
  BY <1>10, DelBakStep DEF DelBak
<1>11. CASE RestoreMain(t)
  BY <1>11, RestoreMainStep DEF RestoreMain
<1>12. CASE RestoreClear(t)
  BY <1>12, RestoreClearStep DEF RestoreClear
<1>13. CASE RestoreParts(t)
  BY <1>13, RestorePartsStep DEF RestoreParts
<1>14. CASE RestoreDone(t)
  BY <1>14, RestoreDoneStep DEF RestoreDone
<1>15. CASE RestoreFails(t)
  BY <1>15, RestoreFailsStep DEF RestoreFails
<1>16. CASE DelAllBaks(t)
  BY <1>16, DelAllBaksStep DEF DelAllBaks
<1>17. CASE DelBakSubs(t)
  BY <1>17, DelBakSubsStep DEF DelBakSubs
<1> QED
  BY <1>1, <1>2, <1>3, <1>4, <1>5, <1>6, <1>7, <1>8, <1>9, <1>10, <1>11,
     <1>12, <1>13, <1>14, <1>15, <1>16, <1>17 DEF Publish, Backups

LEMMA NextKeeps ==
    ASSUME PublishAssumption
    PROVE  IInv /\ RunsWhole /\ [Next]_vars => IInv' /\ RunsWhole'
<1> SUFFICES ASSUME IInv, RunsWhole, [Next]_vars
             PROVE  IInv' /\ RunsWhole'
  OBVIOUS
<1>1. ASSUME NEW t \in Workers, Publish(t) \/ Backups(t)
      PROVE  IInv' /\ RunsWhole'
  BY <1>1, ThreadStep DEF RunsWhole, nginx
<1>2. CASE Reload
  BY <1>2, ReloadStep
<1>3. CASE UNCHANGED vars
  BY <1>3, StutterStep DEF RunsWhole, vars, nginx
<1> QED BY <1>1, <1>2, <1>3 DEF Next

LEMMA InitKeeps ==
    ASSUME PublishAssumption
    PROVE  Init => IInv /\ RunsWhole
<1> SUFFICES ASSUME Init
             PROVE  IInv /\ RunsWhole
  OBVIOUS
<1>1. PICK v \in Versions :
         live = Written(Generated(v), 0) /\ expect = Generated(v)
  BY DEF Init
<1>2. /\ running = live /\ baks = <<>> /\ bakSubs = {} /\ sentAs = <<>>
      /\ req = [t \in Workers |-> Idle] /\ requests = 0
      /\ pure = TRUE /\ ranPure = TRUE
  BY DEF Init
<1> DEFINE g == [n \in SubsOf[v] |-> <<v, n>>]
           f == [n \in SubsOf[v] |-> [c |-> g[n], by |-> 0]]
<1>3. SubsOf[v] \subseteq Names /\ v \in Mains /\ v # 0 /\ 0 \in Ids
  BY DEF PublishAssumption, Mains, Ids
<1>4. /\ DOMAIN g = SubsOf[v] /\ g = [n \in DOMAIN g |-> g[n]]
      /\ \A n \in SubsOf[v] : g[n] \in Contents
  BY <1>3 DEF Contents
<1>5. expect = [main |-> v, subs |-> g]
  BY <1>1 DEF Generated
<1>6. /\ DOMAIN f = SubsOf[v] /\ f = [n \in DOMAIN f |-> f[n]]
  OBVIOUS
<1>7. live = [main |-> [c |-> v, by |-> 0], subs |-> f]
  BY <1>1 DEF Generated, Written, File
<1> DEFINE C == [c : Contents, by : Ids]
<1>8. ASSUME NEW n \in SubsOf[v]
      PROVE  f[n].c = g[n] /\ f[n].by = 0 /\ f[n] \in C
  <2>1. f[n] = [c |-> g[n], by |-> 0]
    OBVIOUS
  <2> QED BY <1>3, <1>4, <2>1
<1> HIDE DEF f, g
<1>9. expect \in Confs
  BY <1>3, <1>4, <1>5, FilesOfIs DEF Confs
<1>10. live \in Live
  <2>1. f \in FilesOf(C)
    <3> HIDE DEF C
    <3> QED BY <1>3, <1>6, <1>8, FilesOfIs
  <2> QED BY <1>3, <1>7, <2>1 DEF Live
<1>11. /\ \A n \in DOMAIN live.subs : live.subs[n].by = live.main.by
       /\ Contained(live) = expect
  <2>1. /\ live.main.c = v /\ live.main.by = 0 /\ DOMAIN live.subs = SubsOf[v]
        /\ \A n \in SubsOf[v] :
              live.subs[n].c = g[n] /\ live.subs[n].by = 0
    BY <1>6, <1>7, <1>8
  <2> QED BY <1>4, <1>5, <1>9, <1>10, <2>1, ContainedIs, SameConf
<1>12. \A t \in Workers : req[t] = Idle
  BY <1>2
<1>13. FilesInv
  BY <1>2, <1>3, <1>9, <1>10 DEF FilesInv
<1>14. DOMAIN baks = {} /\ DOMAIN sentAs = {}
  BY <1>2, EmptyIs
<1>15. TablesInv
  BY <1>2, <1>14 DEF TablesInv
<1>16. RequestsInv
  BY <1>2, <1>12, IdleIs DEF RequestsInv
<1>17. IdsInv /\ BackupsInv /\ RestoreInv
  BY <1>12, <1>14, IdleIs DEF IdsInv, BackupsInv, RestoreInv
<1>18. Writers = {}
  BY <1>12, IdleIs DEF Writers
<1>19. AloneInv /\ PureInv /\ ExpectInv
  BY <1>11, <1>12, <1>18, IdleIs DEF AloneInv, PureInv, ExpectInv, Writing
<1>20. RunsWhole
  BY <1>2, <1>11 DEF RunsWhole
<1> QED BY <1>13, <1>15, <1>16, <1>17, <1>19, <1>20 DEF IInv

LEMMA IInvAlways ==
    ASSUME PublishAssumption
    PROVE  Spec => [](IInv /\ RunsWhole)
<1>1. Init => IInv /\ RunsWhole
  BY InitKeeps
<1>2. IInv /\ RunsWhole /\ [Next]_vars => (IInv /\ RunsWhole)'
  BY NextKeeps
<1> QED BY <1>1, <1>2, PTL DEF Spec

-----------------------------------------------------------------------------
(* What the invariant says.                                                *)

LEMMA ConfsAreConf ==
    ASSUME NEW c \in Confs
    PROVE  IsConf(c)
<1>1. c = [main |-> c.main, subs |-> c.subs] /\ c.main \in Mains
      /\ c.subs \in FilesOf(Contents)
  BY DEF Confs
<1> QED BY <1>1, FilesOfIs DEF IsConf, IsSubs, Mains

LEMMA LiveIsFiles ==
    ASSUME NEW f \in Live
    PROVE  IsFiles(f)
<1> DEFINE C == [c : Contents, by : Ids]
<1>1. DOMAIN f = {"main", "subs"} /\ f.main.by \in Ids /\ f.subs \in FilesOf(C)
  BY DEF Live
<1>2. \A n \in DOMAIN f.subs : f.subs[n] \in C
  <2> HIDE DEF C
  <2> QED BY <1>1, FilesOfIs
<1>3. IsConf(Contained(f))
  BY ContainedIs, ConfsAreConf
<1> QED BY <1>1, <1>2, <1>3 DEF IsFiles, Ids

LEMMA InvIsTyped ==
    ASSUME PublishAssumption, IInv
    PROVE  TypeOK
<1>1. IsFiles(live) /\ IsFiles(running)
  BY LiveIsFiles DEF IInv, FilesInv
<1>2. IsConf(expect) /\ {pure, ranPure} \subseteq BOOLEAN
  BY ConfsAreConf DEF IInv, FilesInv
<1>3. DOMAIN sentAs \subseteq 1..MaxRequests
  BY DEF IInv, FilesInv, TablesInv, Ids, PublishAssumption
<1>4. /\ DOMAIN baks \subseteq 1..MaxRequests
      /\ \A b \in DOMAIN baks : baks[b] \in Versions \cup {0}
      /\ \A p \in bakSubs : /\ p.bak \in 1..MaxRequests
                            /\ p.name \in Names /\ p.c \in Contents
  BY <1>3 DEF IInv, TablesInv, Mains
<1>5. \A b \in DOMAIN sentAs : IsConf(sentAs[b])
  BY ConfsAreConf DEF IInv, TablesInv
<1>6. DOMAIN req = Workers
  BY DEF IInv, RequestsInv
<1>7. ASSUME NEW t \in Workers
      PROVE  IsRequest(req[t])
  <2>1. req[t] \in Requests /\ req[t].left \subseteq DOMAIN req[t].conf.subs
    BY RequestIs DEF IInv
  <2>2. IsConf(req[t].conf)
    BY RequestIs, ConfsAreConf DEF IInv
  <2>3. DOMAIN req[t] = DOMAIN Idle
    BY <2>1 DEF Requests, Idle
  <2> QED BY <2>1, <2>2, <2>3 DEF IsRequest, Requests, Ids
<1> QED BY <1>1, <1>2, <1>4, <1>5, <1>6, <1>7 DEF TypeOK

LEMMA InvIsWhole ==
    ASSUME PublishAssumption, IInv
    PROVE  BackupIsWhole
<1> SUFFICES ASSUME NEW b \in DOMAIN baks, sentAs[b] # NoConf,
                    \A t \in Workers : req[t].id # b
             PROVE  /\ baks[b] = sentAs[b].main
                    /\ {<<p.name, p.c>> : p \in Parts(b)}
                         = {<<n, sentAs[b].subs[n]>> :
                              n \in DOMAIN sentAs[b].subs}
  BY DEF BackupIsWhole
<1>1. Recorded(b)
  BY DEF IInv, TablesInv, BackupsInv
<1>2. \A p \in Parts(b) : /\ p.name \in DOMAIN sentAs[b].subs
                          /\ p.c = sentAs[b].subs[p.name]
  BY <1>1 DEF Recorded, Parts
<1>3. \A n \in DOMAIN sentAs[b].subs : \E p \in Parts(b) : p.name = n
  BY <1>1 DEF Recorded, Parts
<1> QED BY <1>1, <1>2, <1>3 DEF Recorded

\* The state of a publish, a restore and a deletion stays well formed.
\* (ConfService.replace, BakController.replace and del)
THEOREM TypeCorrect ==
    ASSUME PublishAssumption
    PROVE  Spec => []TypeOK
<1>1. IInv => TypeOK
  BY InvIsTyped
<1> QED BY <1>1, IInvAlways, PTL

\* However requests and reloads interleave, what nginx runs was written by
\* one request as a whole, unless two wrote at a time or a restore was under
\* way.  (ConfService.replace against ConfController.reload)
THEOREM RunsWholeCorrect ==
    ASSUME PublishAssumption
    PROVE  Spec => []RunsWhole
<1> QED BY IInvAlways, PTL

\* After a publish or restore that nothing disturbed, the files are those
\* that were sent.  (ConfService.replace, BakController.replace)
THEOREM LiveIsExpectedCorrect ==
    ASSUME PublishAssumption
    PROVE  Spec => []LiveIsExpected
<1>1. IInv => LiveIsExpected
  BY DEF IInv, ExpectInv, LiveIsExpected
<1> QED BY <1>1, IInvAlways, PTL

\* A backup all of whose parts were recorded, and that no deletion met, is
\* complete.  (ConfService.replace against BakService.delAll)
THEOREM BackupIsWholeCorrect ==
    ASSUME PublishAssumption
    PROVE  Spec => []BackupIsWhole
<1>1. IInv => BackupIsWhole
  BY InvIsWhole
<1> QED BY <1>1, IInvAlways, PTL
====
