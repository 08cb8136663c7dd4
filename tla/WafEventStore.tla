--------------------------- MODULE WafEventStore ---------------------------
(***************************************************************************)
(* How a batch of WAF hits becomes events and rule rows                    *)
(* (WafEventService.store), statement by statement: hits whose alert has   *)
(* a rule row are skipped, the hits of one request are merged into one     *)
(* event, and merged events are written last.  Nothing is a transaction:   *)
(* an exception or the end of the process leaves what is written so far,   *)
(* and the nightly cleanup deletes rows while a store runs.                *)
(***************************************************************************)
EXTENDS Integers, FiniteSets

CONSTANTS
    Alerts,         \* alerts as alertKey tells them apart
    KeyOf,          \* their requests: eventKey
    TimeOf,         \* their times, the same second for alerts of one request
    RulesOf,        \* the rules each has hit
    Cutoffs,        \* what cleanup may be called with
    MaxStores, MaxCleanups      \* bounds

\* What the constants must satisfy; the modules that instantiate this one
\* assume it.
StoreAssumption ==
    /\ IsFiniteSet(Alerts)
    /\ DOMAIN KeyOf = Alerts /\ TimeOf \in [Alerts -> Nat]
    /\ DOMAIN RulesOf = Alerts /\ \A a \in Alerts : RulesOf[a] # {}
    /\ Cutoffs \subseteq Nat /\ {MaxStores, MaxCleanups} \subseteq Nat

VARIABLES
    events,         \* waf_event: id, key, time and the rules merged into it
    rules,          \* waf_event_rule
    nextId,
    store,          \* where store() stands
    batch, fresh,   \* its hits, and those it still has to write
    byKey, dirty,   \* its events by request, and those to be updated
    hit, todo,      \* the hit being written and its rules without a row
    cleanup,        \* where cleanup() stands, and its cutoff
    deleted,        \* history: the largest cutoff so far
    torn,           \* history: requests a stop left half written
    acked,          \* history: hits of the stores that returned
    stores, cleanups    \* counters of the bounds

storeVars == <<events, rules, nextId, store, batch, fresh, byKey, dirty, hit,
               todo, cleanup, deleted, torn, acked, stores, cleanups>>

local == <<batch, fresh, byKey, dirty, hit, todo>>
history == <<deleted, torn, acked>>
Idle == [at |-> "idle", cutoff |-> 0]
NoHit == CHOOSE a \in Alerts : TRUE     \* of no meaning while none is written

Init ==
    /\ events = {} /\ rules = {} /\ nextId = 1
    /\ store = "idle" /\ batch = {} /\ fresh = {} /\ byKey = <<>>
    /\ dirty = {} /\ hit = NoHit /\ todo = {}
    /\ cleanup = Idle
    /\ deleted = 0 /\ torn = {} /\ acked = {} /\ stores = 0 /\ cleanups = 0

Forget ==
    /\ store' = "idle" /\ batch' = {} /\ fresh' = {} /\ byKey' = <<>>
    /\ dirty' = {} /\ hit' = NoHit /\ todo' = {}

\* Mutant: a hit is known when its request is.
SeenKeys(hits) == {a \in hits : \E e \in events : e.key = KeyOf[a]}
Seen(hits) == {a \in hits : \E row \in rules : row.alert = a}

\* existingAlertIds, and a sync fetches anything, known or not.
Start(hits) ==
    /\ store = "idle" /\ stores < MaxStores
    /\ stores' = stores + 1
    /\ batch' = hits /\ fresh' = hits \ Seen(hits)
    /\ store' = "load"
    /\ UNCHANGED <<events, rules, nextId, byKey, dirty, hit, todo, cleanup,
                   history, cleanups>>

\* Mutant: only the first chunk of requests is looked up.
LoadedFirst(keys) == {e \in events : e.key \in keys
                                      /\ e.key = CHOOSE k \in keys : TRUE}
Loaded(keys) == {e \in events : e.key \in keys}

LoadEvents ==
    /\ store = "load" /\ store' = "next"
    /\ LET found == Loaded({KeyOf[a] : a \in fresh})
       IN  byKey' = [k \in {e.key : e \in found} |->
                       CHOOSE e \in found : e.key = k]
    /\ UNCHANGED <<events, rules, nextId, batch, fresh, dirty, hit, todo,
                   cleanup, history, stores, cleanups>>

Merged(e, a) == [e EXCEPT !.merged = @ \cup RulesOf[a]]
\* byKey.get.
Merges(k) == k \in DOMAIN byKey
Put(k, e) == [j \in DOMAIN byKey \cup {k} |-> IF j = k THEN e ELSE byKey[j]]

\* The next hit in the order of time: its event is inserted, or merged in
\* memory and to be updated.
WriteEvent(a) ==
    /\ store = "next" /\ a \in fresh
    /\ \A b \in fresh : TimeOf[a] <= TimeOf[b]
    /\ store' = "rules" /\ hit' = a /\ todo' = RulesOf[a]
    /\ fresh' = fresh \ {a}
    /\ LET k == KeyOf[a]
           new == [id |-> nextId, key |-> k, time |-> TimeOf[a],
                   merged |-> RulesOf[a]]
       IN  \/ /\ ~Merges(k)
              /\ events' = events \cup {new} /\ nextId' = nextId + 1
              /\ byKey' = Put(k, new) /\ dirty' = dirty
           \/ /\ Merges(k)
              /\ byKey' = Put(k, Merged(byKey[k], a))
              /\ dirty' = dirty \cup {k}
              /\ UNCHANGED <<events, nextId>>
    /\ UNCHANGED <<rules, batch, cleanup, history, stores, cleanups>>

\* A row has the time of its event, so that cleanup takes both or none.
\* Mutant: it has the time of its hit.
RowTimeOfHit(a) == TimeOf[a]
RowTime(a) == byKey[KeyOf[a]].time

WriteRule(r) ==
    /\ store = "rules" /\ r \in todo
    /\ rules' = rules \cup {[event |-> byKey[KeyOf[hit]].id, alert |-> hit,
                             time |-> RowTime(hit), rule |-> r]}
    /\ todo' = todo \ {r}
    /\ store' = IF todo' = {} THEN "next" ELSE "rules"
    /\ UNCHANGED <<events, nextId, batch, fresh, byKey, dirty, hit, cleanup,
                   history, stores, cleanups>>

\* updateById, which inserts a row that is gone under a new id.
Update(k) ==
    /\ store = "next" /\ fresh = {} /\ k \in dirty
    /\ dirty' = dirty \ {k}
    /\ LET e == byKey[k]
       IN  \/ /\ \E old \in events : old.id = e.id
              /\ events' = {old \in events : old.id # e.id} \cup {e}
              /\ nextId' = nextId
           \/ /\ \A old \in events : old.id # e.id
              /\ events' = events \cup {[e EXCEPT !.id = nextId]}
              /\ nextId' = nextId + 1
    /\ UNCHANGED <<rules, store, batch, fresh, byKey, hit, todo, cleanup,
                   history, stores, cleanups>>

Return ==
    /\ store = "next" /\ fresh = {} /\ dirty = {}
    /\ acked' = acked \cup batch
    /\ Forget
    /\ UNCHANGED <<events, rules, nextId, cleanup, deleted, torn, stores,
                   cleanups>>

\* A statement fails or the process ends.  What is half written: a request
\* whose merged event is not updated, a hit with some of its rule rows.
Stop ==
    /\ store # "idle"
    /\ torn' = torn \cup dirty \cup
                 (IF todo # {} /\ todo # RulesOf[hit] THEN {KeyOf[hit]}
                  ELSE {})
    /\ Forget
    /\ UNCHANGED <<events, rules, nextId, cleanup, deleted, acked, stores,
                   cleanups>>

-----------------------------------------------------------------------------
(* cleanup(cutoff), which takes no lock.                                   *)

storing == <<nextId, store, local, torn, acked, stores>>

CleanRules(cutoff) ==
    /\ cleanup = Idle /\ cleanups < MaxCleanups
    /\ cleanups' = cleanups + 1
    /\ rules' = {row \in rules : row.time >= cutoff}
    /\ cleanup' = [at |-> "events", cutoff |-> cutoff]
    /\ deleted' = IF cutoff > deleted THEN cutoff ELSE deleted
    /\ UNCHANGED <<storing, events>>

CleanEvents ==
    /\ cleanup.at = "events" /\ cleanup' = Idle
    /\ events' = {e \in events : e.time >= cleanup.cutoff}
    /\ UNCHANGED <<storing, rules, deleted, cleanups>>

StopCleanup ==
    /\ cleanup.at = "events" /\ cleanup' = Idle
    /\ UNCHANGED <<storing, events, rules, deleted, cleanups>>

Next ==
    \/ \E hits \in SUBSET Alerts : Start(hits)
    \/ LoadEvents \/ Return \/ Stop
    \/ \E a \in fresh : WriteEvent(a)
    \/ \E r \in todo : WriteRule(r)
    \/ \E k \in dirty : Update(k)
    \/ \E cutoff \in Cutoffs : CleanRules(cutoff)
    \/ CleanEvents \/ StopCleanup

Spec == Init /\ [][Next]_storeVars

-----------------------------------------------------------------------------
(* Properties.                                                             *)

\* A request is one event, whatever hits of it come together or later and
\* whatever cleanup deletes in between.  (byKey in store, loadEvents)
OneEvent == \A e, f \in events : e.key = f.key => e = f

\* Between two stores, a hit that counts as known is known completely: all
\* its rules have rows, and the event they belong to exists and has them
\* merged into it.  Only rows older than a cleanup, and requests that were
\* being written when a store stopped, may be incomplete.  (store, cleanup)
KnownIsWhole ==
    store = "idle" =>
        \A row \in rules :
            row.time >= deleted /\ KeyOf[row.alert] \notin torn =>
                /\ \E e \in events : /\ e.id = row.event
                                     /\ RulesOf[row.alert] \subseteq e.merged
                /\ \A r \in RulesOf[row.alert] :
                      \E other \in rules :
                          other.alert = row.alert /\ other.rule = r

\* Every hit handed to a store that returned has a rule row, until cleanup
\* reaches the time of its request.  (sync moves its sync point after it)
AckedIsStored ==
    \A a \in acked :
        \/ \E row \in rules : row.alert = a
        \/ \E b \in Alerts : KeyOf[b] = KeyOf[a] /\ TimeOf[b] < deleted
=============================================================================
