------------------------ MODULE WafEventStoreProofs ------------------------
(***************************************************************************)
(* Proofs about the event store, for any alerts, requests and times, any   *)
(* number of stores and cleanups and any cutoffs that satisfy              *)
(* StoreAssumption.                                                        *)
(***************************************************************************)
EXTENDS WafEventStore, TLAPS

Keys == {KeyOf[a] : a \in Alerts}
Rules == UNION {RulesOf[a] : a \in Alerts}
Events == [id : Nat, key : Keys, time : Nat, merged : SUBSET Rules]
Rows == [event : Nat, alert : Alerts, time : Nat, rule : Rules]

TypeInv ==
    /\ events \subseteq Events /\ rules \subseteq Rows
    /\ nextId \in Nat /\ deleted \in Nat
    /\ batch \subseteq Alerts /\ fresh \subseteq batch
    /\ DOMAIN byKey \subseteq Keys /\ dirty \subseteq DOMAIN byKey
    /\ \A k \in DOMAIN byKey : byKey[k] \in Events
    /\ cleanup \in [at : {"idle", "events"}, cutoff : Nat]
    /\ cleanup.cutoff <= deleted
    /\ acked \subseteq Alerts

\* Where a store stands, and what it has then.
StoreInv ==
    /\ store \in {"idle", "load", "next", "rules"}
    /\ store \in {"idle", "load"} => DOMAIN byKey = {}
    /\ store = "idle" => fresh = {}
    /\ store = "rules" <=> todo # {}

\* The time of an event or row is that of a hit of its request.
HasTime(k, time) == \E b \in Alerts : KeyOf[b] = k /\ TimeOf[b] = time

EventsInv ==
    /\ \A e \in events : e.id < nextId /\ HasTime(e.key, e.time)
    /\ \A e, f \in events : e.key = f.key \/ e.id = f.id => e = f

\* An event in memory is the one stored, but for the rules merged into it
\* meanwhile, unless cleanup deleted it.
MemoryInv ==
    \A k \in DOMAIN byKey :
       /\ byKey[k].key = k /\ byKey[k].id < nextId /\ HasTime(k, byKey[k].time)
       /\ \A e \in events : e.id = byKey[k].id =>
             /\ e.key = k /\ e.time = byKey[k].time
             /\ e.merged \subseteq byKey[k].merged
             /\ k \notin dirty => e.merged = byKey[k].merged
       /\ k \in dirty \/ fresh # {} =>
             \A e \in events : e.key = k => e.id = byKey[k].id
       /\ byKey[k].time >= deleted => \E e \in events : e.id = byKey[k].id

\* A hit yet to be written has no row, and its event is in memory if there
\* is one.
FreshInv ==
    \A a \in fresh :
       /\ \A row \in rules : row.alert # a
       /\ store # "load" /\ KeyOf[a] \notin DOMAIN byKey =>
             \A e \in events : e.key # KeyOf[a]

\* The hit being written has rows of its event for the rules not in todo.
HitInv ==
    todo # {} =>
       /\ hit \in batch \ fresh /\ todo \subseteq RulesOf[hit]
       /\ KeyOf[hit] \in DOMAIN byKey
       /\ RulesOf[hit] \subseteq byKey[KeyOf[hit]].merged
       /\ \A row \in rules : row.alert = hit =>
             /\ row.event = byKey[KeyOf[hit]].id
             /\ row.time = byKey[KeyOf[hit]].time
             /\ row.rule \notin todo
       /\ byKey[KeyOf[hit]].time >= deleted =>
             \A q \in RulesOf[hit] \ todo :
                \E row \in rules : row.alert = hit /\ row.rule = q

\* The rules of a hit are merged into an event, or will be.
MergedInto(e, a) ==
    \/ RulesOf[a] \subseteq e.merged
    \/ /\ KeyOf[a] \in dirty /\ e.id = byKey[KeyOf[a]].id
       /\ RulesOf[a] \subseteq byKey[KeyOf[a]].merged

RowsInv ==
    /\ \A row \in rules : /\ row.rule \in RulesOf[row.alert]
                          /\ HasTime(KeyOf[row.alert], row.time)
    /\ \A row, other \in rules : row.alert = other.alert =>
          row.event = other.event /\ row.time = other.time
    /\ \A row \in rules :
          row.time >= deleted /\ KeyOf[row.alert] \notin torn =>
             /\ \E e \in events :
                   /\ e.id = row.event /\ e.key = KeyOf[row.alert]
                   /\ e.time = row.time /\ MergedInto(e, row.alert)
             /\ \A r \in RulesOf[row.alert] :
                   \/ row.alert = hit /\ r \in todo
                   \/ \E other \in rules :
                         other.alert = row.alert /\ other.rule = r

Stored(a) ==
    \/ \E row \in rules : row.alert = a
    \/ \E b \in Alerts : KeyOf[b] = KeyOf[a] /\ TimeOf[b] < deleted

BatchInv ==
    /\ \A a \in batch : a \in fresh \/ (a = hit /\ todo # {}) \/ Stored(a)
    /\ \A a \in acked : Stored(a)

IInv ==
    /\ TypeInv /\ StoreInv /\ EventsInv /\ MemoryInv /\ FreshInv /\ HitInv
    /\ RowsInv /\ BatchInv

-----------------------------------------------------------------------------
(* Every step keeps the invariant.                                         *)

\* What a hit needs stored does not depend on what a store has in memory.
LEMMA StoredStays ==
    ASSUME NEW a, Stored(a), rules \subseteq rules', deleted' = deleted
    PROVE  Stored(a)'
BY DEF Stored

LEMMA AlertIs ==
    ASSUME StoreAssumption, NEW a \in Alerts
    PROVE  /\ KeyOf[a] \in Keys /\ TimeOf[a] \in Nat
           /\ RulesOf[a] \subseteq Rules /\ RulesOf[a] # {}
           /\ HasTime(KeyOf[a], TimeOf[a])
BY DEF StoreAssumption, Keys, Rules, HasTime

LEMMA StartStep ==
    ASSUME StoreAssumption, IInv, NEW hits \in SUBSET Alerts, Start(hits)
    PROVE  IInv'
<1> USE DEF IInv
<1>1. /\ store = "idle" /\ store' = "load"
      /\ batch' = hits /\ fresh' = hits \ Seen(hits)
      /\ UNCHANGED <<events, rules, nextId, byKey, dirty, hit, todo, cleanup,
                     deleted, torn, acked>>
  BY DEF Start, history
<1>2. todo = {} /\ DOMAIN byKey = {}
  BY <1>1 DEF StoreInv
<1>3. TypeInv' /\ StoreInv'
  BY <1>1, <1>2 DEF TypeInv, StoreInv
<1>4. EventsInv' /\ MemoryInv'
  BY <1>1, <1>2 DEF EventsInv, MemoryInv
<1>5. FreshInv' /\ HitInv'
  BY <1>1, <1>2 DEF FreshInv, HitInv, Seen
<1>6. RowsInv'
  BY <1>1 DEF RowsInv, MergedInto
<1>7. BatchInv'
  BY <1>1 DEF BatchInv, Stored, Seen
<1> QED BY <1>3, <1>4, <1>5, <1>6, <1>7

LEMMA LoadEventsStep ==
    ASSUME StoreAssumption, IInv, LoadEvents
    PROVE  IInv'
<1> USE DEF IInv
<1> DEFINE found == Loaded({KeyOf[a] : a \in fresh})
           found_keys == {e.key : e \in found}
<1>1. /\ store = "load" /\ store' = "next"
      /\ byKey' = [k \in found_keys |-> CHOOSE e \in found : e.key = k]
      /\ UNCHANGED <<events, rules, nextId, batch, fresh, dirty, hit, todo,
                     cleanup, deleted, torn, acked>>
  BY DEF LoadEvents, history
<1>2. todo = {} /\ dirty = {}
  BY <1>1 DEF StoreInv, TypeInv
<1>3. /\ DOMAIN byKey' = found_keys
      /\ \A k \in found_keys : byKey'[k] \in events /\ byKey'[k].key = k
  <2>1. \A k \in found_keys : \E e \in found : e.key = k
    OBVIOUS
  <2>2. found \subseteq events
    BY DEF Loaded
  <2>3. ASSUME NEW k \in found_keys
        PROVE  byKey'[k] \in events /\ byKey'[k].key = k
    <3> DEFINE e == CHOOSE e \in found : e.key = k
    <3>1. e \in found /\ e.key = k
      BY <2>1
    <3>2. byKey'[k] = e
      BY <1>1
    <3> QED BY <2>2, <3>1, <3>2
  <2> QED BY <1>1, <2>3
<1>4. \A a \in fresh : \A e \in events : e.key = KeyOf[a] => e.key \in found_keys
  BY DEF Loaded
<1> HIDE DEF found, found_keys
<1>5. TypeInv'
  <2>1. \A k \in DOMAIN byKey' : byKey'[k] \in Events /\ k \in Keys
    BY <1>3 DEF TypeInv, Events
  <2> QED BY <1>1, <1>2, <2>1 DEF TypeInv
<1>6. StoreInv' /\ EventsInv'
  BY <1>1, <1>2 DEF StoreInv, EventsInv
<1>7. MemoryInv'
  BY <1>1, <1>2, <1>3 DEF MemoryInv, EventsInv
<1>8. FreshInv' /\ HitInv'
  BY <1>1, <1>2, <1>3, <1>4 DEF FreshInv, HitInv
<1>9. RowsInv'
  BY <1>1, <1>2 DEF RowsInv, MergedInto
<1>10. BatchInv'
  BY <1>1 DEF BatchInv, Stored
<1> QED BY <1>5, <1>6, <1>7, <1>8, <1>9, <1>10

LEMMA WriteRuleStep ==
    ASSUME StoreAssumption, IInv, NEW r \in todo, WriteRule(r)
    PROVE  IInv'
<1> USE DEF IInv
<1> DEFINE m == byKey[KeyOf[hit]]
           new == [event |-> m.id, alert |-> hit, time |-> m.time, rule |-> r]
<1>1. /\ store = "rules" /\ rules' = rules \cup {new}
      /\ todo' = todo \ {r}
      /\ store' = IF todo' = {} THEN "next" ELSE "rules"
      /\ UNCHANGED <<events, nextId, batch, fresh, byKey, dirty, hit, cleanup,
                     deleted, torn, acked>>
  BY DEF WriteRule, RowTime, history
<1>2. /\ hit \in batch \ fresh /\ hit \in Alerts /\ r \in RulesOf[hit]
      /\ todo \subseteq RulesOf[hit]
      /\ KeyOf[hit] \in DOMAIN byKey
      /\ RulesOf[hit] \subseteq m.merged
  BY DEF HitInv, TypeInv
<1>3. m \in Events /\ m.key = KeyOf[hit] /\ HasTime(KeyOf[hit], m.time)
  BY <1>2 DEF TypeInv, MemoryInv
<1>4. /\ new \in Rows /\ new.event = m.id /\ new.alert = hit
      /\ new.time = m.time /\ new.rule = r
  BY <1>2, <1>3, AlertIs DEF Events, Rows
<1>5. \A row \in rules : row.alert = hit =>
         row.event = m.id /\ row.time = m.time /\ row.rule \notin todo
  BY DEF HitInv
<1>6. m.time >= deleted =>
         \E e \in events : /\ e.id = m.id /\ e.key = KeyOf[hit]
                           /\ e.time = m.time /\ MergedInto(e, hit)
  BY <1>2 DEF MemoryInv, MergedInto
<1>13. m.time >= deleted =>
          \A q \in RulesOf[hit] \ todo :
             \E row \in rules : row.alert = hit /\ row.rule = q
  BY DEF HitInv
<1> HIDE DEF m, new
<1>7. TypeInv' /\ StoreInv'
  BY <1>1, <1>4 DEF TypeInv, StoreInv
<1>8. EventsInv' /\ MemoryInv'
  BY <1>1 DEF EventsInv, MemoryInv
<1>9. FreshInv'
  BY <1>1, <1>2, <1>4 DEF FreshInv, StoreInv
<1>10. HitInv'
  BY <1>1, <1>2, <1>4, <1>5 DEF HitInv, m
<1>11. RowsInv'
  <2>1. \A row \in rules' : /\ row.rule \in RulesOf[row.alert]
                            /\ HasTime(KeyOf[row.alert], row.time)
    BY <1>1, <1>2, <1>3, <1>4 DEF RowsInv
  <2>2. \A row, other \in rules' : row.alert = other.alert =>
           row.event = other.event /\ row.time = other.time
    BY <1>1, <1>4, <1>5 DEF RowsInv
  <2>3. ASSUME NEW row \in rules', row.time >= deleted,
               KeyOf[row.alert] \notin torn
        PROVE  \E e \in events :
                  /\ e.id = row.event /\ e.key = KeyOf[row.alert]
                  /\ e.time = row.time /\ MergedInto(e, row.alert)
    BY <1>1, <1>4, <1>6, <2>3 DEF RowsInv
  <2>4. ASSUME NEW row \in rules', row.time >= deleted,
               KeyOf[row.alert] \notin torn, NEW q \in RulesOf[row.alert]
        PROVE  \/ row.alert = hit /\ q \in todo'
               \/ \E other \in rules' :
                     other.alert = row.alert /\ other.rule = q
    <3>1. CASE row.alert = hit /\ q = r
      BY <1>1, <1>4, <3>1
    <3>2. CASE row.alert = hit /\ q \in todo \ {r}
      BY <1>1, <3>2
    <3>3. CASE row \in rules /\ ~(row.alert = hit /\ q \in todo)
      BY <1>1, <2>4, <3>3 DEF RowsInv
    <3>4. CASE row = new /\ q \notin todo
      BY <1>1, <1>4, <1>13, <2>4, <3>4
    <3> QED BY <1>1, <1>4, <3>1, <3>2, <3>3, <3>4
  <2>5. UNCHANGED <<events, byKey, dirty, torn, deleted, hit>>
    BY <1>1
  <2> QED BY <2>1, <2>2, <2>3, <2>4, <2>5 DEF RowsInv, MergedInto
<1>12. BatchInv'
  <2>1. Stored(hit)'
    BY <1>1, <1>4 DEF Stored
  <2> QED BY <1>1, <2>1, StoredStays DEF BatchInv
<1> QED BY <1>7, <1>8, <1>9, <1>10, <1>11, <1>12

\* The first hit of a request inserts an event.
LEMMA InsertEventStep ==
    ASSUME StoreAssumption, IInv, NEW a \in fresh, WriteEvent(a),
           ~Merges(KeyOf[a])
    PROVE  IInv'
<1> USE DEF IInv
<1> DEFINE k == KeyOf[a]
           new == [id |-> nextId, key |-> k, time |-> TimeOf[a],
                   merged |-> RulesOf[a]]
<1>1. /\ store = "next" /\ store' = "rules" /\ hit' = a
      /\ todo' = RulesOf[a] /\ fresh' = fresh \ {a}
      /\ events' = events \cup {new} /\ nextId' = nextId + 1
      /\ UNCHANGED <<rules, batch, dirty, cleanup, deleted, torn, acked>>
  BY DEF WriteEvent, history
<1>2. /\ DOMAIN byKey' = DOMAIN byKey \cup {k}
      /\ byKey'[k] = new
      /\ \A j \in DOMAIN byKey : byKey'[j] = byKey[j]
  <2>1. byKey' = Put(k, new) /\ k \notin DOMAIN byKey
    BY DEF WriteEvent, Merges
  <2> QED BY <2>1 DEF Put
<1>3. a \in Alerts /\ a \in batch /\ todo = {}
  BY <1>1 DEF TypeInv, StoreInv
<1>4. /\ k \in Keys /\ TimeOf[a] \in Nat /\ RulesOf[a] \subseteq Rules
      /\ RulesOf[a] # {} /\ HasTime(k, TimeOf[a])
  BY <1>3, AlertIs
<1>5. /\ k \notin DOMAIN byKey /\ k \notin dirty
      /\ \A e \in events : e.key # k
      /\ \A row \in rules : row.alert # a
  BY <1>1 DEF Merges, TypeInv, FreshInv
<1>6. /\ new \in Events /\ new.id = nextId /\ new.key = k
      /\ new.time = TimeOf[a] /\ new.merged = RulesOf[a]
  BY <1>4 DEF TypeInv, Events
<1>7. nextId \in Nat /\ events \subseteq Events
  BY DEF TypeInv
<1> HIDE DEF new
<1>8. TypeInv'
  BY <1>1, <1>2, <1>3, <1>4, <1>6 DEF TypeInv
<1>9. StoreInv'
  BY <1>1, <1>4 DEF StoreInv
<1>10. EventsInv'
  BY <1>1, <1>4, <1>5, <1>6, <1>7 DEF EventsInv, Events
<1>11. MemoryInv'
  <2>1. \A j \in DOMAIN byKey : byKey[j].id \in Nat /\ byKey[j].id < nextId
    BY DEF TypeInv, MemoryInv, Events
  <2>2. \A e \in events : e.id < nextId /\ e.id \in Nat
    BY <1>7 DEF EventsInv, Events
  <2>3. ASSUME NEW j \in DOMAIN byKey
        PROVE  /\ byKey'[j].key = j /\ byKey'[j].id < nextId'
               /\ HasTime(j, byKey'[j].time)
               /\ \A e \in events' : e.id = byKey'[j].id =>
                     /\ e.key = j /\ e.time = byKey'[j].time
                     /\ e.merged \subseteq byKey'[j].merged
                     /\ j \notin dirty' => e.merged = byKey'[j].merged
               /\ j \in dirty' \/ fresh' # {} =>
                     \A e \in events' : e.key = j => e.id = byKey'[j].id
               /\ byKey'[j].time >= deleted' =>
                     \E e \in events' : e.id = byKey'[j].id
    BY <1>1, <1>2, <1>5, <1>6, <1>7, <2>1 DEF MemoryInv
  <2>4. /\ byKey'[k].key = k /\ byKey'[k].id < nextId'
        /\ HasTime(k, byKey'[k].time)
        /\ \A e \in events' : e.id = byKey'[k].id => e = new
        /\ \A e \in events' : e.key = k => e = new
        /\ new \in events'
    BY <1>1, <1>2, <1>4, <1>5, <1>6, <1>7, <2>2
  <2> QED BY <1>2, <1>6, <2>3, <2>4 DEF MemoryInv, HasTime
<1>12. FreshInv'
  BY <1>1, <1>2, <1>6 DEF FreshInv
<1>13. HitInv'
  BY <1>1, <1>2, <1>3, <1>5, <1>6 DEF HitInv
<1>14. RowsInv'
  <2>1. \A row \in rules : row.alert # a
    BY <1>5
  <2>2. \A e \in events : \A b \in Alerts : MergedInto(e, b) => MergedInto(e, b)'
    <3>1. \A j \in dirty : byKey'[j] = byKey[j]
      BY <1>2 DEF TypeInv
    <3> QED BY <1>1, <3>1 DEF MergedInto
  <2>3. \A row \in rules : row.alert \in Alerts
    BY DEF TypeInv, Rows
  <2>4. events \subseteq events' /\ UNCHANGED <<rules, deleted, torn>>
    BY <1>1
  <2> QED BY <1>3, <2>1, <2>2, <2>3, <2>4 DEF RowsInv, HasTime
<1>15. BatchInv'
  BY <1>1, <1>3, <1>4, StoredStays DEF BatchInv
<1> QED BY <1>8, <1>9, <1>10, <1>11, <1>12, <1>13, <1>14, <1>15

\* A later hit of it is merged in memory.
LEMMA MergeEventStep ==
    ASSUME StoreAssumption, IInv, NEW a \in fresh, WriteEvent(a),
           Merges(KeyOf[a])
    PROVE  IInv'
<1> USE DEF IInv
<1> DEFINE k == KeyOf[a]
           new == Merged(byKey[k], a)
<1>1. /\ store = "next" /\ store' = "rules" /\ hit' = a
      /\ todo' = RulesOf[a] /\ fresh' = fresh \ {a}
      /\ dirty' = dirty \cup {k}
      /\ UNCHANGED <<events, nextId, rules, batch, cleanup, deleted, torn,
                     acked>>
  BY DEF WriteEvent, history
<1>2. /\ k \in DOMAIN byKey /\ DOMAIN byKey' = DOMAIN byKey
      /\ byKey'[k] = new
      /\ \A j \in DOMAIN byKey \ {k} : byKey'[j] = byKey[j]
  <2>1. byKey' = Put(k, new) /\ k \in DOMAIN byKey
    BY DEF WriteEvent, Merges
  <2> QED BY <2>1 DEF Put
<1>3. a \in Alerts /\ a \in batch /\ todo = {}
  BY <1>1 DEF TypeInv, StoreInv
<1>4. RulesOf[a] \subseteq Rules /\ RulesOf[a] # {}
  BY <1>3, AlertIs
<1>5. \A row \in rules : row.alert # a
  BY <1>1 DEF FreshInv
<1>6. /\ byKey[k] \in Events /\ new \in Events /\ new.id = byKey[k].id
      /\ new.key = byKey[k].key /\ new.time = byKey[k].time
      /\ new.merged = byKey[k].merged \cup RulesOf[a]
  <2>1. byKey[k] \in Events
    BY <1>2 DEF TypeInv
  <2> QED BY <1>4, <2>1 DEF Events, Merged
<1> HIDE DEF new
<1>7. TypeInv'
  BY <1>1, <1>2, <1>3, <1>6 DEF TypeInv
<1>8. StoreInv' /\ EventsInv'
  BY <1>1, <1>4 DEF StoreInv, EventsInv
<1>9. MemoryInv'
  BY <1>1, <1>2, <1>6 DEF MemoryInv
<1>10. FreshInv'
  BY <1>1, <1>2 DEF FreshInv
<1>11. HitInv'
  BY <1>1, <1>2, <1>3, <1>5, <1>6 DEF HitInv
<1>12. RowsInv'
  <2>1. \A e \in events : \A b \in Alerts : MergedInto(e, b) => MergedInto(e, b)'
    <3>1. \A j \in dirty : /\ byKey'[j].id = byKey[j].id
                            /\ byKey[j].merged \subseteq byKey'[j].merged
      BY <1>2, <1>6 DEF TypeInv
    <3> QED BY <1>1, <3>1 DEF MergedInto
  <2>2. \A row \in rules : row.alert \in Alerts
    BY DEF TypeInv, Rows
  <2> QED BY <1>1, <1>3, <1>5, <2>1, <2>2 DEF RowsInv
<1>13. BatchInv'
  BY <1>1, <1>3, <1>4, StoredStays DEF BatchInv
<1> QED BY <1>7, <1>8, <1>9, <1>10, <1>11, <1>12, <1>13

LEMMA UpdateStep ==
    ASSUME StoreAssumption, IInv, NEW k \in dirty, Update(k)
    PROVE  IInv'
<1> USE DEF IInv
<1>1. /\ store = "next" /\ fresh = {} /\ dirty' = dirty \ {k}
      /\ UNCHANGED <<rules, store, batch, fresh, byKey, hit, todo, cleanup,
                     deleted, torn, acked>>
  BY DEF Update, history
<1>2. todo = {}
  BY <1>1 DEF StoreInv
<1>3. /\ k \in DOMAIN byKey /\ byKey[k] \in Events /\ byKey[k].key = k
      /\ byKey[k].id < nextId /\ HasTime(k, byKey[k].time)
      /\ \A e \in events : e.key = k => e.id = byKey[k].id
      /\ \A e \in events : e.id = byKey[k].id =>
            /\ e.key = k /\ e.time = byKey[k].time
            /\ e.merged \subseteq byKey[k].merged
  BY DEF TypeInv, MemoryInv
<1>4. nextId \in Nat /\ events \subseteq Events /\ byKey[k].id \in Nat
  BY <1>3 DEF TypeInv, Events
<1>5. /\ \A j \in DOMAIN byKey : /\ byKey[j].key = j /\ byKey[j].id \in Nat
                                 /\ byKey[j].id < nextId
      /\ \A e \in events : e.id \in Nat /\ e.id < nextId
  BY <1>4 DEF MemoryInv, TypeInv, Events, EventsInv
<1>6. StoreInv' /\ BatchInv' /\ HitInv' /\ FreshInv'
  BY <1>1, <1>2 DEF StoreInv, BatchInv, Stored, HitInv, FreshInv
<1>7. \A e \in events' : \A a \in Alerts :
         KeyOf[a] # k /\ e \in events /\ MergedInto(e, a) => MergedInto(e, a)'
  BY <1>1 DEF MergedInto
<1>8. \A row \in rules : row.alert \in Alerts
  BY DEF TypeInv, Rows
<1>9. CASE /\ \E old \in events : old.id = byKey[k].id
           /\ events' = {old \in events : old.id # byKey[k].id}
                          \cup {byKey[k]}
           /\ nextId' = nextId
  <2>1. TypeInv'
    BY <1>1, <1>3, <1>9 DEF TypeInv
  <2>2. EventsInv'
    BY <1>3, <1>9 DEF EventsInv, HasTime
  <2>3. MemoryInv'
    <3>1. ASSUME NEW j \in DOMAIN byKey
          PROVE  /\ \A e \in events' : e.id = byKey[j].id =>
                       /\ e.key = j /\ e.time = byKey[j].time
                       /\ e.merged \subseteq byKey[j].merged
                       /\ j \notin dirty' => e.merged = byKey[j].merged
                 /\ j \in dirty' =>
                       \A e \in events' : e.key = j => e.id = byKey[j].id
                 /\ byKey[j].time >= deleted =>
                       \E e \in events' : e.id = byKey[j].id
      <4>1. \A e \in events : e.id = byKey[k].id /\ e.id = byKey[j].id => j = k
        BY <1>3 DEF MemoryInv
      <4>2. PICK old \in events : old.id = byKey[k].id
        BY <1>9
      <4> QED BY <1>1, <1>3, <1>9, <4>1, <4>2 DEF MemoryInv
    <3> QED BY <1>1, <1>9, <3>1 DEF MemoryInv, HasTime
  <2>4. RowsInv'
    <3>1. ASSUME NEW row \in rules, row.time >= deleted,
                 KeyOf[row.alert] \notin torn
          PROVE  \E e \in events' :
                    /\ e.id = row.event /\ e.key = KeyOf[row.alert]
                    /\ e.time = row.time /\ MergedInto(e, row.alert)'
      <4>1. PICK e \in events : /\ e.id = row.event /\ e.time = row.time
                                /\ e.key = KeyOf[row.alert]
                                /\ MergedInto(e, row.alert)
        BY <3>1 DEF RowsInv
      <4>2. CASE KeyOf[row.alert] = k
        <5>1. e.id = byKey[k].id /\ e.time = byKey[k].time
          BY <1>3, <4>1, <4>2
        <5>2. RulesOf[row.alert] \subseteq byKey[k].merged
          BY <1>3, <4>1, <4>2, <5>1 DEF MergedInto
        <5> QED BY <1>3, <1>9, <4>1, <4>2, <5>1, <5>2 DEF MergedInto
      <4>3. CASE KeyOf[row.alert] # k
        <5>1. e.id # byKey[k].id /\ e \in events'
          BY <1>3, <1>9, <4>1, <4>3
        <5> QED BY <1>7, <1>8, <4>1, <4>3, <5>1
      <4> QED BY <4>2, <4>3
    <3> QED BY <1>1, <1>2, <3>1 DEF RowsInv, HasTime
  <2> QED BY <1>6, <2>1, <2>2, <2>3, <2>4
<1>10. CASE /\ \A old \in events : old.id # byKey[k].id
            /\ events' = events \cup {[byKey[k] EXCEPT !.id = nextId]}
            /\ nextId' = nextId + 1
  \* Cleanup has deleted the event, so that its time is past.
  <2> DEFINE new == [byKey[k] EXCEPT !.id = nextId]
  <2>1. /\ new \in Events /\ new.id = nextId /\ new.key = k
        /\ new.time = byKey[k].time /\ new.merged = byKey[k].merged
    BY <1>3, <1>4 DEF Events
  <2>2. /\ events' = events \cup {new} /\ nextId' = nextId + 1
        /\ \A e \in events : e.key # k
        /\ ~(byKey[k].time >= deleted)
    BY <1>3, <1>10 DEF MemoryInv
  <2> HIDE DEF new
  <2>3. TypeInv'
    BY <1>1, <1>4, <2>1, <2>2 DEF TypeInv
  <2>4. EventsInv'
    BY <1>3, <1>4, <1>5, <2>1, <2>2 DEF EventsInv, HasTime
  <2>5. MemoryInv'
    BY <1>1, <1>3, <1>4, <1>5, <1>10, <2>1, <2>2 DEF MemoryInv, HasTime
  <2>6. RowsInv'
    <3>1. ASSUME NEW row \in rules, row.time >= deleted,
                 KeyOf[row.alert] \notin torn
          PROVE  \E e \in events' :
                    /\ e.id = row.event /\ e.key = KeyOf[row.alert]
                    /\ e.time = row.time /\ MergedInto(e, row.alert)'
      <4>1. PICK e \in events : /\ e.id = row.event /\ e.time = row.time
                                /\ e.key = KeyOf[row.alert]
                                /\ MergedInto(e, row.alert)
        BY <3>1 DEF RowsInv
      <4> QED BY <1>7, <1>8, <2>2, <4>1
    <3> QED BY <1>1, <1>2, <3>1 DEF RowsInv, HasTime
  <2> QED BY <1>6, <2>3, <2>4, <2>5, <2>6
<1> QED BY <1>9, <1>10 DEF Update

\* A store that is over has nothing in memory.
LEMMA ForgetStays ==
    ASSUME IInv, Forget,
           UNCHANGED <<events, rules, nextId, cleanup, deleted>>,
           acked' \in SUBSET Alerts, torn \subseteq torn',
           dirty \subseteq torn',
           todo # {} /\ todo # RulesOf[hit] => KeyOf[hit] \in torn',
           \A a \in acked' : Stored(a)
    PROVE  IInv'
<1> USE DEF IInv
<1>1. /\ store' = "idle" /\ batch' = {} /\ fresh' = {} /\ DOMAIN byKey' = {}
      /\ dirty' = {} /\ todo' = {}
  BY DEF Forget
<1>2. TypeInv' /\ StoreInv' /\ EventsInv'
  BY <1>1 DEF TypeInv, StoreInv, EventsInv, HasTime
<1>3. MemoryInv' /\ FreshInv' /\ HitInv'
  BY <1>1 DEF MemoryInv, FreshInv, HitInv
<1>4. BatchInv'
  BY <1>1 DEF BatchInv, Stored
<1>5. RowsInv'
  <2>1. ASSUME NEW row \in rules, row.time >= deleted,
               KeyOf[row.alert] \notin torn'
        PROVE  /\ \E e \in events :
                     /\ e.id = row.event /\ e.key = KeyOf[row.alert]
                     /\ e.time = row.time /\ RulesOf[row.alert] \subseteq e.merged
               /\ \A r \in RulesOf[row.alert] :
                     \E other \in rules :
                        other.alert = row.alert /\ other.rule = r
    <3>1. KeyOf[row.alert] \notin torn /\ KeyOf[row.alert] \notin dirty
      BY <2>1
    <3>2. ~(row.alert = hit /\ todo # {})
      \* The rules of hit without a row are some, and not all.
      <4>1. ASSUME row.alert = hit, todo # {}
            PROVE  FALSE
        <5>1. todo = RulesOf[hit]
          BY <2>1, <4>1
        <5>2. row.rule \notin todo
          BY <4>1 DEF HitInv
        <5>3. row.rule \in RulesOf[row.alert]
          BY DEF RowsInv
        <5> QED BY <4>1, <5>1, <5>2, <5>3
      <4> QED BY <4>1
    <3> QED BY <2>1, <3>1, <3>2 DEF RowsInv, MergedInto
  <2> QED BY <1>1, <2>1 DEF RowsInv, MergedInto, HasTime
<1> QED BY <1>2, <1>3, <1>4, <1>5

LEMMA ReturnStep ==
    ASSUME StoreAssumption, IInv, Return
    PROVE  IInv'
<1>1. /\ store = "next" /\ fresh = {} /\ dirty = {} /\ Forget
      /\ acked' = acked \cup batch
      /\ UNCHANGED <<events, rules, nextId, cleanup, deleted, torn>>
  BY DEF Return
<1>2. todo = {}
  BY <1>1 DEF IInv, StoreInv
<1>3. acked' \in SUBSET Alerts /\ \A a \in acked' : Stored(a)
  BY <1>1, <1>2 DEF IInv, TypeInv, BatchInv
<1> QED BY <1>1, <1>2, <1>3, ForgetStays

LEMMA StopStep ==
    ASSUME StoreAssumption, IInv, Stop
    PROVE  IInv'
<1>1. /\ Forget
      /\ UNCHANGED <<events, rules, nextId, cleanup, deleted, acked>>
      /\ torn \subseteq torn' /\ dirty \subseteq torn'
      /\ todo # {} /\ todo # RulesOf[hit] => KeyOf[hit] \in torn'
  BY DEF Stop
<1>2. acked' \in SUBSET Alerts /\ \A a \in acked' : Stored(a)
  BY <1>1 DEF IInv, TypeInv, BatchInv
<1> QED BY <1>1, <1>2, ForgetStays

LEMMA CleanRulesStep ==
    ASSUME StoreAssumption, IInv, NEW cutoff \in Cutoffs, CleanRules(cutoff)
    PROVE  IInv'
<1> USE DEF IInv
<1>1. /\ rules' = {row \in rules : row.time >= cutoff}
      /\ cleanup' = [at |-> "events", cutoff |-> cutoff]
      /\ deleted' = IF cutoff > deleted THEN cutoff ELSE deleted
      /\ UNCHANGED <<events, nextId, store, batch, fresh, byKey, dirty, hit,
                     todo, torn, acked>>
  BY DEF CleanRules, storing, local
<1>2. /\ cutoff \in Nat /\ deleted \in Nat /\ deleted' \in Nat
      /\ cutoff <= deleted' /\ deleted <= deleted'
  BY <1>1 DEF StoreAssumption, TypeInv
<1>3. /\ \A row \in rules : row.time \in Nat /\ row.alert \in Alerts
      /\ \A e \in events : e.time \in Nat
      /\ \A k \in DOMAIN byKey : byKey[k].time \in Nat
  BY DEF TypeInv, Rows, Events
<1>4. \A row \in rules : row.time >= deleted' => row \in rules'
  BY <1>1, <1>2, <1>3
<1>5. \A n \in Nat : n >= deleted' => n >= deleted
  BY <1>2
<1>6. rules' \subseteq rules
  BY <1>1
<1>7. TypeInv' /\ StoreInv' /\ EventsInv'
  BY <1>1, <1>2, <1>6 DEF TypeInv, StoreInv, EventsInv, HasTime
<1>8. MemoryInv'
  BY <1>1, <1>3, <1>5 DEF MemoryInv, HasTime
<1>9. FreshInv'
  BY <1>1, <1>6 DEF FreshInv
<1>10. HitInv'
  <2>1. ASSUME todo # {}, byKey[KeyOf[hit]].time >= deleted',
               NEW q \in RulesOf[hit] \ todo
        PROVE  \E row \in rules' : row.alert = hit /\ row.rule = q
    <3>1. byKey[KeyOf[hit]].time >= deleted
      BY <1>3, <1>5, <2>1 DEF HitInv
    <3>2. PICK row \in rules : row.alert = hit /\ row.rule = q
      BY <2>1, <3>1 DEF HitInv
    <3>3. row.time = byKey[KeyOf[hit]].time
      BY <2>1, <3>2 DEF HitInv
    <3> QED BY <1>4, <2>1, <3>2, <3>3
  <2> QED BY <1>1, <1>6, <2>1 DEF HitInv
<1>11. RowsInv'
  <2>1. ASSUME NEW row \in rules', row.time >= deleted',
               KeyOf[row.alert] \notin torn
        PROVE  /\ \E e \in events :
                     /\ e.id = row.event /\ e.key = KeyOf[row.alert]
                     /\ e.time = row.time /\ MergedInto(e, row.alert)
               /\ \A r \in RulesOf[row.alert] :
                     \/ row.alert = hit /\ r \in todo
                     \/ \E other \in rules' :
                           other.alert = row.alert /\ other.rule = r
    <3>1. row \in rules /\ row.time >= deleted
      BY <1>3, <1>5, <1>6, <2>1
    <3>2. \A other \in rules : other.alert = row.alert => other \in rules'
      BY <1>4, <2>1, <3>1 DEF RowsInv
    <3> QED BY <2>1, <3>1, <3>2 DEF RowsInv
  <2>2. \A row \in rules' : /\ row.rule \in RulesOf[row.alert]
                            /\ HasTime(KeyOf[row.alert], row.time)
    BY <1>6 DEF RowsInv
  <2>3. \A row, other \in rules' : row.alert = other.alert =>
           row.event = other.event /\ row.time = other.time
    BY <1>6 DEF RowsInv
  <2>4. \A e, a : MergedInto(e, a) => MergedInto(e, a)'
    BY <1>1 DEF MergedInto
  <2> QED BY <1>1, <2>1, <2>2, <2>3, <2>4 DEF RowsInv
<1>12. BatchInv'
  <2>1. ASSUME NEW a, Stored(a)
        PROVE  Stored(a)'
    <3>1. CASE \E row \in rules : row.alert = a
      <4>1. PICK row \in rules : row.alert = a
        BY <3>1
      <4>2. CASE row \in rules'
        BY <4>1, <4>2 DEF Stored
      <4>3. CASE row \notin rules'
        \* Its time is that of a hit of its request.
        <5>1. PICK b \in Alerts :
                 KeyOf[b] = KeyOf[row.alert] /\ TimeOf[b] = row.time
          BY DEF RowsInv, HasTime
        <5>2. TimeOf[b] < deleted'
          BY <1>2, <1>3, <1>4, <4>3, <5>1
        <5> QED BY <4>1, <5>1, <5>2 DEF Stored
      <4> QED BY <4>2, <4>3
    <3>2. CASE \E b \in Alerts : KeyOf[b] = KeyOf[a] /\ TimeOf[b] < deleted
      BY <1>2, <3>2 DEF Stored, StoreAssumption
    <3> QED BY <2>1, <3>1, <3>2 DEF Stored
  <2> QED BY <1>1, <2>1 DEF BatchInv
<1> QED BY <1>7, <1>8, <1>9, <1>10, <1>11, <1>12

LEMMA CleanEventsStep ==
    ASSUME StoreAssumption, IInv, CleanEvents
    PROVE  IInv'
<1> USE DEF IInv
<1>1. /\ cleanup' = Idle
      /\ events' = {e \in events : e.time >= cleanup.cutoff}
      /\ UNCHANGED <<rules, nextId, store, batch, fresh, byKey, dirty, hit,
                     todo, deleted, torn, acked>>
  BY DEF CleanEvents, storing, local
<1>2. cleanup.cutoff \in Nat /\ deleted \in Nat /\ cleanup.cutoff <= deleted
  BY DEF TypeInv
<1>3. /\ \A e \in events : e.time \in Nat
      /\ \A e \in events : e.time >= deleted => e \in events'
      /\ events' \subseteq events
  BY <1>1, <1>2 DEF TypeInv, Events
<1>4. TypeInv' /\ StoreInv' /\ EventsInv'
  BY <1>1, <1>2, <1>3 DEF TypeInv, StoreInv, EventsInv, HasTime, Idle
<1>5. MemoryInv'
  BY <1>1, <1>3 DEF MemoryInv, HasTime
<1>6. FreshInv' /\ HitInv' /\ BatchInv'
  BY <1>1, <1>3 DEF FreshInv, HitInv, BatchInv, Stored
<1>7. RowsInv'
  BY <1>1, <1>3 DEF RowsInv, MergedInto, HasTime
<1> QED BY <1>4, <1>5, <1>6, <1>7

\* A cleanup that stops, and a step that changes nothing.
LEMMA SameStays ==
    ASSUME IInv, cleanup' \in {cleanup, Idle},
           UNCHANGED <<events, rules, nextId, store, batch, fresh, byKey,
                       dirty, hit, todo, deleted, torn, acked>>
    PROVE  IInv'
<1> USE DEF IInv
<1>1. TypeInv' /\ StoreInv' /\ EventsInv' /\ MemoryInv'
  BY DEF TypeInv, StoreInv, EventsInv, MemoryInv, HasTime, Idle
<1>2. FreshInv' /\ HitInv' /\ RowsInv' /\ BatchInv'
  BY DEF FreshInv, HitInv, RowsInv, BatchInv, HasTime, MergedInto, Stored
<1> QED BY <1>1, <1>2

LEMMA InvInit ==
    ASSUME StoreAssumption, Init
    PROVE  IInv
<1> USE DEF Init, IInv
<1>1. TypeInv /\ StoreInv /\ EventsInv /\ MemoryInv
  BY DEF TypeInv, StoreInv, EventsInv, MemoryInv, Idle
<1>2. FreshInv /\ HitInv /\ RowsInv /\ BatchInv
  BY DEF FreshInv, HitInv, RowsInv, BatchInv
<1> QED BY <1>1, <1>2

LEMMA InvNext ==
    ASSUME StoreAssumption, IInv, [Next]_storeVars
    PROVE  IInv'
<1>1. CASE UNCHANGED storeVars
  BY <1>1, SameStays DEF storeVars
<1>2. ASSUME NEW hits \in SUBSET Alerts, Start(hits)
      PROVE  IInv'
  BY <1>2, StartStep
<1>3. CASE LoadEvents
  BY <1>3, LoadEventsStep
<1>4. CASE Return
  BY <1>4, ReturnStep
<1>5. CASE Stop
  BY <1>5, StopStep
<1>6. ASSUME NEW a \in fresh, WriteEvent(a)
      PROVE  IInv'
  BY <1>6, InsertEventStep, MergeEventStep
<1>7. ASSUME NEW r \in todo, WriteRule(r)
      PROVE  IInv'
  BY <1>7, WriteRuleStep
<1>8. ASSUME NEW k \in dirty, Update(k)
      PROVE  IInv'
  BY <1>8, UpdateStep
<1>9. ASSUME NEW cutoff \in Cutoffs, CleanRules(cutoff)
      PROVE  IInv'
  BY <1>9, CleanRulesStep
<1>10. CASE CleanEvents
  BY <1>10, CleanEventsStep
<1>11. CASE StopCleanup
  BY <1>11, SameStays DEF StopCleanup, storing, local
<1> QED BY <1>1, <1>2, <1>3, <1>4, <1>5, <1>6, <1>7, <1>8, <1>9, <1>10,
           <1>11 DEF Next

LEMMA InvAlways ==
    ASSUME StoreAssumption
    PROVE  Spec => []IInv
<1>1. Init => IInv
  BY InvInit
<1>2. IInv /\ [Next]_storeVars => IInv'
  BY InvNext
<1> QED BY <1>1, <1>2, PTL DEF Spec

-----------------------------------------------------------------------------
(* What a store promises.                                                  *)

\* A request is one event, whatever order its hits are stored in and
\* whatever cleanup deletes between two statements.
THEOREM OneEventCorrect ==
    ASSUME StoreAssumption
    PROVE  Spec => []OneEvent
<1>1. IInv => OneEvent
  BY DEF IInv, EventsInv, OneEvent
<1> QED BY <1>1, InvAlways, PTL

\* Between two stores a hit with one rule row has all of them, and its event,
\* unless a store was stopped at its request or cleanup has reached it.
THEOREM KnownIsWholeCorrect ==
    ASSUME StoreAssumption
    PROVE  Spec => []KnownIsWhole
<1>1. IInv => KnownIsWhole
  <2>1. ASSUME IInv, store = "idle"
        PROVE  todo = {} /\ dirty = {}
    BY <2>1 DEF IInv, StoreInv, TypeInv
  <2> QED BY <2>1 DEF IInv, RowsInv, MergedInto, KnownIsWhole
<1> QED BY <1>1, InvAlways, PTL

\* The hits of a store that returned have rule rows until cleanup reaches
\* the time of their request.
THEOREM AckedIsStoredCorrect ==
    ASSUME StoreAssumption
    PROVE  Spec => []AckedIsStored
<1>1. IInv => AckedIsStored
  BY DEF IInv, BatchInv, Stored, AckedIsStored
<1> QED BY <1>1, InvAlways, PTL
====
