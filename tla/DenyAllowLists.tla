--------------------------- MODULE DenyAllowLists ---------------------------
(***************************************************************************)
(* The lists of addresses the panel denies or allows: saving one from      *)
(* either of two pages, the daily refresh of lists with a source, and the *)
(* button that puts an address CrowdSec blocked by mistake on an allow     *)
(* list.  An address on a list of each type is a conflict.                 *)
(***************************************************************************)
EXTENDS Integers, FiniteSets

CONSTANTS
    Lists, Ips,
    Sourced,        \* lists with a sourceUrl
    Admins,         \* requests that save a list
    NoList, NoForm,
    MaxSaves, MaxRefreshes      \* bounds

\* What the constants must satisfy; the modules that instantiate this one
\* assume it.
ListsAssumption ==
    /\ Sourced \subseteq Lists /\ {MaxSaves, MaxRefreshes} \subseteq Nat

VARIABLES
    lists,          \* table deny_allow: type, ip, and the rest of the row
    saving,         \* addOver: the form a request has checked
    due,            \* fetchDenyAllowLists: its rows, as it read them
    told,           \* history: conflicts an admin was told of
    savedAs,        \* history: the row each list was last saved with
    lost,           \* history: lists refreshed from an older row since then
    saves, refreshes    \* counters of the bounds

listVars == <<lists, saving, due, told, savedAs, lost, saves, refreshes>>

Types == {"deny", "allow"}
Of(type) == {l \in Lists : lists[l] # NoList /\ lists[l].type = type}
Addresses(ls) == UNION {lists[l].ips : l \in ls}

Init ==
    /\ lists = [l \in Lists |-> NoList]
    /\ saving = [a \in Admins |-> NoForm] /\ due = <<>>
    /\ told = {} /\ savedAs = lists /\ lost = {} /\ saves = 0 /\ refreshes = 0

-----------------------------------------------------------------------------
(* addOver.                                                                *)

\* findConflictIps: nothing to compare with unless the form has a type, which
\* that of denyAllow/index.html has not.
Conflicts(l, type, ips) ==
    IF type = "none" THEN {}
    ELSE ips \cap Addresses(Of(IF type = "deny" THEN "allow" ELSE "deny")
                              \ {l})

\* The pages do not send an empty list without a source.
Sendable(l, ips) == ips # {} \/ l \in Sourced

Save(a, l, type, ips) ==
    /\ saving[a] = NoForm /\ saves < MaxSaves /\ saves' = saves + 1
    /\ Sendable(l, ips)
    /\ Conflicts(l, type, ips) = {}     \* or an error is shown
    /\ saving' = [saving EXCEPT ![a] =
                    [list |-> l, type |-> type, ips |-> ips, edit |-> saves']]
    /\ UNCHANGED <<lists, due, told, savedAs, lost, refreshes>>

\* insertOrUpdate: a row without a type gets "deny" when it is inserted and
\* keeps the one it has when it is updated.
TypeFor(l, type) == IF type # "none" THEN type
                    ELSE IF lists[l] # NoList THEN lists[l].type
                    ELSE "deny"

Written(a, ips) ==
    LET form == saving[a]
        row == [type |-> TypeFor(form.list, form.type), ips |-> ips,
                edit |-> form.edit]
    IN  /\ lists' = [lists EXCEPT ![form.list] = row]
        /\ savedAs' = [savedAs EXCEPT ![form.list] = row]
        /\ lost' = lost \ {form.list}
        /\ saving' = [saving EXCEPT ![a] = NoForm]
        /\ UNCHANGED <<due, told, saves, refreshes>>

\* fetchAndUpdate accepts an answer from which it can parse an address.
\* Mutant: it accepts any.
AcceptedAny(answer) == TRUE
Accepted(answer) == answer # {}

SaveFetched(a, answer) ==
    /\ saving[a] # NoForm /\ saving[a].list \in Sourced /\ Accepted(answer)
    /\ Written(a, answer)

\* Without a source, or "Immediate fetch failed, saving record anyway".
SaveAsTyped(a) ==
    /\ saving[a] # NoForm
    /\ Written(a, saving[a].ips)

Del(l) ==
    /\ lists[l] # NoList /\ saves < MaxSaves /\ saves' = saves + 1
    /\ lists' = [lists EXCEPT ![l] = NoList]
    /\ savedAs' = [savedAs EXCEPT ![l] = NoList]
    /\ lost' = lost \ {l}
    /\ UNCHANGED <<saving, due, told, refreshes>>

\* CrowdSecWhitelistService.whitelist makes a list of its own and reports the
\* deny lists that hold the address.
Whitelist(ip, l) ==
    /\ lists[l] = NoList /\ \A a \in Admins : saving[a] # NoForm =>
                                                saving[a].list # l
    /\ l \notin Sourced \cup DOMAIN due
    /\ ip \notin Addresses(Of("allow")) /\ saves < MaxSaves
    /\ saves' = saves + 1
    /\ lists' = [lists EXCEPT ![l] = [type |-> "allow", ips |-> {ip},
                                      edit |-> saves']]
    /\ savedAs' = [savedAs EXCEPT ![l] = lists'[l]]
    /\ told' = told \cup ({ip} \cap Addresses(Of("deny")))
    /\ UNCHANGED <<saving, due, lost, refreshes>>

-----------------------------------------------------------------------------
(* fetchDenyAllowLists: rows first, then one download after another.       *)

Refresh(ls) ==
    /\ due = <<>> /\ refreshes < MaxRefreshes
    /\ refreshes' = refreshes + 1
    /\ due' = [l \in {m \in ls : lists[m] # NoList} |-> lists[l]]
    /\ UNCHANGED <<lists, saving, told, savedAs, lost, saves>>

NotDue(l) == [m \in DOMAIN due \ {l} |-> due[m]]

\* updateById of the row as it was read, which inserts it again if it is gone.
Refreshed(l, answer) ==
    /\ l \in DOMAIN due /\ l \in Sourced /\ Accepted(answer)
    /\ due' = NotDue(l)
    /\ lists' = [lists EXCEPT ![l] = [due[l] EXCEPT !.ips = answer]]
    /\ lost' = lost \cup {l}
    /\ UNCHANGED <<saving, told, savedAs, saves, refreshes>>

\* No source, or nothing usable downloaded.  Mutant: the row is written.
UnrefreshedRow(l) == due[l]
RowAfterFailure(l) == lists[l]

RefreshFails(l) ==
    /\ l \in DOMAIN due
    /\ due' = NotDue(l)
    /\ lists' = [lists EXCEPT ![l] = RowAfterFailure(l)]
    /\ UNCHANGED <<saving, told, savedAs, lost, saves, refreshes>>

Next ==
    \/ \E ip \in Ips, l \in Lists : Whitelist(ip, l)
    \/ \E l \in Lists : Del(l) \/ RefreshFails(l)
    \/ \E a \in Admins, l \in Lists, type \in Types \cup {"none"},
          ips \in SUBSET Ips : Save(a, l, type, ips)
    \/ \E a \in Admins : SaveAsTyped(a)
    \/ \E a \in Admins, answer \in SUBSET Ips : SaveFetched(a, answer)
    \/ \E ls \in SUBSET Lists : Refresh(ls)
    \/ \E l \in Lists, answer \in SUBSET Ips : Refreshed(l, answer)

Spec == Init /\ [][Next]_listVars

-----------------------------------------------------------------------------
(* Properties.                                                             *)

\* What an admin saved or deleted stays, unless a refresh that succeeds
\* writes a row it read earlier: that undoes it.  (fetchDenyAllowLists)
SavedStays == \A l \in Lists : l \notin lost => lists[l] = savedAs[l]

\* A list is empty only if it was saved so: a source that answers with
\* nothing usable never empties it.  (fetchAndUpdate)
NotEmptied ==
    \A l \in Lists :
        lists[l] # NoList /\ lists[l].ips = {} =>
            savedAs[l] # NoList /\ savedAs[l].ips = {}

\* The saving of lists creates no conflict silently
\* (DenyAllowController.java:69: an address that is on a list of the other
\* type is reported, "not silently created"): an address on lists of both
\* types is one an admin was told of.
NoSilentConflict ==
    Addresses(Of("deny")) \cap Addresses(Of("allow")) \subseteq told
=============================================================================
