----------------------------- MODULE CertApply -----------------------------
(***************************************************************************)
(* Applying for certificates (CertController.apply): pages and the renewal *)
(* task call acme.sh, guarded by the flag isInApply, which is tested and   *)
(* set in two steps.  A row is read when its turn comes and written back   *)
(* whole when acme.sh has ended, up to three minutes later.  Settings of a *)
(* row are one value, the state the last edit gave it.                     *)
(***************************************************************************)
EXTENDS Integers, FiniteSets

CONSTANTS
    Certs,
    Pages,          \* requests that call apply
    Task,           \* certTasks
    NoCert, NoRow,
    MaxEdits, MaxRenewals   \* bounds

\* What the constants must satisfy; the modules that instantiate this one
\* assume it.
CertAssumption ==
    /\ IsFiniteSet(Certs) /\ Task \notin Pages /\ NoCert \notin Certs
    /\ NoRow \notin [edit : Nat, old : BOOLEAN]
    /\ {MaxEdits, MaxRenewals} \subseteq Nat

Callers == Pages \cup {Task}

VARIABLES
    rows,           \* table cert: when made and the state of its settings
    isInApply,
    listed,         \* certTasks: its list of rows, due ones not yet renewed
    step, cert, row,    \* each call of apply: where it stands, its argument
                        \* and the row it read
    edited,         \* history: what the last edit left
    during,         \* history: it came while a call held the row
    thrown,         \* history: a call ended with an exception
    edits, renewals     \* counters of the bounds

certVars == <<rows, isInApply, listed, step, cert, row, edited, during,
              thrown, edits, renewals>>

Row(e, old) == [edit |-> e, old |-> old]

Init ==
    /\ rows = [c \in Certs |-> Row(0, TRUE)]
    /\ isInApply = FALSE /\ listed = <<>>
    /\ step = [p \in Callers |-> "idle"]
    /\ cert = [p \in Callers |-> NoCert]
    /\ row = [p \in Callers |-> NoRow]
    /\ edited = [c \in Certs |-> 0] /\ during = [c \in Certs |-> FALSE]
    /\ thrown = FALSE /\ edits = 0 /\ renewals = 0

noEdit == <<edited, during, edits>>

\* addOver and setAutoRenew, or del, of a row that is there.
Held(c) == \E p \in Callers : row[p] # NoRow /\ cert[p] = c
Noted(c, e) ==
    /\ edits < MaxEdits /\ edits' = edits + 1
    /\ edited' = [edited EXCEPT ![c] = e]
    /\ during' = [during EXCEPT ![c] = Held(c)]

Edit(c) ==
    /\ rows[c] # NoRow
    /\ rows' = [rows EXCEPT ![c].edit = edits + 1]
    /\ Noted(c, edits + 1)
    /\ UNCHANGED <<isInApply, listed, step, cert, row, thrown, renewals>>

Del(c) ==
    /\ rows[c] # NoRow
    /\ rows' = [rows EXCEPT ![c] = NoRow]
    /\ Noted(c, -1)
    /\ UNCHANGED <<isInApply, listed, step, cert, row, thrown, renewals>>

\* Sixty days later.
Ages(c) ==
    /\ rows[c] # NoRow /\ ~rows[c].old
    /\ rows' = [rows EXCEPT ![c].old = TRUE]
    /\ UNCHANGED <<isInApply, listed, step, cert, row, noEdit, thrown,
                   renewals>>

-----------------------------------------------------------------------------
(* certTasks: a list, and apply for each row of it that is due.            *)

TaskStarts ==
    /\ listed = <<>> /\ step[Task] = "idle"
    /\ listed' = [c \in {d \in Certs : rows[d] # NoRow /\ rows[d].old}
                    |-> rows[c]]
    /\ UNCHANGED <<rows, isInApply, step, cert, row, noEdit, thrown, renewals>>

Without(c) == [d \in DOMAIN listed \ {c} |-> listed[d]]

Entering(p, c) ==
    /\ step[p] = "idle" /\ renewals < MaxRenewals
    /\ p = Task => c \in DOMAIN listed

\* apply answers at once while another call is in it; the task goes on with
\* its next row.  (An answer to a page changes nothing.)
Busy(c) ==
    /\ Entering(Task, c) /\ isInApply
    /\ listed' = Without(c)
    /\ UNCHANGED <<rows, isInApply, step, cert, row, noEdit, thrown, renewals>>

Test(p, c) ==
    /\ Entering(p, c) /\ ~isInApply
    /\ step' = [step EXCEPT ![p] = "tested"]
    /\ cert' = [cert EXCEPT ![p] = c]
    /\ renewals' = renewals + 1
    /\ UNCHANGED <<rows, isInApply, listed, row, noEdit, thrown>>

SetFlag(p) ==
    /\ step[p] = "tested" /\ isInApply' = TRUE
    /\ step' = [step EXCEPT ![p] = "set"]
    /\ UNCHANGED <<rows, listed, cert, row, noEdit, thrown, renewals>>

Leave(p) ==
    /\ step' = [step EXCEPT ![p] = "idle"]
    /\ cert' = [cert EXCEPT ![p] = NoCert]
    /\ row' = [row EXCEPT ![p] = NoRow]

\* findById.  Mutant: the task's own row is used.
RowListed(p, c) == IF p = Task THEN listed[c] ELSE rows[c]
RowRead(p, c) == rows[c]

ReadRow(p) ==
    /\ step[p] = "set" /\ rows[cert[p]] # NoRow
    /\ row' = [row EXCEPT ![p] = RowRead(p, cert[p])]
    /\ step' = [step EXCEPT ![p] = "acme"]
    /\ listed' = IF p = Task THEN Without(cert[p]) ELSE listed
    /\ UNCHANGED <<rows, isInApply, cert, noEdit, thrown, renewals>>

\* The certificate was deleted: a NullPointerException, which also ends the
\* task.
Throws(p) ==
    /\ step[p] = "set" /\ rows[cert[p]] = NoRow
    /\ Leave(p) /\ thrown' = TRUE
    /\ listed' = IF p = Task THEN <<>> ELSE listed
    /\ UNCHANGED <<rows, isInApply, noEdit, renewals>>

\* acme.sh ends with a certificate: updateById, which inserts a row that is
\* gone (under a new id, which is not told apart here), a reload of nginx,
\* and the flag is cleared.
Succeeds(p) ==
    /\ step[p] = "acme"
    /\ rows' = [rows EXCEPT ![cert[p]] = [row[p] EXCEPT !.old = FALSE]]
    /\ isInApply' = FALSE /\ Leave(p)
    /\ UNCHANGED <<listed, noEdit, thrown, renewals>>

\* acme.sh ends without one, is cut off after three minutes, or was not
\* started because there is no DNS record.  Mutant: the flag stays.
ClearedNot == isInApply
Cleared == FALSE

Fails(p) ==
    /\ step[p] = "acme"
    /\ isInApply' = Cleared /\ Leave(p)
    /\ UNCHANGED <<rows, listed, noEdit, thrown, renewals>>

Next ==
    \/ TaskStarts
    \/ \E c \in Certs :
          \/ Edit(c) \/ Del(c) \/ Ages(c)
          \/ Busy(c)
          \/ \E p \in Callers : Test(p, c)
    \/ \E p \in Callers : \/ SetFlag(p) \/ ReadRow(p) \/ Throws(p)
                          \/ Succeeds(p) \/ Fails(p)

Spec == Init /\ [][Next]_certVars

-----------------------------------------------------------------------------
(* Properties.                                                             *)

\* An edit, or the deletion, of a certificate is undone by an apply only if
\* it came while acme.sh ran for that certificate; what came while the task
\* renewed others before it, or waited, is kept.  (apply reads by id)
EditSurvives ==
    \A c \in Certs :
        \/ during[c]
        \/ IF rows[c] = NoRow THEN edited[c] = -1
           ELSE rows[c].edit = edited[c]

\* Applying is not locked for good: while no call is in apply the flag is
\* down, although two calls may have passed its test together.  Only an
\* exception leaves it up.  (isInApply)
FlagHasOwner ==
    isInApply /\ ~thrown => \E p \in Callers : step[p] \in {"set", "acme"}
=============================================================================
