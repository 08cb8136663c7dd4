------------------------------ MODULE ConfPage ------------------------------
(***************************************************************************)
(* The page that publishes the configuration (conf/index.js): its left     *)
(* side holds the generated configuration, or what the admin types over    *)
(* it, its right side what is on disk, and edit mode copies the right side *)
(* to the left one.  Its requests are answered at any later time and in    *)
(* any order.  The server is that of ConfPublish, with a publish as one    *)
(* step; what it loads is of the time of the request.                      *)
(***************************************************************************)
EXTENDS Integers, FiniteSets, Sequences, SequencesExt

CONSTANTS
    Names, Pos,     \* files of conf.d, and their order in a file list
    Versions, SubsOf,   \* states of the database, and the files each includes
    MaxWork         \* bound: publishes, edits, typing, lost answers

\* What the constants must satisfy; the modules that instantiate this one
\* assume it.
PageAssumption ==
    /\ IsFiniteSet(Names) /\ Pos \in [Names -> Nat]
    /\ \A m, n \in Names : Pos[m] = Pos[n] => m = n
    /\ 0 \notin Versions /\ Versions \subseteq Nat
    /\ SubsOf \in [Versions -> SUBSET Names]
    /\ MaxWork \in Nat

VARIABLES
    db,             \* the version buildConf makes of the database
    disk,           \* the configuration on disk
    left, right,    \* the two sides of the page
    edit,           \* isEditMode
    sending,        \* configurations sent to the server
    answers,        \* answers on their way
    work,           \* counter of the bound
    actual,         \* history: what was on disk as edit mode was entered
    newest,         \* history: what loadConf was asked for last
    lost,           \* history: an answer of loadConf was an error or overtook
                    \* another, since it was asked with none under way
    typed           \* history: the left side was typed over since it was filled

pageVars == <<db, disk, left, right, edit, sending, answers, work, actual,
              newest, lost, typed>>

Own == -1                   \* typed by the admin
Empty == <<>>               \* a file without content
Contents == {Empty} \cup ((Versions \cup {Own}) \X Names)
NoConf == [main |-> 0, subs |-> <<>>]

\* buildConf.
Generated(v) == [main |-> v, subs |-> [n \in SubsOf[v] |-> <<v, n>>]]

\* loadOrg lists the files the database would generate, with what is on disk
\* under their names.
Original(v, c) ==
    [main |-> c.main, subs |-> [n \in SubsOf[v] |-> IF n \in DOMAIN c.subs
                                                    THEN c.subs[n] ELSE Empty]]

LoadConf(v) == [kind |-> "conf", conf |-> Generated(v)]
LoadOrg(v) == [kind |-> "org", conf |-> Original(v, disk)]
Saved == [kind |-> "saved", conf |-> NoConf]

IsConf(a) == a.kind = "conf"
UnderWay == \E i \in DOMAIN answers : IsConf(answers[i])

\* The histories as loadConf is called.
Ask(v) == newest' = v /\ lost' = (lost /\ UnderWay)

Init ==
    /\ \E old, new \in Versions :
          /\ db = new /\ disk = Generated(old)
          /\ left = Generated(new)
          /\ right = Original(new, Generated(old)) /\ newest = new
    /\ edit = FALSE /\ sending = {} /\ answers = <<>> /\ work = 0
    /\ actual = NoConf /\ lost = FALSE /\ typed = FALSE

Work == work < MaxWork /\ work' = work + 1

\* The whole page is shown for some time with what it was loaded with; other
\* pages change the database and publish meanwhile.
EditDb(v) ==
    /\ v # db /\ Work /\ db' = v
    /\ UNCHANGED <<disk, left, right, edit, sending, answers, actual, newest,
                   lost, typed>>

OthersPublish ==
    /\ Work /\ disk' = Generated(db)
    /\ UNCHANGED <<db, left, right, edit, sending, answers, actual, newest,
                   lost, typed>>

\* The decompose switch, which edit mode blocks.
Decompose(v) ==
    /\ ~edit /\ v # db /\ Work
    /\ db' = v
    /\ answers' = answers \o <<LoadConf(v), LoadOrg(v)>> /\ Ask(v)
    /\ UNCHANGED <<disk, left, right, edit, sending, actual, typed>>

\* The editors of the left side are writable, in edit mode or not.
Type ==
    /\ Work /\ typed' = TRUE
    /\ \/ left' = [left EXCEPT !.main = Own]
       \/ \E n \in DOMAIN left.subs :
             left' = [left EXCEPT !.subs[n] = <<Own, n>>]
    /\ UNCHANGED <<db, disk, right, edit, sending, answers, actual, newest,
                   lost>>

\* replace(): the left side is sent as it is now.
Replace ==
    /\ Work /\ sending' = sending \cup {left}
    /\ UNCHANGED <<db, disk, left, right, edit, answers, actual, newest, lost,
                   typed>>

ServerReplaces(c) ==
    /\ sending' = sending \ {c}
    /\ disk' = c
    /\ answers' = Append(answers, Saved)
    /\ UNCHANGED <<db, left, right, edit, work, actual, newest, lost, typed>>

\* The server answers with an error: an alert.
ServerRefuses(c) ==
    /\ Work /\ sending' = sending \ {c}
    /\ UNCHANGED <<db, disk, left, right, edit, answers, actual, newest, lost,
                   typed>>

ConfArrives(i) ==
    /\ IsConf(answers[i])
    /\ left' = answers[i].conf /\ typed' = FALSE
    /\ answers' = RemoveAt(answers, i)
    /\ lost' = (lost \/ \E j \in DOMAIN answers : j < i /\ IsConf(answers[j]))
    /\ UNCHANGED <<db, disk, right, edit, sending, work, actual, newest>>

OrgArrives(i) ==
    /\ answers[i].kind = "org"
    /\ right' = answers[i].conf
    /\ answers' = RemoveAt(answers, i)
    /\ UNCHANGED <<db, disk, left, edit, sending, work, actual, newest, lost,
                   typed>>

\* Mutant: the generated configuration is not loaded again.
AfterSavedNothing == <<LoadOrg(db)>>
AfterSaved == IF edit THEN <<LoadOrg(db), LoadConf(db)>> ELSE <<LoadOrg(db)>>

SavedArrives(i) ==
    /\ answers[i].kind = "saved"
    /\ answers' = RemoveAt(answers, i) \o AfterSaved
    /\ edit' = FALSE /\ actual' = NoConf
    /\ IF edit THEN Ask(db) ELSE UNCHANGED <<newest, lost>>
    /\ UNCHANGED <<db, disk, left, right, sending, work, typed>>

AnswerFails(i) ==
    /\ Work
    /\ answers' = RemoveAt(answers, i)
    /\ lost' = (lost \/ IsConf(answers[i]))
    /\ UNCHANGED <<db, disk, left, right, edit, sending, actual, newest, typed>>

\* The files are copied by their position in the two lists.
Rank(n, subs) == Cardinality({m \in DOMAIN subs : Pos[m] <= Pos[n]})
SameRank(n, to, from) == {m \in DOMAIN from : Rank(m, from) = Rank(n, to)}
CopyByRank(to, from) ==
    [n \in DOMAIN to |-> IF SameRank(n, to, from) = {} THEN to[n]
                         ELSE from[CHOOSE m \in SameRank(n, to, from) : TRUE]]

EnterEdit ==
    /\ ~edit /\ edit' = TRUE /\ typed' = FALSE
    /\ left' = [main |-> right.main, subs |-> CopyByRank(left.subs, right.subs)]
    /\ actual' = IF right = Original(db, disk) THEN disk ELSE NoConf
    /\ UNCHANGED <<db, disk, right, sending, answers, work, newest, lost>>

ExitEdit ==
    /\ edit /\ edit' = FALSE
    /\ Work
    /\ answers' = Append(answers, LoadConf(db)) /\ Ask(db)
    /\ actual' = NoConf
    /\ UNCHANGED <<db, disk, left, right, sending, typed>>

Next ==
    \/ \E v \in Versions : EditDb(v) \/ Decompose(v)
    \/ OthersPublish \/ Type \/ Replace \/ EnterEdit \/ ExitEdit
    \/ \E c \in sending : ServerReplaces(c) \/ ServerRefuses(c)
    \/ \E i \in DOMAIN answers :
          ConfArrives(i) \/ OrgArrives(i) \/ SavedArrives(i) \/ AnswerFails(i)

Spec == Init /\ [][Next]_pageVars

-----------------------------------------------------------------------------
(* Properties.                                                             *)

\* Outside edit mode, what Replace would publish is what loadConf was asked
\* for last, or what was typed over it, unless an answer of loadConf is under
\* way: nothing of an edit mode that was left stays, whatever was published,
\* refused or typed in it.  An error answer, or one that overtakes another,
\* breaks this until loadConf is called with no answer under way.
\* (loadConf after replace and exitEditMode)
LeftIsGenerated ==
    ~edit /\ ~typed /\ ~lost /\ ~UnderWay => left = Generated(newest)

\* In edit mode the left side holds the files as they were on disk
\* (messages_en_US.properties:230: "The left editor will load the actual
\* config file"), if the right side shows them as they are, until something
\* is typed.
EditShowsActual ==
    edit /\ ~typed /\ actual # NoConf =>
        /\ left.main = actual.main
        /\ \A n \in DOMAIN actual.subs :
              n \in DOMAIN left.subs /\ left.subs[n] = actual.subs[n]
=============================================================================
