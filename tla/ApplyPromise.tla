---------------------------- MODULE ApplyPromise ----------------------------
(***************************************************************************)
(* What applying WAF settings promises to somebody who only looks at the   *)
(* request id and at the last result: requests and results both move       *)
(* forward only, nothing is answered that was not asked, and the latest    *)
(* request is answered in the end.  A request that a newer one overtakes   *)
(* may be skipped, and one that was answered may be answered again (the    *)
(* watcher can stop between result.json and processed).                    *)
(***************************************************************************)
EXTENDS Naturals

VARIABLES asked, answer

Statuses == {"ok", "failed"}

Init == asked = 0 /\ answer = [id |-> 0, status |-> "none"]

Ask == /\ asked' \in Nat /\ asked' > asked
       /\ UNCHANGED answer

AnswerTo(id) ==
    /\ answer.id <= id /\ 0 < id
    /\ \E s \in Statuses : answer' = [id |-> id, status |-> s]
    /\ UNCHANGED asked

Answer == \E id \in 1 .. asked : AnswerTo(id)

AnswerLatest == answer.id < asked /\ AnswerTo(asked)

Next == Ask \/ Answer

Safety == Init /\ [][Next]_<<asked, answer>>
Spec == Safety /\ WF_<<asked, answer>>(AnswerLatest)
=============================================================================
