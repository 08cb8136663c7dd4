----------------------------- MODULE MCWafApply -----------------------------
(***************************************************************************)
(* Small instance of WafApply: two rules, two actions, four configurations *)
(* of which one is refused by `crowdsec -t` and one may kill crowdsec.     *)
(***************************************************************************)
EXTENDS WafApply

CONSTANTS r1, r2, block, off

MCRules == {r1, r2}
MCActions == {block, off}
MCRejected == {[r \in MCRules |-> off]}
MCKilling == {[r \in MCRules |-> IF r = r1 THEN off ELSE block]}
MCReadings == {1, 3}
=============================================================================
