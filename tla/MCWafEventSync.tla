-------------------------- MODULE MCWafEventSync --------------------------
(***************************************************************************)
(* Small instances of WafEventSync: a WAF hit and one or two alerts of     *)
(* another kind, pages of one, periods of a few seconds in the order of    *)
(* the real ones.                                                          *)
(***************************************************************************)
EXTENDS WafEventSync, TLC

CONSTANTS hit, other, late

MCWaf == {hit}
MCTwo == {hit, other}
MCThree == {hit, other, late}
Symmetry == Permutations({other, late})
=============================================================================
