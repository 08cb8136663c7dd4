------------------------------ MODULE MCAsnBan ------------------------------
(***************************************************************************)
(* Small instances of AsnBan: two request threads, two rows, pages of one  *)
(* or two decisions.                                                       *)
(***************************************************************************)
EXTENDS AsnBan, TLC

CONSTANTS t1, t2, i1, i2, as1, as2, net1, net2

MCThreads == {t1, t2}
MCIds == {i1, i2}
MCAsns == {as1, as2}
MCRanges == {net1, net2}
Symmetry == Permutations(MCThreads) \cup Permutations(MCIds)
            \cup Permutations(MCAsns) \cup Permutations(MCRanges)
=============================================================================
