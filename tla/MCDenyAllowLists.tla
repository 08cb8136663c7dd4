-------------------------- MODULE MCDenyAllowLists --------------------------
(***************************************************************************)
(* Two lists without a source, one admin: nothing overlaps or is downloaded*)
(***************************************************************************)
EXTENDS DenyAllowLists
=============================================================================
