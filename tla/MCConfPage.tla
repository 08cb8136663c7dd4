----------------------------- MODULE MCConfPage -----------------------------
(***************************************************************************)
(* Two states of the database, the second of which includes a file less.   *)
(***************************************************************************)
EXTENDS ConfPage, TLC

CONSTANTS allowlist, site

MCNames == {allowlist, site}
MCPos == (allowlist :> 2) @@ (site :> 1)
MCSubsOf == <<{allowlist, site}, {allowlist}>>
=============================================================================
