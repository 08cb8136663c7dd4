-------------------------- MODULE MCHttpParamSave --------------------------
(***************************************************************************)
(* Small instance of HttpParamSave: a row of a locked group and a disabled *)
(* row nginx would refuse.                                                 *)
(***************************************************************************)
EXTENDS HttpParamSave, TLC

CONSTANTS s1, s2, c1, base, geoip, good, bad

MCSavers == {s1, s2}
MCCheckers == {c1}
MCNames == {base, geoip}
MCValues == {good, bad}
MCInitRows == 1 :> [name |-> base, val |-> good, on |-> TRUE] @@
              2 :> [name |-> geoip, val |-> bad, on |-> FALSE]
MCForms == {<<geoip, good>>, <<geoip, bad>>}
MCRefused == {<<geoip, bad>>}
MCPageConfs == {{<<base, good>>}}
=============================================================================
