---------------------------- MODULE MCPanelParts ----------------------------
(***************************************************************************)
(* The small parts of the panel on small instances.  They share nothing,   *)
(* so that nothing is missed if in each behaviour one of them, the one in  *)
(* focus, runs and the others stay as they started.                        *)
(***************************************************************************)
EXTENDS PanelParts, Sequences, TLC

CONSTANTS allowlist, site, nonce, c1, c2, alpha, beta, p1, task, w1, w2,
          l1, l2, ip1, ip2, a1, red

VARIABLE focus

MCWorkers == {w1, w2}
MCNames == {allowlist, site}
MCPos == (allowlist :> 1) @@ (site :> 2)
\* Two states of the database, the second of which includes a file less.
MCVersions == {1, 2}
MCSubsOf == <<{allowlist, site}, {allowlist}>>
\* Publishes, restores and deletions of backups, counted with their failures.
PublishWork == 3
MCNonces == {nonce}
\* Worker clocks that are behind, right, as far ahead as they may be, and too
\* far.
MCSkews == {-1, 0, 2, 3}
\* Two hits of one request, the second of which is older, and one of another.
MCAlerts == {1, 2, 3}
MCKeyOf == <<1, 1, 2>>
MCTimeOf == <<3, 2, 5>>
MCRulesOf == <<{"r1"}, {"r1", "r2"}, {"r3"}>>
MCCutoffs == {3, 6}
MCClients == {c1, c2}
MCCerts == {alpha, beta}
MCPages == {p1}
\* A list with a source and one without.
MCIpLists == {l1, l2}
MCSourced == {l1}
MCIps == {ip1, ip2}
MCAdmins == {a1}
\* The first of three servers has a location; the last may lack a number.  The
\* forms keep its path and type, one beside another location of that path.
MCFirstPlace == <<alpha, 0>>
MCServerForms ==
    {[params |-> <<1, 2>>, locs |-> <<[place |-> <<alpha, 0>>,
                                       params |-> <<1>>]>>],
     [params |-> <<>>, locs |-> <<[place |-> <<alpha, 1>>, params |-> <<>>],
                                  [place |-> <<alpha, 0>>, params |-> <<>>]>>]}
MCDescrs == {red}

Symmetry == Permutations(MCWorkers)

Parts == {"publish", "page", "pass", "store", "token", "cert", "lists",
          "servers"}

MCInit ==
    /\ focus \in Parts
    /\ Init
    /\ focus # "publish" => live.main.c = 1
    /\ focus # "page" => db = 1 /\ disk.main = 1
    /\ focus # "pass" => /\ mode = "external" /\ skew = 0
                         /\ \A i \in DOMAIN decisions : decisions[i] = "none"
    /\ focus # "servers" => \A s \in DOMAIN servers : servers[s].seq = s

MCNext ==
    /\ focus' = focus
    /\ \/ focus = "publish" /\ PublishStep /\ requests' + faults' <= PublishWork
       \/ focus = "page" /\ PageStep
       \/ focus = "pass" /\ PassStep
       \/ focus = "store" /\ StoreStep
       \/ focus = "token" /\ TokenStep
       \/ focus = "cert" /\ CertStep
       \/ focus = "lists" /\ ListStep
       \/ focus = "servers" /\ ServerStep

MCSpec == MCInit /\ [][MCNext]_<<focus, partsVars>>
=============================================================================
