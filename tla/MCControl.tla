----------------------------- MODULE MCControl -----------------------------
(* The components around the hub that requests, publishers and restarts    *)
(* drive, for TLC: the HLS server, the relay sessions and the static push.  *)
(* They share no state: which says whose behaviours are explored, and the  *)
(* settings of the others stay fixed.                                      *)
EXTENDS HlsServer, RtmpRelay, StaticPush

CONSTANTS p1, p2

VARIABLE which

vars == <<which, serverVars, relayVars, pushVars>>

Init ==
    /\ which \in {"server", "relay", "push"}
    /\ ServerInit /\ RelayInit /\ PushInit
    /\ which # "server" => ~keep
    /\ which # "relay" => ~careful
    /\ which # "push" => overlap

Next ==
    /\ UNCHANGED which
    /\ \/ which = "server" /\ ServerNext /\ UNCHANGED <<relayVars, pushVars>>
       \/ which = "relay" /\ RelayNext /\ UNCHANGED <<serverVars, pushVars>>
       \/ which = "push" /\ PushNext /\ UNCHANGED <<serverVars, relayVars>>

\* A component that is not explored stays in its initial state, where none of
\* the actions in its fairness conditions is enabled.
Spec == Init /\ [][Next]_vars /\ ServerFairness /\ RelayFairness /\ PushFairness
=============================================================================
