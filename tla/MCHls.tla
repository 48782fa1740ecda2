------------------------------- MODULE MCHls -------------------------------
(* The segmenter and the audio clock of the HLS source, for TLC.  They     *)
(* share no state: which says whose behaviours are explored.               *)
EXTENDS HlsSource, AudioAlign

VARIABLE which

vars == <<which, sourceVars, alignVars>>

Init ==
    /\ SourceInit /\ AlignInit
    /\ which \in {"source", "align"}
    /\ which # "align" => ~steady /\ start = 0

Next ==
    /\ UNCHANGED which
    /\ \/ which = "source" /\ SourceNext /\ UNCHANGED alignVars
       \/ which = "align" /\ AlignNext /\ UNCHANGED sourceVars

Spec == Init /\ [][Next]_vars
=============================================================================
