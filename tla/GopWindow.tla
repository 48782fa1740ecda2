------------------------------ MODULE GopWindow ------------------------------
(***************************************************************************)
(* What a room's packet cache promises a player that joins late: the       *)
(* newest metadata and sequence headers, then the newest N groups of       *)
(* pictures, oldest first, each of them from its key frame on and without  *)
(* a gap (up to Cap packets).                                              *)
(***************************************************************************)
EXTENDS Naturals, Sequences

CONSTANTS N, Cap, None,
          Metas, VideoSeqs, AudioSeqs,  \* packets of which the newest counts
          KeyFrames, Others             \* packets of the groups

VARIABLES meta, vseq, aseq,  \* the newest packet of each kind
          window,            \* the newest groups of pictures
          replay             \* what a player that joins now was sent

wvars == <<meta, vseq, aseq, window, replay>>

WInit ==
    /\ meta = None /\ vseq = None /\ aseq = None
    /\ window = <<>>
    /\ replay = <<>>

PutMeta(p) == meta' = p /\ replay' = <<>> /\ UNCHANGED <<vseq, aseq, window>>
PutVideoSeq(p) == vseq' = p /\ replay' = <<>> /\ UNCHANGED <<meta, aseq, window>>
PutAudioSeq(p) == aseq' = p /\ replay' = <<>> /\ UNCHANGED <<meta, vseq, window>>

\* A key frame opens a group; the oldest one leaves a full window.
PutKey(p) ==
    /\ window' = Append(IF Len(window) < N THEN window ELSE Tail(window), <<p>>)
    /\ replay' = <<>>
    /\ UNCHANGED <<meta, vseq, aseq>>

\* Anything else goes to the newest group, unless that is full.
PutOther(p) ==
    /\ window # <<>>
    /\ window' = [window EXCEPT ![Len(window)] = IF Len(@) < Cap THEN Append(@, p) ELSE @]
    /\ replay' = <<>>
    /\ UNCHANGED <<meta, vseq, aseq>>

Join ==
    /\ replay' = <<meta, vseq, aseq, window>>
    /\ UNCHANGED <<meta, vseq, aseq, window>>

WNext ==
    \/ \E p \in Metas : PutMeta(p)
    \/ \E p \in VideoSeqs : PutVideoSeq(p)
    \/ \E p \in AudioSeqs : PutAudioSeq(p)
    \/ \E p \in KeyFrames : PutKey(p)
    \/ \E p \in Others : PutOther(p)
    \/ Join

WSpec == WInit /\ [][WNext]_wvars
=============================================================================
