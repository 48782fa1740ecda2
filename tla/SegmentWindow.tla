--------------------------- MODULE SegmentWindow ---------------------------
(***************************************************************************)
(* What a live playlist promises (protocol/hls/cache.go): the last Size    *)
(* segments of a stream, oldest first, with consecutive sequence numbers.  *)
(* Between the removal of the oldest and the arrival of the new one a      *)
(* reader may see one segment less.                                        *)
(***************************************************************************)
EXTENDS Integers, Sequences

CONSTANT Size

VARIABLE window      \* the sequence numbers offered

WindowInit == window = <<>>

Evict ==
    /\ Len(window) = Size
    /\ window' = Tail(window)

Add ==
    /\ Len(window) < Size
    /\ \/ window = <<>> /\ window' = <<1>>
       \/ window # <<>> /\ window' = Append(window, window[Len(window)] + 1)

WindowNext == Evict \/ Add
=============================================================================
