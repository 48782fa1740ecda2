---------------------------- MODULE AudioAlign ----------------------------
(***************************************************************************)
(* The audio clock of the HLS source (protocol/hls/align.go, used by       *)
(* calcPtsDts): RTMP timestamps are whole milliseconds, an AAC frame lasts *)
(* 90000 * 1024 / sample rate ticks, in general no whole number of either. *)
(* The code cuts that to whole ticks, Inc.  While the timestamps agree     *)
(* within Tol ticks with frames of this length, the frames are numbered    *)
(* from the last base.                                                     *)
(***************************************************************************)
EXTENDS Integers

CONSTANTS Hz,        \* ticks per millisecond: 90
          Tol,       \* syncms * Hz: 180
          Inc,       \* whole ticks per AAC frame: 2089 at 44100 Hz
          Frac, Den, \* what the division cuts off, Frac / Den ticks: 39 / 49
          Jumps,     \* milliseconds between frames of an irregular publisher
          MaxAudio,  \* bound: audio frames of an irregular publisher
          MaxSteady  \* bound: audio frames of a steady one

ASSUME AlignAssumption ==
    /\ Hz \in Nat \ {0} /\ Tol \in Nat /\ Inc \in Nat
    /\ Den \in Nat \ {0} /\ Frac \in 0..(Den - 1)
    /\ MaxAudio \in Nat /\ MaxSteady \in Nat
    /\ Jumps \subseteq Nat
    /\ Hz <= Tol

VARIABLES
    steady,     \* the publisher's clock is exact and only cut to milliseconds
    start,      \* its first timestamp (milliseconds)
    due, rest,  \* the time of its next frame: due + rest / Den ticks
    n,          \* number of frames so far
    dts,        \* the frame's timestamp in ticks, as the publisher sent it
    aligned,    \* what align made of it
    frameNum, frameBase

alignVars == <<steady, start, due, rest, n, dts, aligned, frameNum, frameBase>>

Abs(x) == IF x < 0 THEN -x ELSE x

AlignInit ==
    /\ steady \in BOOLEAN /\ start \in Jumps
    /\ due = start * Hz /\ rest = 0
    /\ n = 0 /\ dts = 0 /\ aligned = 0
    /\ frameNum = 0 /\ frameBase = 0

\* Mutant: the estimate is kept although the frame has moved away from it.
Align_NeverRebases(d) ==
    LET est == frameBase + frameNum * Inc
    IN  /\ frameNum' = frameNum + 1 /\ aligned' = est /\ UNCHANGED frameBase

\* Mutant: the frame that sets a new base is not counted.
Align_BaseNotCounted(d) ==
    LET est == frameBase + frameNum * Inc
    IN  IF Abs(est - d) <= Tol
        THEN frameNum' = frameNum + 1 /\ aligned' = est /\ UNCHANGED frameBase
        ELSE frameNum' = 0 /\ frameBase' = d /\ aligned' = d

\* align, for a frame that came with timestamp d.
Align(d) ==
    LET est == frameBase + frameNum * Inc
    IN  IF Abs(est - d) <= Tol
        THEN frameNum' = frameNum + 1 /\ aligned' = est /\ UNCHANGED frameBase
        ELSE frameNum' = 1 /\ frameBase' = d /\ aligned' = d

\* calcPtsDts for an audio frame with millisecond timestamp t.
CalcAudioDts(t) ==
    /\ n' = n + 1
    /\ dts' = t * Hz
    /\ Align(t * Hz)
    /\ UNCHANGED <<steady, start>>

\* The publisher: its period is Inc + Frac / Den ticks.
Tick ==
    /\ rest' = IF rest + Frac < Den THEN rest + Frac ELSE rest + Frac - Den
    /\ due' = IF rest + Frac < Den THEN due + Inc ELSE due + Inc + 1

SteadyFrame == steady /\ n < MaxSteady /\ CalcAudioDts(due \div Hz) /\ Tick

JumpyFrame ==
    /\ ~steady /\ n < MaxAudio
    /\ \E d \in Jumps : CalcAudioDts((dts \div Hz) + d)
    /\ UNCHANGED <<due, rest>>

AlignNext == SteadyFrame \/ JumpyFrame

AlignSpec == AlignInit /\ [][AlignNext]_alignVars

\* The state has its types, and no more frames are numbered from the base than
\* there have been.
AlignTypeOK ==
    /\ steady \in BOOLEAN /\ start \in Jumps
    /\ due \in Nat /\ rest \in 0..(Den - 1)
    /\ n \in Nat /\ dts \in Nat /\ aligned \in Nat
    /\ frameNum \in Nat /\ frameBase \in Nat
    /\ frameNum <= n

\* The aligned timestamp is never further than Tol from what was sent.
AlignedIsNear == Abs(aligned - dts) <= Tol

\* Audio time does not run backwards, unless the publisher sends two frames
\* within 2 * Tol (4 ms), less than the shortest AAC frame.
AlignedIncreases ==
    [][n' # n /\ dts' - dts > 2 * Tol => aligned' > aligned]_alignVars

\* One more frame of a steady publisher is Inc later than the one before, or
\* sets a new base: a jump forward of Tol to Tol + Hz ticks (2 to 3 ms).
SteadyMove ==
    \/ aligned' = aligned + Inc
    \/ /\ aligned' - aligned - Inc \in (Tol + 1)..(Tol + Hz)
       /\ frameNum > Tol - Hz \/ (frameBase = 0 /\ start > 1)

\* The increment is cut to whole ticks, so the audio clock of a steady publisher
\* falls behind and jumps now and then.  It never jumps back, and not before
\* Tol - Hz frames (90, about two seconds) have been numbered from one base;
\* but for a first timestamp of 2 ms, which counts as 0.
SteadyRarelyJumps ==
    [][steady /\ n >= 1 /\ n' # n => SteadyMove]_alignVars
=============================================================================
