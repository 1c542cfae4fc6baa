----------------------------- MODULE FrameGate -----------------------------
(***************************************************************************)
(* What playout_reset() promises about the pictures of a stream that is    *)
(* being torn down.  Streams follow each other, one era each.  The         *)
(* presenter takes a frame and later shows it or drops it; a frame can     *)
(* only be taken while its stream is the current one, and between two      *)
(* takes at most one frame is under way.  So a frame that outlives its     *)
(* stream is the single one the presenter already held.                    *)
(***************************************************************************)
EXTENDS Naturals

CONSTANT None    \* no frame

VARIABLES
  current,   \* era of the current stream
  taken,     \* era of the frame the presenter holds, or None
  shown      \* era of the frame on screen, or None

gateVars == <<current, taken, shown>>

Init == current = 0 /\ taken = None /\ shown = None

Take == taken = None /\ taken' = current /\ UNCHANGED <<current, shown>>

Show ==
  /\ taken # None
  /\ shown' = taken
  /\ taken' = None
  /\ UNCHANGED current

Drop == taken # None /\ taken' = None /\ UNCHANGED <<current, shown>>

Reset == current' = current + 1 /\ UNCHANGED <<taken, shown>>

Next == Take \/ Show \/ Drop \/ Reset

Spec == Init /\ [][Next]_gateVars
=============================================================================
