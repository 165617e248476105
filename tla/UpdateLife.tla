------------------------------ MODULE UpdateLife ------------------------------
(***************************************************************************)
(* What the repaint machinery promises a client of each wl_surface.commit: *)
(* its frame callback is answered once, at the repaint that takes it, with *)
(* all that wait; its presentation feedback is answered once, presented    *)
(* after that repaint or discarded; and only repainted updates are shown.  *)
(* The outputs of every backend implement this, whatever drives the loop.  *)
(***************************************************************************)
EXTENDS Naturals

VARIABLES
  made,      \* commits so far; update n is the n-th
  callbacks, \* updates whose frame callback waits
  feedback,  \* updates whose feedback waits
  presented, \* updates whose feedback was answered as presented
  discarded, \* updates whose feedback was answered as discarded
  shown      \* updates on the screen once

uvars == <<made, callbacks, feedback, presented, discarded, shown>>

Updates == 1 .. made
Repainted == Updates \ callbacks

Init ==
  /\ made = 0
  /\ callbacks = {} /\ feedback = {}
  /\ presented = {} /\ discarded = {} /\ shown = {}

\* The client commits; a new buffer discards feedback that waits for a repaint.
Make ==
  /\ made' = made + 1
  /\ callbacks' = callbacks \cup {made + 1}
  /\ \E old \in SUBSET (feedback \cap callbacks) :
       /\ feedback' = (feedback \ old) \cup {made + 1}
       /\ discarded' = discarded \cup old
  /\ UNCHANGED <<presented, shown>>

\* A frame ends and the next begins: feedback of updates repainted earlier is
\* answered, and the callbacks that wait all are, or none is.
Frame ==
  /\ callbacks' \in {callbacks, {}}
  /\ \E done \in SUBSET (feedback \ callbacks) :
       /\ feedback' = feedback \ done
       /\ presented' = presented \cup done
  /\ shown \subseteq shown' /\ shown' \subseteq Repainted
  /\ UNCHANGED <<made, discarded>>

\* An output goes, and with it the frame that was under way.
Drop ==
  /\ \E lost \in SUBSET (feedback \ callbacks) :
       /\ feedback' = feedback \ lost
       /\ discarded' = discarded \cup lost
  /\ shown \subseteq shown' /\ shown' \subseteq Repainted
  /\ UNCHANGED <<made, callbacks, presented>>

Next == Make \/ Frame \/ Drop

Spec == Init /\ [][Next]_uvars
=============================================================================
