----------------------------- MODULE BoundedFifo -----------------------------
(***************************************************************************)
(* What the display command queue of the SPICE backend promises: a queue   *)
(* of at most Capacity commands between one sender and one receiver, which *)
(* the receiver gets in the order they were sent, each of them once.  At   *)
(* shutdown what is left in the queue is discarded from its front.         *)
(***************************************************************************)
EXTENDS Naturals, Sequences

CONSTANT Capacity   \* how many commands may wait

VARIABLES
  queue,   \* the commands waiting, oldest first
  sent,    \* commands accepted so far; command n is the n-th accepted
  last     \* the command the receiver got last, 0 before the first

fvars == <<queue, sent, last>>

Init ==
  /\ queue = <<>>
  /\ sent = 0
  /\ last = 0

Put ==
  /\ Len(queue) < Capacity
  /\ queue' = Append(queue, sent + 1)
  /\ sent' = sent + 1
  /\ UNCHANGED last

Get ==
  /\ queue # <<>>
  /\ last' = Head(queue)
  /\ queue' = Tail(queue)
  /\ UNCHANGED sent

Discard ==
  /\ queue # <<>>
  /\ queue' = Tail(queue)
  /\ UNCHANGED <<sent, last>>

Next == Put \/ Get \/ Discard

Spec == Init /\ [][Next]_fvars
=============================================================================
