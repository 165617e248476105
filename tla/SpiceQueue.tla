------------------------------ MODULE SpiceQueue ------------------------------
(***************************************************************************)
(* The QXL command ring of the SPICE backend (src/src/spice/               *)
(* weston_qxl_interface.c): the compositor thread calls push_command for   *)
(* every repaint, the worker thread of libspice-server calls               *)
(* weston_spice_get_command and weston_spice_release_resource, and at      *)
(* shutdown weston_spice_qxl_destroy drains what is left.                  *)
(*                                                                         *)
(* `commands.start` and `commands.end` are plain ints shared without a     *)
(* lock or an atomic.  Every step below therefore makes at most one access *)
(* to a location the other thread writes; where a build may either keep a  *)
(* value in a register or load it again, both are allowed.  The stores of  *)
(* one thread become visible in program order (x86).                       *)
(***************************************************************************)
EXTENDS Integers

CONSTANTS
  MAX_COMMAND_NUM,       \* slots of commands.vector (1024 in the code)
  MAX_WAIT_ITERATIONS,   \* sleeps of push_command on a full ring (10)
  MaxFrames              \* bound: paint commands allocated in a behaviour

ASSUME QueueAssumption ==
  /\ MAX_COMMAND_NUM \in Nat \ {0}
  /\ MAX_WAIT_ITERATIONS \in Nat
  /\ MaxFrames \in Nat

VARIABLES
  vector,   \* slot -> command number, 0 is the NULL the array starts with
  start,    \* commands.start
  end,      \* commands.end
  ppc,      \* where the compositor thread is
  regE,     \* compositor thread: its copy of commands.end
  regS,     \* compositor thread: its copy of commands.start
  tries,    \* push_command: i
  cpc,      \* where the worker thread is
  cEnd,     \* worker thread: its copy of commands.end
  vm,       \* whether the worker polls: spice_server_vm_start/vm_stop
  sent,     \* commands push_command accepted; the n-th is command n
  got,      \* commands the worker (or the drain) took out of the ring
  last,     \* the command the worker took last
  held,     \* commands the worker took and has not released
  lost,     \* commands push_command refused: never queued, never freed
  raced     \* a push was under way while the worker was wrapping the indices

ringVars == <<vector, start, end>>
producerVars == <<ppc, regE, regS, tries, sent, lost, vm>>
consumerVars == <<cpc, cEnd, got, last, held>>
vars == <<ringVars, producerVars, consumerVars, raced>>

Slots == 0 .. MAX_COMMAND_NUM - 1
Slot(i) == i % MAX_COMMAND_NUM
Commands == 1 .. MaxFrames
ProducerPC == {"idle", "assertEnd", "assertStart", "asserted", "slept",
               "countStart", "counted", "store", "inc", "drain", "done",
               "wild", "aborted"}
ConsumerPC == {"idle", "read", "inc", "wrapStart", "wrapLoad", "wrapStore",
               "assert", "aborted"}

Crashed == ppc \in {"wild", "aborted"} \/ cpc = "aborted"

\* ASSERT_COMMANDS, evaluated on the values a thread has loaded.
AssertCommands(s, e) == e - s <= MAX_COMMAND_NUM /\ e >= s

\* The worker has stored start = MAX_COMMAND_NUM and not yet both remainders;
\* in the second part only start is reduced.
InWrap == cpc \in {"wrapStart", "wrapLoad", "wrapStore"}
Wrapping == cpc \in {"wrapLoad", "wrapStore"}

\* push_command holds a loaded commands.end that it may still use.
Pushing ==
  ppc \in {"assertStart", "asserted", "countStart", "counted", "store", "inc"}

Init ==
  /\ vector = [s \in Slots |-> 0]
  /\ start = 0 /\ end = 0
  /\ ppc = "idle" /\ regE = 0 /\ regS = 0 /\ tries = 0
  /\ cpc = "idle" /\ cEnd = 0
  /\ vm = "running"
  /\ sent = 0 /\ got = 0 /\ last = 0 /\ held = {} /\ lost = 0
  /\ raced = FALSE
-----------------------------------------------------------------------------
(***************************************************************************)
(* Compositor thread: spice_paint_image allocates a command and pushes it. *)
(***************************************************************************)
PushBegin ==
  /\ ppc = "idle" /\ vm = "running"
  /\ sent + lost < MaxFrames
  /\ ppc' = "assertEnd" /\ tries' = 0
  /\ UNCHANGED <<ringVars, regE, regS, sent, lost, vm>>

PushAssertEnd ==
  /\ ppc = "assertEnd"
  /\ regE' = end /\ ppc' = "assertStart"
  /\ UNCHANGED <<ringVars, regS, tries, sent, lost, vm>>

PushAssertStart ==
  /\ ppc = "assertStart"
  /\ regS' = start
  /\ ppc' = IF AssertCommands(start, regE) THEN "asserted" ELSE "aborted"
  /\ UNCHANGED <<ringVars, regE, tries, sent, lost, vm>>

\* The loop condition loads both indices again, always so after usleep.
PushCountEnd ==
  /\ ppc \in {"asserted", "slept"}
  /\ regE' = end /\ ppc' = "countStart"
  /\ UNCHANGED <<ringVars, regS, tries, sent, lost, vm>>

PushCountStart ==
  /\ ppc = "countStart"
  /\ regS' = start /\ ppc' = "counted"
  /\ UNCHANGED <<ringVars, regE, tries, sent, lost, vm>>

\* Mutation: the ring accepts one command more than it has slots.
Full_OffByOne == regE - regS > MAX_COMMAND_NUM

\* The loop condition, on loaded values or on those of the assertion.
Full == regE - regS >= MAX_COMMAND_NUM

PushAccept ==
  /\ ppc \in {"asserted", "counted"} /\ ~Full
  /\ ppc' = "store"
  /\ UNCHANGED <<ringVars, regE, regS, tries, sent, lost, vm>>

PushSleep ==
  /\ ppc \in {"asserted", "counted"} /\ Full
  /\ tries < MAX_WAIT_ITERATIONS
  /\ tries' = tries + 1 /\ ppc' = "slept"
  /\ UNCHANGED <<ringVars, regE, regS, sent, lost, vm>>

\* push_command returns FALSE; spice_paint_image ignores it and returns 0.
PushRefuse ==
  /\ ppc \in {"asserted", "counted"} /\ Full
  /\ tries >= MAX_WAIT_ITERATIONS
  /\ lost' = lost + 1 /\ ppc' = "idle"
  /\ UNCHANGED <<ringVars, regE, regS, tries, sent, vm>>

\* A build may load commands.end again for the store and the increment.
PushReload ==
  /\ ppc \in {"store", "inc"}
  /\ regE' = end
  /\ UNCHANGED <<ringVars, ppc, regS, tries, sent, lost, vm>>

\* Mutation: the slot is taken from the already incremented index.
PushStore_Ahead ==
  /\ ppc = "store"
  /\ vector' = [vector EXCEPT ![Slot(regE + 1)] = sent + 1]
  /\ ppc' = "inc"
  /\ UNCHANGED <<start, end, regE, regS, tries, sent, lost, vm>>

PushStore ==
  /\ ppc = "store"
  /\ vector' = [vector EXCEPT ![Slot(regE)] = sent + 1]
  /\ ppc' = "inc"
  /\ UNCHANGED <<start, end, regE, regS, tries, sent, lost, vm>>

PushInc ==
  /\ ppc = "inc"
  /\ end' = regE + 1
  /\ sent' = sent + 1 /\ ppc' = "idle"
  /\ UNCHANGED <<vector, start, regE, regS, tries, lost, vm>>

\* spice_destroy: spice_server_vm_stop waits for the worker to stop polling.
VmStop ==
  /\ ppc = "idle" /\ vm = "running" /\ cpc = "idle"
  /\ vm' = "stopped" /\ ppc' = "drain"
  /\ UNCHANGED <<ringVars, regE, regS, tries, sent, lost>>

\* weston_spice_qxl_destroy: the slot is not reduced modulo the ring's size.
DrainStep ==
  /\ ppc = "drain" /\ start < end
  /\ start' = start + 1
  /\ IF start \in Slots
     THEN ppc' = ppc /\ got' = got + 1
     ELSE ppc' = "wild" /\ got' = got
  /\ UNCHANGED <<vector, end, regE, regS, tries, sent, lost, vm>>

DrainDone ==
  /\ ppc = "drain" /\ start >= end
  /\ ppc' = "done"
  /\ UNCHANGED <<ringVars, regE, regS, tries, sent, lost, vm>>

Producer ==
  \/ /\ \/ PushBegin \/ PushAssertEnd \/ PushAssertStart
        \/ PushCountEnd \/ PushCountStart
        \/ PushAccept \/ PushSleep \/ PushRefuse
        \/ PushReload \/ PushStore \/ PushInc
        \/ VmStop \/ DrainDone
     /\ UNCHANGED consumerVars
  \/ DrainStep /\ UNCHANGED <<cpc, cEnd, last, held>>
-----------------------------------------------------------------------------
(***************************************************************************)
(* Worker thread.  It alone writes `start` while it runs, so its own loads *)
(* of `start` need no step.                                                *)
(***************************************************************************)
\* Mutation: the last waiting command is left in the ring.
GetCount_KeepsOne ==
  /\ cpc = "idle" /\ vm = "running"
  /\ end - start > 1
  /\ cpc' = "read"
  /\ UNCHANGED <<ringVars, cEnd, got, last, held>>

\* count = end - start; with count <= 0 the call returns FALSE.
GetCount ==
  /\ cpc = "idle" /\ vm = "running"
  /\ end - start > 0
  /\ cpc' = "read"
  /\ UNCHANGED <<ringVars, cEnd, got, last, held>>

GetRead ==
  /\ cpc = "read"
  /\ last' = vector[start]
  /\ held' = held \cup {vector[start]}
  /\ got' = got + 1
  /\ cpc' = "inc"
  /\ UNCHANGED <<ringVars, cEnd>>

\* Mutation: the wrap test is one too late.
GetInc_LateWrap ==
  /\ cpc = "inc"
  /\ start' = start + 1
  /\ cpc' = IF start + 1 > MAX_COMMAND_NUM THEN "wrapStart" ELSE "assert"
  /\ UNCHANGED <<vector, end, cEnd, got, last, held>>

GetInc ==
  /\ cpc = "inc"
  /\ start' = start + 1
  /\ cpc' = IF start + 1 >= MAX_COMMAND_NUM THEN "wrapStart" ELSE "assert"
  /\ UNCHANGED <<vector, end, cEnd, got, last, held>>

GetWrapStart ==
  /\ cpc = "wrapStart"
  /\ start' = Slot(start)
  /\ cpc' = "wrapLoad"
  /\ UNCHANGED <<vector, end, cEnd, got, last, held>>

GetWrapLoad ==
  /\ cpc = "wrapLoad"
  /\ cEnd' = end /\ cpc' = "wrapStore"
  /\ UNCHANGED <<ringVars, got, last, held>>

\* Mutation: the end is moved back by one slot too many.
GetWrapStore_TooFar ==
  /\ cpc = "wrapStore"
  /\ end' = cEnd - MAX_COMMAND_NUM - 1
  /\ cpc' = "assert"
  /\ UNCHANGED <<vector, start, cEnd, got, last, held>>

GetWrapStore ==
  /\ cpc = "wrapStore"
  /\ end' = Slot(cEnd)
  /\ cpc' = "assert"
  /\ UNCHANGED <<vector, start, cEnd, got, last, held>>

GetAssert ==
  /\ cpc = "assert"
  /\ cpc' = IF AssertCommands(start, end) THEN "idle" ELSE "aborted"
  /\ UNCHANGED <<ringVars, cEnd, got, last, held>>

\* weston_spice_release_resource: the worker frees what it was given, in
\* any order and also after the VM has stopped.
Release(c) ==
  /\ cpc = "idle" /\ c \in held
  /\ held' = held \ {c}
  /\ UNCHANGED <<ringVars, cpc, cEnd, got, last>>

GetCommand ==
  \/ GetCount \/ GetRead \/ GetInc \/ GetWrapStart
  \/ GetWrapLoad \/ GetWrapStore \/ GetAssert

Consumer ==
  /\ GetCommand \/ \E c \in held : Release(c)
  /\ UNCHANGED producerVars

\* Both threads are done: the process exits.
Exited ==
  /\ Crashed \/ (ppc = "done" /\ held = {})
  /\ UNCHANGED vars

Next ==
  \/ /\ ~Crashed
     /\ Producer \/ Consumer
     /\ raced' = (raced \/ (InWrap' /\ Pushing'))
  \/ Exited

Spec == Init /\ [][Next]_vars

\* The worker polls after every spice_qxl_wakeup, and neither thread stops
\* inside a call.
FairSpec ==
  /\ Spec
  /\ WF_vars(~Crashed /\ GetCommand /\ UNCHANGED producerVars
             /\ raced' = (raced \/ (InWrap' /\ Pushing')))
-----------------------------------------------------------------------------
(***************************************************************************)
(* Properties.                                                             *)
(***************************************************************************)
\* The types of the variables, whatever the two threads do to each other.
TypeOK ==
  /\ vector \in [Slots -> 0 .. MaxFrames]
  /\ start \in Nat /\ end \in Nat
  /\ ppc \in ProducerPC /\ regE \in Nat /\ regS \in Nat
  /\ tries \in 0 .. MAX_WAIT_ITERATIONS
  /\ cpc \in ConsumerPC /\ cEnd \in Nat
  /\ vm \in {"running", "stopped"}
  /\ sent \in Nat /\ lost \in Nat /\ got \in Nat /\ last \in Nat
  /\ held \subseteq 0 .. MaxFrames
  /\ raced \in BOOLEAN

\* Where the queue really begins and ends while a call is half done.
First == IF cpc = "inc" THEN start + 1 ELSE start
Past == IF Wrapping THEN end - MAX_COMMAND_NUM ELSE end

\* The commands waiting in the ring, oldest first, read from its slots.
Waiting ==
  [i \in 1 .. Past - First |-> vector[Slot(First + i - 1)]]

\* ASSERT_COMMANDS: "commands.end - commands.start <= MAX_COMMAND_NUM &&
\* commands.end >= commands.start", asserted by both threads.
AssertNeverFails == "aborted" \notin {ppc, cpc}

\* Without a push overlapping the worker's wrap of the indices, no interleaving
\* of push_command and get_command makes ASSERT_COMMANDS fail.
AssertHoldsUnraced == ~raced => AssertNeverFails

\* What get_command is about to copy is the oldest command not yet taken:
\* never a stale pointer to one the worker has already freed, never a slot
\* push_command overwrote early, never NULL.
ReadsOldestCommand == cpc = "read" /\ ~raced => vector[start] = got + 1

\* The worker's index into commands.vector stays inside it, raced or not.
WorkerInBounds == cpc = "read" => start \in Slots

\* A push stores into a slot no waiting command occupies.
StoresInFreeSlot ==
  ppc = "store" /\ ~raced =>
    \A i \in First .. Past - 1 : Slot(regE) # Slot(i)

\* "Ri is on the top of all QXL commands" (weston_spice_qxl_destroy): each
\* entry the drain dereferences is an entry of the ring.
DrainInBounds == ppc # "wild"

(***************************************************************************)
(* The strengthening that makes the properties above inductive.            *)
(***************************************************************************)
\* Where the two threads are agrees with the phase of the VM, and while the
\* worker polls its index is reduced except where get_command says so.
ControlInv ==
  /\ vm = "running" =>
       start <= MAX_COMMAND_NUM /\ (start = MAX_COMMAND_NUM => cpc = "wrapStart")
  /\ vm = "stopped" <=> ppc \in {"drain", "done", "wild"}
  /\ vm = "stopped" => cpc = "idle"
  /\ ppc \notin {"idle", "drain", "done", "wild", "aborted"} =>
       sent + lost < MaxFrames
  /\ sent + lost <= MaxFrames

\* Each index is where the worker's position in get_command says it is.
IndicesInv ==
  /\ cpc = "wrapStart" => start = MAX_COMMAND_NUM
  /\ Wrapping => start = 0
  /\ InWrap => ~Pushing
  /\ cpc = "wrapStore" => cEnd = end

\* As many commands wait as were accepted and not taken, at most all slots.
CountInv ==
  /\ Past - First = sent - got
  /\ Past - First \in 0 .. MAX_COMMAND_NUM
  /\ cpc = "read" => Past - First > 0
  /\ cpc = "inc" \/ InWrap => Past - First < MAX_COMMAND_NUM

\* The waiting commands are consecutive and lie in consecutive slots.
ContentsInv ==
  \A i \in First .. Past - 1 : vector[Slot(i)] = got + 1 + i - First

\* What push_command has loaded is still true enough to act on.
PushInv ==
  /\ Pushing => regE = end
  /\ ppc \in {"asserted", "counted"} => regS <= start
  /\ ppc \in {"store", "inc"} => end - start < MAX_COMMAND_NUM
  /\ ppc = "inc" => vector[Slot(end)] = sent + 1

RingInv ==
  ~raced /\ vm = "running" =>
    AssertNeverFails /\ IndicesInv /\ CountInv /\ ContentsInv /\ PushInv

IInv == TypeOK /\ ControlInv /\ RingInv

Fifo == INSTANCE BoundedFifo
          WITH Capacity <- MAX_COMMAND_NUM, queue <- Waiting

\* Until a push overlaps the wrap, the ring implements the bounded queue: each
\* step of the threads is a step of it or leaves it alone, so that nothing is
\* lost, duplicated or reordered, and no more than its size is waiting.
ImplementsFifo ==
  Fifo!Init /\ [][~raced' => [Fifo!Next]_(Fifo!fvars)]_vars

\* The worker takes every accepted command, unless the VM stops first.
EveryCommandTaken ==
  \A n \in Commands :
    sent >= n ~> (got >= n \/ vm = "stopped" \/ raced \/ Crashed)
=============================================================================
