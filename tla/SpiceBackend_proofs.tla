-------------------------- MODULE SpiceBackend_proofs --------------------------
(***************************************************************************)
(* Proofs about the SPICE backend.  The command ring (SpiceQueue): what    *)
(* holds for every size, every number of sleeps and every number of        *)
(* frames.  The life of the backend (SpiceServer): for any number of       *)
(* commits and any size of the ring, neither thread reaches what is not    *)
(* there, and a command is released once.  The output (SpiceOutput): the   *)
(* input source and the loop, the damage, and the refinement of UpdateLife,*)
(* for any number of commits and any ring.                                 *)
(***************************************************************************)
EXTENDS SpiceQueue, SpiceServer, SpiceOutput, SequenceTheorems, FiniteSetTheorems, TLAPS

(***************************************************************************)
(* The command ring.                                                       *)
(***************************************************************************)
\* The slot of an index below twice the size of the ring: the only indices
\* the ring ever reduces.
LEMMA SlotValue ==
  ASSUME NEW i \in 0 .. 2 * MAX_COMMAND_NUM - 1
  PROVE  Slot(i) = IF i < MAX_COMMAND_NUM THEN i ELSE i - MAX_COMMAND_NUM
BY QueueAssumption DEF Slot

\* A slot of any natural index is a slot.
LEMMA SlotType ==
  ASSUME NEW i \in Nat PROVE Slot(i) \in Slots
BY QueueAssumption DEF Slot, Slots

(***************************************************************************)
(* Types, and where the threads are.                                       *)
(***************************************************************************)
LEMMA InitTypes == Init => TypeOK /\ ControlInv
<1> SUFFICES ASSUME Init PROVE TypeOK /\ ControlInv
  OBVIOUS
<1>1. vector \in [Slots -> 0 .. MaxFrames]
  BY QueueAssumption DEF Init
<1>2. raced \in BOOLEAN
  BY DEF Init
<1>3. QED
  BY <1>1, <1>2, QueueAssumption DEF Init, TypeOK, ControlInv, ProducerPC, ConsumerPC

\* Every step of either thread keeps the types and the control positions,
\* whether or not the threads have raced.
LEMMA StepTypes ==
  ASSUME TypeOK, ControlInv, [Next]_vars
  PROVE  TypeOK' /\ ControlInv'
<1> USE QueueAssumption
<1>1. raced' \in BOOLEAN
  BY DEF TypeOK, Next, Exited, vars
<1>2. CASE ~Crashed /\ PushBegin /\ UNCHANGED consumerVars
  BY <1>1, <1>2 DEF PushBegin, TypeOK, ControlInv, ProducerPC, ConsumerPC, Crashed,
    ringVars,
    consumerVars
<1>3. CASE ~Crashed /\ PushAssertEnd /\ UNCHANGED consumerVars
  BY <1>1, <1>3 DEF PushAssertEnd, TypeOK, ControlInv, ProducerPC, ConsumerPC, Crashed,
    ringVars,
    consumerVars
<1>4. CASE ~Crashed /\ PushAssertStart /\ UNCHANGED consumerVars
  BY <1>1, <1>4 DEF PushAssertStart, TypeOK, ControlInv, ProducerPC, ConsumerPC, Crashed,
    ringVars,
    consumerVars
<1>5. CASE ~Crashed /\ PushCountEnd /\ UNCHANGED consumerVars
  BY <1>1, <1>5 DEF PushCountEnd, TypeOK, ControlInv, ProducerPC, ConsumerPC, Crashed,
    ringVars,
    consumerVars
<1>6. CASE ~Crashed /\ PushCountStart /\ UNCHANGED consumerVars
  BY <1>1, <1>6 DEF PushCountStart, TypeOK, ControlInv, ProducerPC, ConsumerPC, Crashed,
    ringVars,
    consumerVars
<1>7. CASE ~Crashed /\ PushAccept /\ UNCHANGED consumerVars
  BY <1>1, <1>7 DEF PushAccept, TypeOK, ControlInv, ProducerPC, ConsumerPC, Crashed,
    ringVars,
    consumerVars
<1>8. CASE ~Crashed /\ PushSleep /\ UNCHANGED consumerVars
  BY <1>1, <1>8 DEF PushSleep, TypeOK, ControlInv, ProducerPC, ConsumerPC, Crashed,
    ringVars,
    consumerVars
<1>9. CASE ~Crashed /\ PushRefuse /\ UNCHANGED consumerVars
  BY <1>1, <1>9 DEF PushRefuse, TypeOK, ControlInv, ProducerPC, ConsumerPC, Crashed,
    ringVars,
    consumerVars
<1>10. CASE ~Crashed /\ PushReload /\ UNCHANGED consumerVars
  BY <1>1, <1>10 DEF PushReload, TypeOK, ControlInv, ProducerPC, ConsumerPC, Crashed,
    ringVars,
    consumerVars
<1>11. CASE ~Crashed /\ PushStore /\ UNCHANGED consumerVars
  <2>1. sent + 1 \in 0 .. MaxFrames
    BY <1>11 DEF PushStore, TypeOK, ControlInv
  <2>2. vector' \in [Slots -> 0 .. MaxFrames]
    BY <1>11, <2>1 DEF PushStore, TypeOK
  <2>3. QED
    BY <1>1, <1>11, <2>2 DEF PushStore, TypeOK, ControlInv, ProducerPC, ConsumerPC,
      consumerVars
<1>12. CASE ~Crashed /\ PushInc /\ UNCHANGED consumerVars
  BY <1>1, <1>12 DEF PushInc, TypeOK, ControlInv, ProducerPC, ConsumerPC, Crashed, ringVars,
    consumerVars
<1>13. CASE ~Crashed /\ VmStop /\ UNCHANGED consumerVars
  BY <1>1, <1>13 DEF VmStop, TypeOK, ControlInv, ProducerPC, ConsumerPC, Crashed, ringVars,
    consumerVars
<1>14. CASE ~Crashed /\ DrainDone /\ UNCHANGED consumerVars
  BY <1>1, <1>14 DEF DrainDone, TypeOK, ControlInv, ProducerPC, ConsumerPC, Crashed,
    ringVars,
    consumerVars
<1>15. CASE ~Crashed /\ DrainStep /\ UNCHANGED <<cpc, cEnd, last, held>>
  BY <1>1, <1>15 DEF DrainStep, TypeOK, ControlInv, ProducerPC, ConsumerPC, Crashed,
    ringVars
<1>16. CASE ~Crashed /\ GetCount /\ UNCHANGED producerVars
  BY <1>1, <1>16 DEF GetCount, TypeOK, ControlInv, ProducerPC, ConsumerPC, Crashed,
    ringVars,
    producerVars
<1>17. CASE ~Crashed /\ GetRead /\ UNCHANGED producerVars
  <2>1. start \in Slots
    BY <1>17 DEF GetRead, TypeOK, ControlInv, Slots
  <2>2. vector[start] \in 0 .. MaxFrames
    BY <2>1 DEF TypeOK
  <2>3. held' \subseteq 0 .. MaxFrames
    BY <1>17, <2>2 DEF GetRead, TypeOK
  <2>4. last' \in Nat
    BY <1>17, <2>2 DEF GetRead
  <2>5. TypeOK'
    BY <1>1, <1>17, <2>3, <2>4 DEF GetRead, TypeOK, ConsumerPC, ringVars, producerVars
  <2>6. ControlInv'
    BY <1>17 DEF GetRead, TypeOK, ControlInv, ConsumerPC, ringVars, producerVars
  <2>7. QED
    BY <2>5, <2>6
<1>18. CASE ~Crashed /\ GetInc /\ UNCHANGED producerVars
  BY <1>1, <1>18 DEF GetInc, TypeOK, ControlInv, ProducerPC, ConsumerPC, Crashed, ringVars,
    producerVars
<1>19. CASE ~Crashed /\ GetWrapStart /\ UNCHANGED producerVars
  <2>1. Slot(start) \in 0 .. MAX_COMMAND_NUM - 1
    BY SlotType DEF TypeOK, Slots
  <2>2. QED
    BY <1>1, <1>19, <2>1 DEF GetWrapStart, TypeOK, ControlInv, ProducerPC, ConsumerPC,
      producerVars
<1>20. CASE ~Crashed /\ GetWrapLoad /\ UNCHANGED producerVars
  BY <1>1, <1>20 DEF GetWrapLoad, TypeOK, ControlInv, ProducerPC, ConsumerPC, Crashed,
    ringVars,
    producerVars
<1>21. CASE ~Crashed /\ GetWrapStore /\ UNCHANGED producerVars
  <2>1. Slot(cEnd) \in Slots
    BY SlotType DEF TypeOK
  <2>2. QED
    BY <1>1, <1>21, <2>1 DEF GetWrapStore, TypeOK, ControlInv, ProducerPC, ConsumerPC,
      Slots,
      producerVars
<1>22. CASE ~Crashed /\ GetAssert /\ UNCHANGED producerVars
  BY <1>1, <1>22 DEF GetAssert, TypeOK, ControlInv, ProducerPC, ConsumerPC, Crashed,
    ringVars,
    producerVars
<1>23. ASSUME NEW c \in held, ~Crashed, Release(c), UNCHANGED producerVars
      PROVE  TypeOK' /\ ControlInv'
  BY <1>1, <1>23 DEF Release, TypeOK, ControlInv, ProducerPC, ConsumerPC, Crashed, ringVars,
    producerVars
<1>24. CASE UNCHANGED vars
  BY <1>24 DEF TypeOK, ControlInv, vars, ringVars, producerVars, consumerVars
<1>25. QED
  BY <1>2, <1>3, <1>4, <1>5, <1>6, <1>7, <1>8, <1>9, <1>10, <1>11, <1>12, <1>13, <1>14,
    <1>15, <1>16, <1>17, <1>18, <1>19, <1>20, <1>21, <1>22, <1>23, <1>24
  DEF Next, Producer, Consumer, GetCommand, Exited

(***************************************************************************)
(* The ring itself: while no push overlaps the worker's wrap, each step    *)
(* keeps the indices, the count, the contents and what a push relies on.   *)
(***************************************************************************)
LEMMA StepRing ==
  ASSUME IInv, TypeOK', ControlInv', [Next]_vars
  PROVE  RingInv'
<1> SUFFICES ASSUME ~raced', vm' = "running"
             PROVE  AssertNeverFails' /\ IndicesInv' /\ CountInv' /\ ContentsInv'
                    /\ PushInv'
  BY DEF RingInv
<1> USE QueueAssumption DEF First, Past, Wrapping, InWrap, Pushing
<1>1. CASE UNCHANGED vars
  <2>1. AssertNeverFails /\ IndicesInv /\ CountInv /\ ContentsInv /\ PushInv
    BY <1>1 DEF IInv, RingInv, Crashed, vars, ringVars, producerVars, consumerVars
  <2>2. QED
    BY <1>1, <2>1 DEF AssertNeverFails, IndicesInv, CountInv, ContentsInv, PushInv,
      vars, ringVars, producerVars, consumerVars
<1>2. ASSUME ~Crashed, Producer \/ Consumer, raced' = (raced \/ (InWrap' /\ Pushing'))
      PROVE  AssertNeverFails' /\ IndicesInv' /\ CountInv' /\ ContentsInv'
                    /\ PushInv'
  <2>1. ~raced /\ ~(InWrap' /\ Pushing')
    BY <1>2
  <2>2. vm = "running"
    BY <1>2 DEF IInv, TypeOK, Producer, Consumer, producerVars, PushBegin, PushAssertEnd,
      PushAssertStart, PushCountEnd, PushCountStart, PushAccept, PushSleep, PushRefuse,
        PushReload,
      PushStore, PushInc, VmStop, DrainDone, DrainStep
  <2>3. AssertNeverFails /\ IndicesInv /\ CountInv /\ ContentsInv /\ PushInv
    BY <1>2, <2>1, <2>2 DEF IInv, RingInv
  <2>4. TypeOK /\ ControlInv
    BY DEF IInv
  <2>5. CASE PushBegin /\ UNCHANGED consumerVars
    BY <2>1, <2>3, <2>4, <2>5 DEF PushBegin, AssertNeverFails, IndicesInv, CountInv,
      ContentsInv, PushInv,
      AssertCommands, Full, TypeOK, ControlInv, ringVars, consumerVars
  <2>6. CASE PushAssertEnd /\ UNCHANGED consumerVars
    BY <2>1, <2>3, <2>4, <2>6 DEF PushAssertEnd, AssertNeverFails, IndicesInv, CountInv,
      ContentsInv, PushInv,
      AssertCommands, Full, TypeOK, ControlInv, ringVars, consumerVars
  <2>7. CASE PushAssertStart /\ UNCHANGED consumerVars
    BY <2>1, <2>3, <2>4, <2>7 DEF PushAssertStart, AssertNeverFails, IndicesInv, CountInv,
      ContentsInv, PushInv,
      AssertCommands, Full, TypeOK, ControlInv, ringVars, consumerVars
  <2>8. CASE PushCountEnd /\ UNCHANGED consumerVars
    BY <2>1, <2>3, <2>4, <2>8 DEF PushCountEnd, AssertNeverFails, IndicesInv, CountInv,
      ContentsInv, PushInv,
      AssertCommands, Full, TypeOK, ControlInv, ringVars, consumerVars
  <2>9. CASE PushCountStart /\ UNCHANGED consumerVars
    BY <2>1, <2>3, <2>4, <2>9 DEF PushCountStart, AssertNeverFails, IndicesInv, CountInv,
      ContentsInv, PushInv,
      AssertCommands, Full, TypeOK, ControlInv, ringVars, consumerVars
  <2>10. CASE PushAccept /\ UNCHANGED consumerVars
    BY <2>1, <2>3, <2>4, <2>10 DEF PushAccept, AssertNeverFails, IndicesInv, CountInv,
      ContentsInv, PushInv,
      AssertCommands, Full, TypeOK, ControlInv, ringVars, consumerVars
  <2>11. CASE PushSleep /\ UNCHANGED consumerVars
    BY <2>1, <2>3, <2>4, <2>11 DEF PushSleep, AssertNeverFails, IndicesInv, CountInv,
      ContentsInv, PushInv,
      AssertCommands, Full, TypeOK, ControlInv, ringVars, consumerVars
  <2>12. CASE PushRefuse /\ UNCHANGED consumerVars
    BY <2>1, <2>3, <2>4, <2>12 DEF PushRefuse, AssertNeverFails, IndicesInv, CountInv,
      ContentsInv, PushInv,
      AssertCommands, Full, TypeOK, ControlInv, ringVars, consumerVars
  <2>13. CASE PushReload /\ UNCHANGED consumerVars
    BY <2>1, <2>3, <2>4, <2>13 DEF PushReload, AssertNeverFails, IndicesInv, CountInv,
      ContentsInv, PushInv,
      AssertCommands, Full, TypeOK, ControlInv, ringVars, consumerVars
  <2>14. CASE PushStore /\ UNCHANGED consumerVars
    <3>1. end - start < MAX_COMMAND_NUM /\ regE = end /\ ~InWrap
      BY <2>3, <2>14 DEF PushStore, PushInv, IndicesInv, Pushing
    <3>2. ASSUME NEW i \in First .. Past - 1
          PROVE  Slot(i) # Slot(end)
      <4>1. /\ i \in 0 .. 2 * MAX_COMMAND_NUM - 1
            /\ end \in 0 .. 2 * MAX_COMMAND_NUM - 1
            /\ 0 < end - i /\ end - i < MAX_COMMAND_NUM
        BY <2>2, <2>3, <2>4, <3>1 DEF CountInv, TypeOK, ControlInv
      <4>2. /\ Slot(i) = IF i < MAX_COMMAND_NUM THEN i ELSE i - MAX_COMMAND_NUM
            /\ Slot(end) = IF end < MAX_COMMAND_NUM THEN end ELSE end - MAX_COMMAND_NUM
        BY <4>1, SlotValue
      <4>3. QED
        BY <4>1, <4>2
    <3>3. Slot(end) \in Slots /\ \A i \in First .. Past - 1 : Slot(i) \in Slots
      BY <2>4, SlotType DEF TypeOK
    <3>4. ContentsInv'
      BY <2>3, <2>4, <2>14, <3>1, <3>2, <3>3
      DEF PushStore, ContentsInv, TypeOK, consumerVars
    <3>5. vector'[Slot(end)] = sent + 1
      BY <2>4, <2>14, <3>1, <3>3 DEF PushStore, TypeOK
    <3>6. AssertNeverFails' /\ IndicesInv' /\ CountInv' /\ PushInv'
      BY <2>3, <2>14, <3>1, <3>5
      DEF PushStore, AssertNeverFails, IndicesInv, CountInv, PushInv, consumerVars
    <3>7. QED
      BY <3>4, <3>6
  <2>15. CASE PushInc /\ UNCHANGED consumerVars
    <3>1. end - start < MAX_COMMAND_NUM /\ regE = end /\ ~InWrap /\ vector[Slot(end)] = sent + 1
      BY <2>3, <2>15 DEF PushInc, PushInv, IndicesInv, Pushing
    <3>2. ContentsInv'
      BY <2>3, <2>4, <2>15, <3>1 DEF PushInc, ContentsInv, CountInv, TypeOK, consumerVars
    <3>3. AssertNeverFails' /\ IndicesInv' /\ CountInv' /\ PushInv'
      BY <2>3, <2>4, <2>15, <3>1
      DEF PushInc, AssertNeverFails, IndicesInv, CountInv, PushInv, TypeOK, consumerVars
    <3>4. QED
      BY <3>2, <3>3
  <2>16. CASE VmStop \/ DrainDone \/ DrainStep
    BY <2>2, <2>4, <2>16 DEF VmStop, DrainDone, DrainStep, ControlInv
  <2>17. CASE GetCount /\ UNCHANGED producerVars
    BY <2>1, <2>3, <2>4, <2>17 DEF GetCount, AssertNeverFails, IndicesInv, CountInv,
      ContentsInv, PushInv,
      TypeOK, ControlInv, ringVars, producerVars
  <2>18. CASE GetWrapLoad /\ UNCHANGED producerVars
    BY <2>1, <2>3, <2>4, <2>18 DEF GetWrapLoad, AssertNeverFails, IndicesInv, CountInv,
      ContentsInv, PushInv,
      TypeOK, ControlInv, ringVars, producerVars
  <2>19. CASE GetAssert /\ UNCHANGED producerVars
    BY <2>1, <2>3, <2>4, <2>19 DEF GetAssert, AssertCommands, AssertNeverFails, IndicesInv,
      CountInv, ContentsInv, PushInv,
      TypeOK, ControlInv, ringVars, producerVars
  <2>20. CASE GetRead /\ UNCHANGED producerVars
    <3>1. ContentsInv'
      BY <2>3, <2>4, <2>20 DEF GetRead, ContentsInv, TypeOK, ringVars
    <3>2. AssertNeverFails' /\ IndicesInv' /\ CountInv' /\ PushInv'
      BY <2>3, <2>4, <2>20
      DEF GetRead, AssertNeverFails, IndicesInv, CountInv, PushInv, TypeOK, ringVars,
        producerVars
    <3>3. QED
      BY <3>1, <3>2
  <2>21. CASE GetInc /\ UNCHANGED producerVars
    <3>1. ContentsInv'
      BY <2>3, <2>4, <2>21 DEF GetInc, ContentsInv, TypeOK
    <3>2. AssertNeverFails' /\ IndicesInv' /\ CountInv' /\ PushInv'
      BY <2>1, <2>3, <2>4, <2>21
      DEF GetInc, AssertNeverFails, IndicesInv, CountInv, PushInv, TypeOK, ControlInv,
        producerVars
    <3>3. QED
      BY <3>1, <3>2
  <2>22. CASE GetWrapStart /\ UNCHANGED producerVars
    <3>1. start = MAX_COMMAND_NUM /\ Slot(start) = 0
      BY <2>3, <2>22, SlotValue DEF GetWrapStart, IndicesInv
    <3>2. \A i \in 0 .. Past - First - 1 : Slot(i) = Slot(i + MAX_COMMAND_NUM)
      BY <2>3, <2>4, <2>22, <3>1, SlotValue DEF GetWrapStart, CountInv, TypeOK
    <3>3. First' = 0 /\ Past' = Past - First /\ First = MAX_COMMAND_NUM
      BY <2>4, <2>22, <3>1 DEF GetWrapStart, TypeOK
    <3>4. ContentsInv'
      <4>1. SUFFICES ASSUME NEW i \in 0 .. Past - First - 1
                     PROVE  vector[Slot(i)] = got + 1 + i
        BY <2>22, <3>3 DEF GetWrapStart, ContentsInv
      <4>2. i + MAX_COMMAND_NUM \in First .. Past - 1
        BY <2>4, <3>3 DEF TypeOK
      <4>3. vector[Slot(i + MAX_COMMAND_NUM)] = got + 1 + (i + MAX_COMMAND_NUM) - First
        BY <2>3, <4>2 DEF ContentsInv
      <4>4. QED
        BY <2>4, <3>2, <3>3, <4>3 DEF TypeOK
    <3>5. AssertNeverFails' /\ IndicesInv' /\ CountInv' /\ PushInv'
      BY <2>1, <2>3, <2>4, <2>22, <3>1
      DEF GetWrapStart, AssertNeverFails, IndicesInv, CountInv, PushInv, TypeOK,
        producerVars
    <3>6. QED
      BY <3>4, <3>5
  <2>23. CASE GetWrapStore /\ UNCHANGED producerVars
    <3>1. cEnd = end /\ start = 0 /\ First = 0 /\ Past = end - MAX_COMMAND_NUM
      BY <2>3, <2>23 DEF GetWrapStore, IndicesInv
    <3>2. Past \in 0 .. MAX_COMMAND_NUM - 1
      BY <2>3, <2>4, <2>23, <3>1 DEF GetWrapStore, CountInv, InWrap, TypeOK
    <3>3. Slot(cEnd) = Past
      BY <2>4, <3>1, <3>2, SlotValue DEF TypeOK
    <3>4. First' = First /\ Past' = Past
      BY <2>23, <3>1, <3>3 DEF GetWrapStore
    <3>5. ContentsInv'
      BY <2>3, <2>23, <3>4 DEF GetWrapStore, ContentsInv
    <3>6. AssertNeverFails' /\ IndicesInv' /\ CountInv' /\ PushInv'
      BY <2>1, <2>3, <2>4, <2>23, <3>1, <3>2, <3>3, <3>4
      DEF GetWrapStore, AssertNeverFails, IndicesInv, CountInv, PushInv, Wrapping, InWrap,
        Pushing, TypeOK, producerVars
    <3>7. QED
      BY <3>5, <3>6
  <2>24. ASSUME NEW c \in held, Release(c), UNCHANGED producerVars
        PROVE  AssertNeverFails' /\ IndicesInv' /\ CountInv' /\ ContentsInv'
                    /\ PushInv'
    BY <2>3, <2>24 DEF Release, AssertNeverFails, IndicesInv, CountInv, ContentsInv,
      PushInv, ringVars, producerVars
  <2>25. QED
    BY <1>2, <2>5, <2>6, <2>7, <2>8, <2>9, <2>10, <2>11, <2>12, <2>13, <2>14, <2>15, <2>16,
      <2>17, <2>18, <2>19, <2>20, <2>21, <2>22, <2>23, <2>24
    DEF Producer, Consumer, GetCommand
<1>3. QED
  BY <1>1, <1>2 DEF Next, Exited

(***************************************************************************)
(* The theorems.                                                           *)
(***************************************************************************)
\* The inductive invariant holds in every behaviour.
THEOREM Invariance == Spec => []IInv
<1>1. Init => IInv
  <2>1. Init => RingInv
    BY QueueAssumption DEF Init, RingInv, AssertNeverFails, IndicesInv, CountInv,
      ContentsInv, PushInv, First, Past,
      Wrapping, InWrap, Pushing
  <2>2. QED
    BY <2>1, InitTypes DEF IInv
<1>2. IInv /\ [Next]_vars => IInv'
  BY StepTypes, StepRing DEF IInv
<1>3. QED
  BY <1>1, <1>2, PTL DEF Spec

\* Whatever the sizes, as long as no push overlaps the wrap: ASSERT_COMMANDS
\* holds at both call sites, the worker gets the oldest command not yet
\* taken, and a push stores into a slot nobody waits for.
THEOREM UnracedSafety == Spec => [](AssertHoldsUnraced /\ ReadsOldestCommand /\ StoresInFreeSlot)
<1>1. IInv => AssertHoldsUnraced
  BY DEF IInv, TypeOK, ControlInv, RingInv, AssertHoldsUnraced, AssertNeverFails
<1>2. IInv => ReadsOldestCommand
  <2>1. SUFFICES ASSUME IInv, cpc = "read", ~raced PROVE vector[start] = got + 1
    BY DEF ReadsOldestCommand
  <2>2. vm = "running" /\ start \in 0 .. MAX_COMMAND_NUM - 1
    BY <2>1, QueueAssumption DEF IInv, TypeOK, ControlInv
  <2>3. CountInv /\ ContentsInv
    BY <2>1, <2>2 DEF IInv, RingInv
  <2>4. First = start /\ Past = end
    BY <2>1 DEF First, Past, Wrapping
  <2>5. Slot(start) = start
    BY <2>2, SlotValue, QueueAssumption
  <2>6. vector[Slot(start)] = got + 1 + start - start
    BY <2>1, <2>2, <2>3, <2>4 DEF CountInv, ContentsInv, IInv, TypeOK
  <2>7. QED
    BY <2>1, <2>2, <2>5, <2>6 DEF IInv, TypeOK
<1>3. IInv => StoresInFreeSlot
  <2>1. SUFFICES ASSUME IInv, ppc = "store", ~raced
                 PROVE  \A i \in First .. Past - 1 : Slot(regE) # Slot(i)
    BY DEF StoresInFreeSlot
  <2>2. vm = "running"
    BY <2>1 DEF IInv, TypeOK, ControlInv
  <2>3. IndicesInv /\ CountInv /\ PushInv
    BY <2>1, <2>2 DEF IInv, RingInv
  <2>4. end - start < MAX_COMMAND_NUM /\ regE = end /\ ~InWrap
    BY <2>1, <2>3 DEF PushInv, IndicesInv, Pushing
  <2>5. QED
    BY <2>1, <2>2, <2>3, <2>4, SlotValue, QueueAssumption
    DEF CountInv, First, Past, Wrapping, InWrap, IInv, TypeOK, ControlInv
<1>4. QED
  BY <1>1, <1>2, <1>3, Invariance, PTL

\* The worker's index stays inside the ring even when the threads race.
THEOREM WorkerStaysInRing == Spec => []WorkerInBounds
<1>1. IInv => WorkerInBounds
  BY QueueAssumption DEF IInv, TypeOK, ControlInv, WorkerInBounds, Slots
<1>2. QED
  BY <1>1, Invariance, PTL

(***************************************************************************)
(* The ring and the queue it promises to be.                               *)
(***************************************************************************)
\* A function from 1 .. n to numbers, taken as a sequence.
LEMMA FunctionSequence ==
  ASSUME NEW n \in Nat, NEW f \in [1 .. n -> Nat]
  PROVE  /\ f \in Seq(Nat) /\ Len(f) = n
         /\ n > 0 => /\ f # <<>> /\ Head(f) = f[1]
                     /\ Tail(f) = [i \in 1 .. n - 1 |-> f[i + 1]]
         /\ \A e \in Nat : Append(f, e) = [i \in 1 .. n + 1 |-> IF i <= n THEN f[i] ELSE e]
<1>1. f \in Seq(Nat) /\ Len(f) = n
  OBVIOUS
<1>2. n > 0 => f # <<>> /\ Head(f) = f[1]
  BY <1>1
<1>3. n > 0 => Tail(f) = [i \in 1 .. n - 1 |-> f[i + 1]]
  <2>1. n > 0 => /\ Tail(f) \in Seq(Nat) /\ Len(Tail(f)) = n - 1
                 /\ \A i \in 1 .. n - 1 : Tail(f)[i] = f[i + 1]
    BY <1>1, <1>2, HeadTailProperties
  <2>2. n > 0 => Tail(f) \in [1 .. n - 1 -> Nat]
    BY <2>1, LenProperties
  <2>3. QED
    BY <2>1, <2>2
<1>4. \A e \in Nat : Append(f, e) = [i \in 1 .. n + 1 |-> IF i <= n THEN f[i] ELSE e]
  <2>1. SUFFICES ASSUME NEW e \in Nat
                 PROVE  Append(f, e) = [i \in 1 .. n + 1 |-> IF i <= n THEN f[i] ELSE e]
    OBVIOUS
  <2>2. /\ Append(f, e) \in Seq(Nat) /\ Len(Append(f, e)) = n + 1
        /\ \A i \in 1 .. n + 1 : Append(f, e)[i] = IF i <= n THEN f[i] ELSE e
    BY <1>1, AppendProperties
  <2>3. Append(f, e) \in [1 .. n + 1 -> Nat]
    BY <2>2, LenProperties
  <2>4. QED
    BY <2>2, <2>3
<1>5. QED
  BY <1>1, <1>2, <1>3, <1>4

\* While the threads have not raced, the commands waiting are those accepted and
\* not taken, in the order of their numbers.
LEMMA WaitingNumbers ==
  IInv /\ ~raced /\ vm = "running" =>
    /\ got \in Nat /\ sent \in Nat /\ sent - got \in Nat
    /\ Waiting = [i \in 1 .. sent - got |-> got + i]
<1> SUFFICES ASSUME IInv, ~raced, vm = "running"
             PROVE  /\ got \in Nat /\ sent \in Nat /\ sent - got \in Nat
                    /\ Waiting = [i \in 1 .. sent - got |-> got + i]
  OBVIOUS
<1>1. CountInv /\ ContentsInv /\ TypeOK
  BY DEF IInv, RingInv
<1>2. First \in Nat /\ Past \in Int /\ Past - First = sent - got
  BY <1>1, QueueAssumption DEF CountInv, TypeOK, First, Past
<1>3. ASSUME NEW i \in 1 .. sent - got
      PROVE  vector[Slot(First + i - 1)] = got + i
  <2>1. First + i - 1 \in First .. Past - 1
    BY <1>1, <1>2 DEF TypeOK
  <2>2. QED
    BY <1>1, <1>2, <2>1 DEF ContentsInv, TypeOK
<1>4. QED
  BY <1>1, <1>2, <1>3 DEF CountInv, TypeOK, Waiting

\* While the worker polls, only the end of a push and the read of a command
\* change what is accepted, what is taken and what was taken last.
LEMMA StepCounters ==
  ASSUME IInv, [Next]_vars, ~raced, vm = "running"
  PROVE  \/ sent' = sent + 1 /\ got' = got /\ last' = last /\ sent - got < MAX_COMMAND_NUM
         \/ sent' = sent /\ got' = got + 1 /\ last' = got + 1 /\ sent - got > 0
         \/ UNCHANGED <<sent, got, last>>
<1>1. TypeOK /\ ControlInv /\ IndicesInv /\ CountInv /\ ContentsInv /\ PushInv
  BY DEF IInv, RingInv
<1>2. CASE PushInc /\ UNCHANGED consumerVars
  BY <1>1, <1>2, QueueAssumption
  DEF PushInc, consumerVars, PushInv, CountInv, IndicesInv, Pushing, InWrap, Wrapping,
    First, Past, TypeOK
<1>3. CASE GetRead /\ UNCHANGED producerVars
  <2>1. First = start /\ Past = end /\ start \in First .. Past - 1
    BY <1>1, <1>3 DEF GetRead, First, Past, Wrapping, CountInv, TypeOK
  <2>2. Slot(start) = start
    BY <1>1, <1>3, SlotValue, QueueAssumption DEF GetRead, ControlInv, TypeOK
  <2>3. vector[start] = got + 1
    BY <1>1, <2>1, <2>2 DEF ContentsInv, TypeOK
  <2>4. QED
    BY <1>1, <1>3, <2>1, <2>3 DEF GetRead, producerVars, CountInv
<1>4. CASE /\ ~(PushInc /\ UNCHANGED consumerVars)
           /\ ~(GetRead /\ UNCHANGED producerVars)
  BY <1>1, <1>4
  DEF Next, Producer, Consumer, GetCommand, Exited, ControlInv, vars, ringVars,
    producerVars, consumerVars, PushBegin, PushAssertEnd, PushAssertStart, PushCountEnd,
    PushCountStart, PushAccept, PushSleep, PushRefuse, PushReload, PushStore, VmStop,
    DrainDone, DrainStep, GetCount, GetInc, GetWrapStart, GetWrapLoad, GetWrapStore,
    GetAssert, Release
<1>5. QED
  BY <1>2, <1>3, <1>4

\* Each step of the threads, while they have not raced, is a step of the
\* bounded queue or leaves it alone.
LEMMA StepFifo ==
  ASSUME IInv, IInv', [Next]_vars, ~raced'
  PROVE  [Fifo!Next]_(Fifo!fvars)
<1> USE QueueAssumption
<1>1. ~raced
  BY DEF Next, Exited, vars, IInv, TypeOK
<1>2. TypeOK /\ ControlInv
  BY DEF IInv
<1>3. CASE vm = "running" /\ vm' = "running"
  <2> DEFINE n == sent - got
  <2>1. /\ got \in Nat /\ sent \in Nat /\ n \in Nat
        /\ Waiting = [i \in 1 .. n |-> got + i]
    BY <1>1, <1>3, WaitingNumbers
  <2>2. Waiting' = [i \in 1 .. sent' - got' |-> got' + i]
    <3>1. (IInv /\ ~raced /\ vm = "running" =>
             Waiting = [i \in 1 .. sent - got |-> got + i])'
      BY WaitingNumbers, PTL
    <3>2. QED
      BY <1>3, <3>1
  <2>3. Waiting \in [1 .. n -> Nat]
    BY <2>1
  <2>4. CASE sent' = sent + 1 /\ got' = got /\ last' = last /\ n < MAX_COMMAND_NUM
    <3>1. Len(Waiting) = n
      BY <2>1, <2>3, FunctionSequence
    <3>2. Append(Waiting, sent + 1) =
            [i \in 1 .. n + 1 |-> IF i <= n THEN Waiting[i] ELSE sent + 1]
      BY <2>1, <2>3, FunctionSequence
    <3>3. Waiting' = Append(Waiting, sent + 1)
      BY <2>1, <2>2, <2>4, <3>2
    <3>4. QED
      BY <2>4, <3>1, <3>3 DEF Fifo!Next, Fifo!Put
  <2>5. CASE sent' = sent /\ got' = got + 1 /\ last' = got + 1 /\ n > 0
    <3>1. /\ Waiting # <<>> /\ Head(Waiting) = Waiting[1]
          /\ Tail(Waiting) = [i \in 1 .. n - 1 |-> Waiting[i + 1]]
      BY <2>1, <2>3, <2>5, FunctionSequence
    <3>2. last' = Head(Waiting)
      BY <2>1, <2>5, <3>1
    <3>3. Waiting' = Tail(Waiting)
      BY <2>1, <2>2, <2>5, <3>1
    <3>4. QED
      BY <2>5, <3>1, <3>2, <3>3 DEF Fifo!Next, Fifo!Get
  <2>6. CASE UNCHANGED <<sent, got, last>>
    BY <2>1, <2>2, <2>6 DEF Fifo!fvars
  <2>7. QED
    BY <1>1, <1>3, <2>4, <2>5, <2>6, StepCounters
<1>4. CASE vm = "running" /\ vm' # "running"
  <2>1. VmStop /\ UNCHANGED consumerVars
    BY <1>2, <1>4
    DEF Next, Producer, Consumer, Exited, vars, ringVars, producerVars, ControlInv,
      PushBegin, PushAssertEnd, PushAssertStart, PushCountEnd, PushCountStart, PushAccept,
      PushSleep, PushRefuse, PushReload, PushStore, PushInc, DrainDone, DrainStep
  <2>2. QED
    BY <2>1 DEF VmStop, ringVars, consumerVars, Waiting, First, Past, Wrapping, Fifo!fvars
<1>5. CASE vm # "running"
  <2>1. vm = "stopped" /\ cpc = "idle" /\ ppc \in {"drain", "done", "wild"}
    BY <1>2, <1>5 DEF TypeOK, ControlInv
  <2>2. CASE DrainStep /\ UNCHANGED <<cpc, cEnd, last, held>>
    <3>1. PICK n \in Nat : n = end - start /\ n > 0
      BY <1>2, <2>2 DEF DrainStep, TypeOK
    <3>2. /\ Waiting = [i \in 1 .. n |-> vector[Slot(start + i - 1)]]
          /\ Waiting' = [i \in 1 .. n - 1 |-> vector[Slot(start + i)]]
      BY <1>2, <2>1, <2>2, <3>1 DEF DrainStep, Waiting, First, Past, Wrapping, TypeOK
    <3>3. ASSUME NEW i \in 1 .. n PROVE vector[Slot(start + i - 1)] \in 0 .. MaxFrames
      <4>1. Slot(start + i - 1) \in Slots
        BY <1>2, <3>1, SlotType DEF TypeOK
      <4>2. QED
        BY <1>2, <4>1 DEF TypeOK
    <3>4. Waiting \in [1 .. n -> Nat]
      BY <3>2, <3>3
    <3>5. \A i \in 1 .. n - 1 : Waiting[i + 1] = vector[Slot(start + i)]
      <4>1. ASSUME NEW i \in 1 .. n - 1 PROVE Waiting[i + 1] = vector[Slot(start + i)]
        <5>1. i + 1 \in 1 .. n /\ start + (i + 1) - 1 = start + i
          BY <1>2, <3>1 DEF TypeOK
        <5>2. Waiting[i + 1] = vector[Slot(start + (i + 1) - 1)]
          BY <3>2, <5>1
        <5>3. QED
          BY <5>1, <5>2
      <4>2. QED
        BY <4>1
    <3>6. /\ Waiting # <<>>
          /\ Tail(Waiting) = [i \in 1 .. n - 1 |-> Waiting[i + 1]]
      BY <3>1, <3>4, FunctionSequence
    <3>7. Waiting' = Tail(Waiting)
      BY <3>2, <3>5, <3>6
    <3>8. QED
      BY <2>2, <3>6, <3>7 DEF DrainStep, Fifo!Next, Fifo!Discard
  <2>3. CASE ~(DrainStep /\ UNCHANGED <<cpc, cEnd, last, held>>)
    <3>1. UNCHANGED <<vector, start, end, cpc, sent, last>>
      BY <2>1, <2>3
      DEF Next, Producer, Consumer, GetCommand, Exited, vars, ringVars, producerVars,
        consumerVars, PushBegin, PushAssertEnd, PushAssertStart, PushCountEnd,
        PushCountStart, PushAccept, PushSleep, PushRefuse, PushReload, PushStore, PushInc,
        VmStop, DrainDone, GetCount, GetRead, GetInc, GetWrapStart, GetWrapLoad,
        GetWrapStore, GetAssert, Release
    <3>2. QED
      BY <3>1 DEF Waiting, First, Past, Wrapping, Fifo!fvars
  <2>4. QED
    BY <2>2, <2>3
<1>6. QED
  BY <1>3, <1>4, <1>5

\* The ring, with whatever number of slots, implements the bounded queue as long
\* as no push overlaps the worker's wrap of the indices.
THEOREM Refinement == Spec => ImplementsFifo
<1>1. Init => Fifo!Init
  <2>1. Init => Waiting = <<>>
    BY DEF Init, Waiting, First, Past, Wrapping
  <2>2. QED
    BY <2>1 DEF Init, Fifo!Init
<1>2. IInv /\ IInv' /\ [Next]_vars => [~raced' => [Fifo!Next]_(Fifo!fvars)]_vars
  BY StepFifo
<1>3. QED
  BY <1>1, <1>2, Invariance, PTL DEF Spec, ImplementsFifo

-----------------------------------------------------------------------------
(***************************************************************************)
(* The life of the backend.                                                *)
(***************************************************************************)
Queued(q) == {q[i] : i \in 1 .. Len(q)}

\* No command is in the ring twice.
Distinct(q) == \A i, j \in 1 .. Len(q) : q[i] = q[j] => i = j

\* The ring and the worker share out the commands that are allocated.
Shared ==
  /\ Distinct(queue) /\ worker.cmd \notin Queued(queue)
  /\ live = Queued(queue) \cup ({worker.cmd} \ {NoCmd})

\* Where each thing is made and taken down
Placed ==
  /\ pc \in Starting \cup {"failed"} =>
       ~worker.running /\ worker.cmd = NoCmd /\ queue = <<>> /\ timer = "none"
  /\ pc \in {"free_input", "drain", "free_output", "exit"} =>
       ~worker.running /\ worker.cmd = NoCmd
  /\ pc \in {"vm_stop", "free_input", "drain", "free_output", "exit"} => timer = "none"
  /\ pc \in Starting => "backend" \in memory
  /\ pc \in {"input", "output"} => worker.attached
  /\ pc \in {"wakeup", "loop", "render", "paint"} \cup Ending =>
       {"backend", "bits", "surface", "output"} \subseteq memory
  /\ pc \in {"wakeup", "loop", "render", "paint", "exit"} \cup Ending =>
       worker.attached /\ worker.surface

ServerInv == ServerTypeOK /\ Shared /\ Placed
-----------------------------------------------------------------------------
WorkerRec ==
  [attached : BOOLEAN, surface : BOOLEAN, running : BOOLEAN,
   cmd : Cmds \cup {NoCmd}, half : 1 .. 3]

LEMMA WorkerFields ==
  ASSUME NEW w \in WorkerRec
  PROVE  /\ w.attached \in BOOLEAN /\ w.surface \in BOOLEAN /\ w.running \in BOOLEAN
         /\ w.cmd \in Cmds \cup {NoCmd} /\ w.half \in 1 .. 3
BY DEF WorkerRec

\* No command is number 0
LEMMA CmdsFacts == Cmds \subseteq Nat \ {0} /\ NoCmd \notin Cmds
BY SpiceServerAssumption DEF Cmds, NoCmd

\* Taking the oldest command from the ring
LEMMA TailFacts ==
  ASSUME NEW q \in Seq(Cmds), q # <<>>, Distinct(q)
  PROVE  /\ Tail(q) \in Seq(Cmds) /\ Len(Tail(q)) = Len(q) - 1 /\ Distinct(Tail(q))
         /\ Head(q) \in Cmds /\ Head(q) \notin Queued(Tail(q))
         /\ Queued(q) = Queued(Tail(q)) \cup {Head(q)}
<1> DEFINE t == Tail(q)
           n == Len(q)
<1>1. n \in Nat \ {0} /\ q[1] = Head(q)
  BY EmptySeq
<1>2. /\ Head(q) \in Cmds /\ t \in Seq(Cmds) /\ Len(t) = n - 1
      /\ \A i \in 1 .. Len(t) : t[i] = q[i + 1]
  BY HeadTailProperties
<1> HIDE DEF t, n
<1>3. Distinct(t)
  <2> SUFFICES ASSUME NEW i \in 1 .. Len(t), NEW j \in 1 .. Len(t), t[i] = t[j]
               PROVE  i = j
    BY DEF Distinct
  <2>1. i + 1 \in 1 .. n /\ j + 1 \in 1 .. n /\ i \in Nat /\ j \in Nat
    BY <1>1, <1>2
  <2>2. q[i + 1] = q[j + 1]
    BY <1>2
  <2>3. i + 1 = j + 1
    BY <2>1, <2>2 DEF Distinct, n
  <2> QED BY <2>1, <2>3
<1>4. Head(q) \notin Queued(t)
  <2> SUFFICES ASSUME NEW i \in 1 .. Len(t), t[i] = Head(q) PROVE FALSE
    BY DEF Queued
  <2>1. 1 \in 1 .. n /\ i + 1 \in 1 .. n /\ i \in Nat /\ i # 0
    BY <1>1, <1>2
  <2>2. q[1] = q[i + 1]
    BY <1>1, <1>2
  <2>3. i + 1 = 1
    BY <2>1, <2>2 DEF Distinct, n
  <2> QED BY <2>1, <2>3
<1>5. Queued(q) \subseteq Queued(t) \cup {Head(q)}
  <2> SUFFICES ASSUME NEW i \in 1 .. n, i # 1 PROVE q[i] \in Queued(t)
    BY <1>1 DEF Queued, n
  <2>1. i - 1 \in 1 .. Len(t) /\ (i - 1) + 1 = i
    BY <1>1, <1>2
  <2>2. t[i - 1] = q[i]
    BY <1>2, <2>1
  <2> QED BY <2>1, <2>2 DEF Queued
<1>6. Queued(t) \subseteq Queued(q) /\ Head(q) \in Queued(q)
  <2>1. 1 \in 1 .. n /\ \A i \in 1 .. Len(t) : i + 1 \in 1 .. n
    BY <1>1, <1>2
  <2> QED BY <1>1, <1>2, <2>1 DEF Queued, n
<1> QED BY <1>2, <1>3, <1>4, <1>5, <1>6 DEF t, n

\* Adding a command that is not in the ring
LEMMA AppendFacts ==
  ASSUME NEW q \in Seq(Cmds), Distinct(q), NEW cmd \in Cmds, cmd \notin Queued(q)
  PROVE  /\ Append(q, cmd) \in Seq(Cmds) /\ Len(Append(q, cmd)) = Len(q) + 1
         /\ Distinct(Append(q, cmd))
         /\ Queued(Append(q, cmd)) = Queued(q) \cup {cmd}
<1> DEFINE a == Append(q, cmd)
           n == Len(q)
<1>1. /\ n \in Nat /\ a \in Seq(Cmds) /\ Len(a) = n + 1 /\ a[n + 1] = cmd
      /\ \A i \in 1 .. n : a[i] = q[i]
  BY LenProperties, AppendProperties
<1> HIDE DEF a, n
<1>2. 1 .. Len(a) = (1 .. n) \cup {n + 1} /\ n + 1 \notin 1 .. n
  BY <1>1
<1>3. \A i \in 1 .. n : a[i] # cmd
  BY <1>1 DEF Queued, n
<1>4. Distinct(a)
  <2> SUFFICES ASSUME NEW i \in 1 .. Len(a), NEW j \in 1 .. Len(a), a[i] = a[j]
               PROVE  i = j
    BY DEF Distinct
  <2>1. CASE i \in 1 .. n /\ j \in 1 .. n
    BY <1>1, <2>1 DEF Distinct, n
  <2>2. CASE i = n + 1 \/ j = n + 1
    BY <1>1, <1>2, <1>3, <2>2
  <2> QED BY <1>2, <2>1, <2>2
<1>5. Queued(a) = Queued(q) \cup {cmd}
  BY <1>1, <1>2 DEF Queued, n
<1> QED BY <1>1, <1>4, <1>5 DEF a, n

\* The ring holds as many commands as it is long
LEMMA QueuedCard ==
  ASSUME NEW q \in Seq(Cmds), Distinct(q)
  PROVE  IsFiniteSet(Queued(q)) /\ Cardinality(Queued(q)) = Len(q)
<1> DEFINE n == Len(q)
<1>1. n \in Nat /\ q \in [1 .. n -> Cmds]
  BY LenProperties
<1>2. q \in Bijection(1 .. n, Queued(q))
  BY <1>1 DEF Distinct, Queued, Bijection, Injection, Surjection, IsInjective
<1>3. ExistsBijection(1 .. n, Queued(q))
  BY <1>2 DEF ExistsBijection
<1> QED BY <1>1, <1>3, FS_NatBijection, FS_CountingElements

\* While the ring has room a command can be allocated: at most QueueSize of the
\* QueueSize + 2 are.
LEMMA FreeCmd ==
  ASSUME ServerTypeOK, Shared, Len(queue) < QueueSize
  PROVE  \E c \in Cmds : c \notin live
<1> SUFFICES ASSUME Cmds \subseteq live PROVE FALSE
  OBVIOUS
<1>1. queue \in Seq(Cmds) /\ Distinct(queue) /\ Len(queue) \in Nat
  BY LenProperties DEF ServerTypeOK, Shared
<1>2. IsFiniteSet(Queued(queue)) /\ Cardinality(Queued(queue)) = Len(queue)
  BY <1>1, QueuedCard
<1> DEFINE all == Queued(queue) \cup {worker.cmd}
<1>3. /\ IsFiniteSet(all)
      /\ Cardinality(all) \in {Len(queue), Len(queue) + 1}
  BY <1>2, FS_AddElement
<1>4. Cmds \subseteq all
  BY DEF Shared
<1>5. IsFiniteSet(Cmds) /\ Cardinality(Cmds) = QueueSize + 2
  BY FS_Interval, SpiceServerAssumption DEF Cmds
<1>6. Cardinality(Cmds) <= Cardinality(all)
  BY <1>3, <1>4, FS_Subset
<1> QED BY <1>1, <1>3, <1>5, <1>6, SpiceServerAssumption

LEMMA InitInv == ServerInit => ServerInv
<1> SUFFICES ASSUME ServerInit PROVE ServerInv
  OBVIOUS
<1>1. queue \in Seq(Cmds) /\ Len(queue) = 0
  BY EmptySeq DEF ServerInit
<1>2. ServerTypeOK
  BY <1>1, SpiceServerAssumption
  DEF ServerInit, ServerTypeOK, Starting, Parts, Halves, Frames, NoCmd
<1>3. Shared
  BY <1>1 DEF ServerInit, Shared, Distinct, Queued
<1>4. Placed
  BY DEF ServerInit, Placed, Starting, Ending, NoCmd
<1> QED BY <1>2, <1>3, <1>4 DEF ServerInv

\* The steps of starting up
LEMMA StartUpStep ==
  ASSUME ServerInv, StartUp
  PROVE  ServerInv'
<1> USE DEF Starting, Ending
<1>1. worker \in WorkerRec
  BY DEF ServerInv, ServerTypeOK, WorkerRec
<1>2. AttachWorker(worker) \in WorkerRec /\ CreatePrimarySurface(worker) \in WorkerRec
  BY <1>1, Zenon DEF WorkerRec, AttachWorker, CreatePrimarySurface
<1>3. /\ AttachWorker(worker).running = worker.running
      /\ AttachWorker(worker).cmd = worker.cmd /\ AttachWorker(worker).attached
      /\ CreatePrimarySurface(worker).running = worker.running
      /\ CreatePrimarySurface(worker).cmd = worker.cmd
      /\ CreatePrimarySurface(worker).surface
      /\ CreatePrimarySurface(worker).attached = worker.attached
  BY <1>1 DEF WorkerRec, AttachWorker, CreatePrimarySurface
<1>4. /\ content' = content /\ fb' = fb /\ queue' = queue /\ live' = live
      /\ picture' = picture /\ timer' \in {timer, "off"}
  BY DEF StartUp, ServerNew, InputInit, CreateOutput, CreateTimer, Fail
<1>5. worker' \in {worker, AttachWorker(worker), CreatePrimarySurface(worker)}
  BY DEF StartUp, ServerNew, InputInit, CreateOutput, CreateTimer, Fail
<1>6. worker' \in WorkerRec /\ worker'.cmd = worker.cmd /\ worker'.running = worker.running
  BY <1>1, <1>2, <1>3, <1>5
<1>7. /\ pc' \in {"input", "output", "wakeup", "loop", "failed"}
      /\ memory' \subseteq Parts
  BY DEF StartUp, ServerNew, InputInit, CreateOutput, CreateTimer, Fail, ServerInv, ServerTypeOK, Parts
<1>8. ServerTypeOK'
  BY <1>4, <1>6, <1>7 DEF ServerInv, ServerTypeOK, WorkerRec
<1>9. Shared'
  BY <1>4, <1>6 DEF ServerInv, Shared
<1>10. Placed'
  <2> HIDE DEF Starting, Ending
  <2>1. CASE ServerNew /\ pc' = "input"
    BY <1>3, <1>4, <1>6, <2>1 DEF ServerNew, Fail, ServerInv, Placed, Starting, Ending
  <2>2. CASE InputInit /\ pc' = "output"
    BY <1>4, <1>6, <2>2 DEF InputInit, Fail, ServerInv, Placed, Starting, Ending
  <2>3. CASE CreateOutput /\ pc' = "wakeup"
    BY <1>3, <1>4, <1>6, <2>3 DEF CreateOutput, Fail, ServerInv, Placed, Starting, Ending
  <2>4. CASE CreateTimer /\ pc' = "loop"
    BY <1>4, <1>6, <2>4 DEF CreateTimer, Fail, ServerInv, Placed, Starting, Ending
  <2>5. CASE pc' = "failed"
    <3>1. timer' = timer /\ worker' = worker /\ pc \in Starting
      BY <2>5 DEF StartUp, ServerNew, InputInit, CreateOutput, CreateTimer, Fail, Starting
    <3> QED BY <1>4, <2>5, <3>1 DEF ServerInv, Placed, Starting, Ending
  <2> QED
    BY <2>1, <2>2, <2>3, <2>4, <2>5
    DEF StartUp, ServerNew, InputInit, CreateOutput, CreateTimer, Fail
<1> QED BY <1>8, <1>9, <1>10 DEF ServerInv

LEMMA MainStep ==
  ASSUME ServerInv, ClientCommit \/ StartRepaintLoop \/ OnWakeup \/ RenderRest \/ Terminate
  PROVE  ServerInv'
<1> USE DEF Starting, Ending
<1>1. worker \in WorkerRec
  BY DEF ServerInv, ServerTypeOK, WorkerRec
<1> DEFINE run == [worker EXCEPT !.running = TRUE]
<1>2. run \in WorkerRec
  BY <1>1, Zenon DEF WorkerRec
<1>3. /\ run.cmd = worker.cmd /\ run.attached = worker.attached
      /\ run.surface = worker.surface
  BY <1>1 DEF WorkerRec
<1>4. worker' \in {worker, run}
  BY DEF ClientCommit, StartRepaintLoop, OnWakeup, RenderRest, Terminate
<1>5. /\ memory' = memory /\ queue' = queue /\ live' = live /\ picture' = picture
  BY DEF ClientCommit, StartRepaintLoop, OnWakeup, RenderRest, Terminate
<1>6. /\ pc \in {"loop", "render"} /\ pc' \in {"loop", "render", "paint", "destroy"}
      /\ timer' \in {timer, "armed"}
  BY DEF ClientCommit, StartRepaintLoop, OnWakeup, RenderRest, Terminate
<1> HIDE DEF run
<1>7. /\ worker' \in WorkerRec /\ worker'.cmd = worker.cmd
      /\ worker'.attached = worker.attached /\ worker'.surface = worker.surface
  BY <1>1, <1>2, <1>3, <1>4
<1>8. content \in Frames /\ content' \in Frames
  BY SpiceServerAssumption
  DEF ServerInv, ServerTypeOK, Frames, ClientCommit, StartRepaintLoop, OnWakeup, RenderRest, Terminate
<1>9. fb' \in [Halves -> Frames]
  BY <1>8
  DEF ServerInv, ServerTypeOK, ClientCommit, StartRepaintLoop, OnWakeup, RenderRest, Terminate
<1>10. ServerTypeOK'
  BY <1>5, <1>6, <1>7, <1>8, <1>9 DEF ServerInv, ServerTypeOK, WorkerRec
<1>11. Shared' /\ Placed'
  BY <1>5, <1>6, <1>7 DEF ServerInv, Shared, Placed
<1> QED BY <1>10, <1>11 DEF ServerInv

LEMMA PaintImageStep ==
  ASSUME ServerInv, PaintImage
  PROVE  ServerInv'
<1> USE DEF Starting, Ending
<1>1. /\ pc = "paint" /\ pc' = "loop" /\ memory' = memory /\ timer' = timer
      /\ content' = content /\ fb' = fb /\ worker' = worker /\ picture' = picture
  BY DEF PaintImage
<1>2. CASE queue' = queue /\ live' = live
  <2>1. ServerTypeOK'
    BY <1>1, <1>2 DEF ServerInv, ServerTypeOK
  <2>2. Shared' /\ Placed'
    BY <1>1, <1>2 DEF ServerInv, Shared, Placed
  <2> QED BY <2>1, <2>2 DEF ServerInv
<1>3. CASE Len(queue) < QueueSize /\ ~(queue' = queue /\ live' = live)
  <2> DEFINE cmd == CHOOSE c \in Cmds : c \notin live
  <2>1. cmd \in Cmds /\ cmd \notin live
    BY <1>3, FreeCmd DEF ServerInv
  <2>2. queue' = Append(queue, cmd) /\ live' = live \cup {cmd}
    BY <1>3 DEF PaintImage
  <2> HIDE DEF cmd
  <2>3. /\ queue \in Seq(Cmds) /\ Distinct(queue) /\ Len(queue) \in Nat
        /\ worker.cmd \in Cmds \cup {NoCmd}
    BY LenProperties, WorkerFields DEF ServerInv, ServerTypeOK, Shared, WorkerRec
  <2>4. cmd \notin Queued(queue) /\ cmd # worker.cmd
    BY <2>1, CmdsFacts DEF ServerInv, Shared
  <2>5. /\ queue' \in Seq(Cmds) /\ Len(queue') = Len(queue) + 1 /\ Distinct(queue')
        /\ Queued(queue') = Queued(queue) \cup {cmd}
    BY <2>1, <2>2, <2>3, <2>4, AppendFacts
  <2>6. Len(queue') <= QueueSize
    BY <1>3, <2>3, <2>5, SpiceServerAssumption
  <2>7. live' \subseteq Cmds
    BY <2>1, <2>2 DEF ServerInv, ServerTypeOK
  <2>8. ServerTypeOK'
    BY <1>1, <2>5, <2>6, <2>7 DEF ServerInv, ServerTypeOK
  <2>9. Shared'
    BY <1>1, <2>2, <2>4, <2>5 DEF ServerInv, Shared
  <2>10. Placed'
    BY <1>1 DEF ServerInv, Placed
  <2> QED BY <2>8, <2>9, <2>10 DEF ServerInv
<1> QED BY <1>2, <1>3 DEF PaintImage

LEMMA GetCommandStep ==
  ASSUME ServerInv, WorkerGetCommand
  PROVE  ServerInv'
<1> USE DEF Starting, Ending
<1> DEFINE cmd == Head(queue)
           taken == [worker EXCEPT !.cmd = cmd, !.half = 1]
<1>1. /\ worker.running /\ worker.cmd = NoCmd /\ queue # <<>>
      /\ worker' = taken /\ queue' = Tail(queue)
      /\ pc' = pc /\ memory' = memory /\ timer' = timer /\ content' = content
      /\ fb' = fb /\ live' = live /\ picture' = picture
  BY DEF WorkerGetCommand
<1>2. worker \in WorkerRec /\ queue \in Seq(Cmds) /\ Distinct(queue)
      /\ Len(queue) <= QueueSize /\ Len(queue) \in Nat
  BY LenProperties DEF ServerInv, ServerTypeOK, WorkerRec, Shared
<1>3. /\ Tail(queue) \in Seq(Cmds) /\ Len(Tail(queue)) = Len(queue) - 1
      /\ Distinct(Tail(queue)) /\ cmd \in Cmds /\ cmd \notin Queued(Tail(queue))
      /\ Queued(queue) = Queued(Tail(queue)) \cup {cmd}
  BY <1>1, <1>2, TailFacts
<1> HIDE DEF cmd
<1>4. cmd \in Cmds \cup {NoCmd} /\ 1 \in 1 .. 3
  BY <1>3
<1>5. taken \in WorkerRec
  BY <1>2, <1>4, Zenon DEF WorkerRec
<1>6. /\ taken.cmd = cmd /\ taken.running = worker.running
      /\ taken.attached = worker.attached /\ taken.surface = worker.surface
  BY <1>2 DEF WorkerRec
<1> HIDE DEF taken
<1>7. Len(queue') <= QueueSize
  BY <1>1, <1>2, <1>3, SpiceServerAssumption
<1>8. ServerTypeOK'
  BY <1>1, <1>3, <1>5, <1>7 DEF ServerInv, ServerTypeOK, WorkerRec
<1>9. Shared'
  BY <1>1, <1>3, <1>6, CmdsFacts DEF ServerInv, Shared
<1>10. Placed'
  BY <1>1, <1>6 DEF ServerInv, Placed
<1> QED BY <1>8, <1>9, <1>10 DEF ServerInv

LEMMA ReadHalfStep ==
  ASSUME ServerInv, ReadHalf
  PROVE  ServerInv'
<1> USE DEF Starting, Ending
<1> DEFINE half == worker.half + 1
           next == [worker EXCEPT !.half = half]
<1>1. /\ worker.half \in Halves /\ worker' = next
      /\ pc' = pc /\ memory' = memory /\ timer' = timer /\ content' = content
      /\ fb' = fb /\ live' = live /\ queue' = queue
      /\ picture' = [picture EXCEPT ![worker.half] = fb[worker.half]]
  BY DEF ReadHalf
<1>2. worker \in WorkerRec
  BY DEF ServerInv, ServerTypeOK, WorkerRec
<1>3. half \in 1 .. 3
  BY <1>1 DEF Halves
<1> HIDE DEF half
<1>4. next \in WorkerRec
  BY <1>2, <1>3, Zenon DEF WorkerRec
<1>5. /\ next.cmd = worker.cmd /\ next.running = worker.running
      /\ next.attached = worker.attached /\ next.surface = worker.surface
  BY <1>2 DEF WorkerRec
<1> HIDE DEF next
<1>6. picture' \in [Halves -> Frames]
  BY <1>1 DEF ServerInv, ServerTypeOK
<1>7. ServerTypeOK'
  BY <1>1, <1>4, <1>6 DEF ServerInv, ServerTypeOK, WorkerRec
<1>8. Shared' /\ Placed'
  BY <1>1, <1>5 DEF ServerInv, Shared, Placed
<1> QED BY <1>7, <1>8 DEF ServerInv

LEMMA ReleaseResourceStep ==
  ASSUME ServerInv, ReleaseResource
  PROVE  ServerInv'
<1> USE DEF Starting, Ending
<1> DEFINE next == [worker EXCEPT !.cmd = NoCmd]
<1>1. /\ worker.cmd # NoCmd /\ worker' = next /\ live' = live \ {worker.cmd}
      /\ pc' = pc /\ memory' = memory /\ timer' = timer /\ content' = content
      /\ fb' = fb /\ queue' = queue /\ picture' = picture
  BY DEF ReleaseResource
<1>2. worker \in WorkerRec /\ queue \in Seq(Cmds)
  BY DEF ServerInv, ServerTypeOK, WorkerRec
<1>3. NoCmd \in Cmds \cup {NoCmd}
  OBVIOUS
<1>4. next \in WorkerRec
  BY <1>2, <1>3, Zenon DEF WorkerRec
<1>5. /\ next.cmd = NoCmd /\ next.running = worker.running
      /\ next.attached = worker.attached /\ next.surface = worker.surface
  BY <1>2 DEF WorkerRec
<1> HIDE DEF next
<1>6. NoCmd \notin Queued(queue)
  <2>1. \A i \in 1 .. Len(queue) : queue[i] \in Cmds
    BY <1>2, LenProperties
  <2> QED BY <2>1, CmdsFacts DEF Queued
<1>7. ServerTypeOK'
  BY <1>1, <1>4 DEF ServerInv, ServerTypeOK, WorkerRec
<1>8. Shared'
  BY <1>1, <1>5, <1>6 DEF ServerInv, Shared
<1>9. Placed'
  BY <1>1, <1>5 DEF ServerInv, Placed
<1> QED BY <1>7, <1>8, <1>9 DEF ServerInv

LEMMA QxlDestroyStep ==
  ASSUME ServerInv, QxlDestroy
  PROVE  ServerInv'
<1> USE DEF Starting, Ending
<1>1. /\ pc = "drain" /\ queue # <<>> /\ queue' = Tail(queue)
      /\ live' = live \ {Head(queue)}
      /\ pc' = pc /\ memory' = memory /\ timer' = timer /\ content' = content
      /\ fb' = fb /\ worker' = worker /\ picture' = picture
  BY DEF QxlDestroy
<1>2. queue \in Seq(Cmds) /\ Distinct(queue)
      /\ Len(queue) <= QueueSize /\ Len(queue) \in Nat
  BY LenProperties DEF ServerInv, ServerTypeOK, Shared
<1>3. /\ Tail(queue) \in Seq(Cmds) /\ Len(Tail(queue)) = Len(queue) - 1
      /\ Distinct(Tail(queue)) /\ Head(queue) \notin Queued(Tail(queue))
      /\ Queued(queue) = Queued(Tail(queue)) \cup {Head(queue)}
  BY <1>1, <1>2, TailFacts
<1>4. Len(queue') <= QueueSize
  BY <1>1, <1>2, <1>3, SpiceServerAssumption
<1>5. ServerTypeOK'
  BY <1>1, <1>3, <1>4 DEF ServerInv, ServerTypeOK
<1>6. Shared'
  BY <1>1, <1>3 DEF ServerInv, Shared
<1>7. Placed'
  BY <1>1 DEF ServerInv, Placed
<1> QED BY <1>5, <1>6, <1>7 DEF ServerInv

LEMMA TakeDownStep ==
  ASSUME ServerInv, OutputDestroy \/ ServerVmStop \/ FreeInput \/ Drained \/ FreeOutput
  PROVE  ServerInv'
<1> USE DEF Starting, Ending
<1> DEFINE stopped == [worker EXCEPT !.running = FALSE]
<1>1. worker \in WorkerRec
  BY DEF ServerInv, ServerTypeOK, WorkerRec
<1>2. stopped \in WorkerRec
  BY <1>1, Zenon DEF WorkerRec
<1>3. /\ stopped.cmd = worker.cmd /\ stopped.attached = worker.attached
      /\ stopped.surface = worker.surface /\ ~stopped.running
  BY <1>1 DEF WorkerRec
<1> HIDE DEF stopped
<1>4. /\ content' = content /\ fb' = fb /\ queue' = queue /\ live' = live
      /\ picture' = picture /\ timer' \in {timer, "none"} /\ memory' \subseteq memory
      /\ pc' \in Ending \cup {"exit"}
  BY DEF OutputDestroy, ServerVmStop, FreeInput, Drained, FreeOutput
<1>5. worker' \in WorkerRec /\ worker'.cmd = worker.cmd
  BY <1>1, <1>2, <1>3 DEF OutputDestroy, ServerVmStop, FreeInput, Drained, FreeOutput, stopped
<1>6. ServerTypeOK'
  BY <1>4, <1>5 DEF ServerInv, ServerTypeOK, WorkerRec
<1>7. Shared'
  BY <1>4, <1>5 DEF ServerInv, Shared
<1>8. Placed'
  <2>1. CASE OutputDestroy
    BY <2>1 DEF OutputDestroy, ServerInv, Placed
  <2>2. CASE ServerVmStop
    BY <1>3, <2>2 DEF ServerVmStop, ServerInv, Placed, stopped
  <2>3. CASE FreeInput
    BY <2>3 DEF FreeInput, ServerInv, Placed
  <2>4. CASE Drained
    BY <2>4 DEF Drained, ServerInv, Placed
  <2>5. CASE FreeOutput
    BY <2>5 DEF FreeOutput, ServerInv, Placed
  <2> QED BY <2>1, <2>2, <2>3, <2>4, <2>5
<1> QED BY <1>6, <1>7, <1>8 DEF ServerInv

\* Every step of either thread keeps the invariant
LEMMA NextStep == ServerInv /\ [ServerNext]_serverVars => ServerInv'
<1> SUFFICES ASSUME ServerInv, [ServerNext]_serverVars PROVE ServerInv'
  OBVIOUS
<1>1. CASE StartUp
  BY <1>1, StartUpStep
<1>2. CASE ClientCommit \/ StartRepaintLoop \/ OnWakeup \/ RenderRest \/ Terminate
  BY <1>2, MainStep
<1>3. CASE PaintImage
  BY <1>3, PaintImageStep
<1>4. CASE WorkerGetCommand
  BY <1>4, GetCommandStep
<1>5. CASE ReadHalf
  BY <1>5, ReadHalfStep
<1>6. CASE ReleaseResource
  BY <1>6, ReleaseResourceStep
<1>7. CASE QxlDestroy
  BY <1>7, QxlDestroyStep
<1>8. CASE OutputDestroy \/ ServerVmStop \/ FreeInput \/ Drained \/ FreeOutput
  BY <1>8, TakeDownStep
<1>9. CASE UNCHANGED serverVars
  <2>1. ServerTypeOK'
    BY <1>9 DEF serverVars, ServerInv, ServerTypeOK
  <2>2. Shared' /\ Placed'
    BY <1>9 DEF serverVars, ServerInv, Shared, Placed
  <2> QED BY <2>1, <2>2 DEF ServerInv
<1> QED
  BY <1>1, <1>2, <1>3, <1>4, <1>5, <1>6, <1>7, <1>8, <1>9
  DEF ServerNext, Repaint, Work, Shutdown

\* The invariant holds at the start and is kept
THEOREM ServerInvariance == ServerSpec => []ServerInv
<1>1. ServerInit => ServerInv
  BY InitInv
<1>2. ServerInv /\ [ServerNext]_serverVars => ServerInv'
  BY NextStep
<1> QED BY <1>1, <1>2, PTL DEF ServerSpec

\* Through start-up, each way it can fail, and shutdown, neither thread reaches
\* what is not there, or no longer, and no command is released twice
THEOREM NothingEverDangles == ServerSpec => []NothingDangles
<1>1. ServerInv => NothingDangles
  <2> SUFFICES ASSUME ServerInv PROVE NothingDangles
    OBVIOUS
  <2> USE DEF Starting, Ending
  <2>1. pc \in Starting \cup {"loop", "render", "paint", "failed", "exit"} \cup Ending
    BY DEF ServerInv, ServerTypeOK
  <2>2. WorkerSafe /\ TimerSafe /\ Attached
    BY <2>1 DEF ServerInv, Placed, WorkerSafe, TimerSafe, Attached
  <2>3. CommandsOnce
    <3>1. queue \in Seq(Cmds) /\ Distinct(queue)
      BY DEF ServerInv, ServerTypeOK, Shared
    <3>2. Cardinality(Queued(queue)) = Len(queue)
      BY <3>1, QueuedCard
    <3>3. /\ live = Queued(queue) \cup ({worker.cmd} \ {NoCmd})
          /\ Queued(queue) \cap ({worker.cmd} \ {NoCmd}) = {}
      BY DEF ServerInv, Shared
    <3> QED BY <3>2, <3>3 DEF CommandsOnce, Queued
  <2> QED BY <2>2, <2>3 DEF ServerInv, NothingDangles
<1> QED BY <1>1, ServerInvariance, PTL

(***************************************************************************)
(* The output and its frame loop.                                          *)
(***************************************************************************)
surface == ec.surface[o]

\* The loop between and within turns of the event loop: the timer may reset it
\* under a queued idle callback and ask again.
LoopInv ==
  /\ ec.input_loop_source \/ out.repaint_scheduled
  /\ out.repaint_scheduled => out.idle_repaints > 0 \/ out.backend.wakeup_timer
  /\ ~fired => /\ out.idle_repaints <= 1
               /\ out.idle_repaints = 1 => out.repaint_scheduled
  /\ fired => /\ out.idle_repaints <= 2
              /\ out.idle_repaints = 2 => out.repaint_scheduled
  /\ ~out.destroying

\* No damage leaves the plane and the surface together.
DamageInv == Made \subseteq surface.damage \cup out.damage

\* The commits whose frame callbacks wait are not repainted yet: no command of
\* the ring has them, and their feedback is still the surface's.
LifeInv ==
  /\ surface.feedback_list \subseteq surface.frame_callback_list
  /\ out.feedback_list \cap surface.frame_callback_list = {}
  /\ surface.frame_callback_list \subseteq Made
  /\ out.feedback_list \subseteq Made
  /\ surface.content \subseteq Made /\ surface.damage \subseteq Made
  /\ out.damage \subseteq Made
  /\ \A i \in 1 .. Len(ring) : ring[i] \subseteq Made \ surface.frame_callback_list
  /\ shown \subseteq Made \ surface.frame_callback_list

OutputInv == OutputTypeOK /\ LoopInv /\ DamageInv /\ LifeInv
-----------------------------------------------------------------------------
\* The one output of this backend
LEMMA OneOutput == {"primary_output"} = {o} /\ o \in {"primary_output"}
BY DEF o

LEMMA NewCompositorFacts ==
  ASSUME MaxCommits \in Nat
  PROVE  /\ NewCompositor \in CompositorType
         /\ NewCompositor.output[o] = NewOutput /\ NewCompositor.surface[o] = NewSurface
         /\ NewCompositor.commits = 0 /\ NewCompositor.presented = {}
         /\ NewCompositor.discarded = {} /\ NewCompositor.input_loop_source = FALSE
         /\ NewCompositor.state = "ACTIVE"
<1>1. NewOutput \in OutputType
  BY DEF NewOutput, OutputType
<1>2. NewSurface \in SurfaceType
  BY DEF NewSurface, SurfaceType
<1>3. 0 \in 0 .. MaxCommits
  OBVIOUS
<1>4. NewCompositor \in CompositorType
  BY <1>1, <1>2, <1>3 DEF NewCompositor, CompositorType
<1> QED BY <1>4, OneOutput DEF NewCompositor

LEMMA OutputInitInv == OutputInit => OutputInv
<1> SUFFICES ASSUME OutputInit PROVE OutputInv
  OBVIOUS
<1> USE SpiceOutputAssumption
<1>1. /\ NewCompositor \in CompositorType
      /\ NewCompositor.output[o] = NewOutput /\ NewCompositor.surface[o] = NewSurface
      /\ NewCompositor.commits = 0 /\ NewCompositor.presented = {}
      /\ NewCompositor.discarded = {} /\ NewCompositor.input_loop_source = FALSE
      /\ NewCompositor.state = "ACTIVE"
  BY NewCompositorFacts
<1>2. /\ ec \in CompositorType /\ Damaged(NewCompositor, ec, o)
      /\ LoopAsked(NewCompositor, ec, o)
  BY <1>1, OneOutput, DamageAllFacts DEF OutputInit
<1>3. OutputTypeOK
  <2>1. ring = <<>> /\ shown = {} /\ started \in BOOLEAN /\ fired \in BOOLEAN
    BY Zenon DEF OutputInit
  <2>2. <<>> \in Seq(SUBSET Commits) /\ Len(<<>>) = 0
    BY EmptySeq
  <2> QED BY <1>2, <2>1, <2>2 DEF OutputTypeOK
<1>4. LoopInv
  <2>1. /\ NewOutput.repaint_scheduled = FALSE /\ NewOutput.idle_repaints = 0
        /\ NewOutput.destroying = FALSE
    BY DEF NewOutput
  <2>2. out.repaint_scheduled /\ out.idle_repaints = 1
    BY <1>1, <1>2, <2>1 DEF LoopAsked, LoopRequested, Awake, out
  <2>3. ~out.destroying
    BY <1>1, <1>2, <2>1 DEF Damaged, SameFrame, out
  <2> QED BY <2>2, <2>3 DEF OutputInit, LoopInv
<1>5. Made = {}
  BY <1>1, <1>2 DEF Made, Damaged, SameUpdates
<1>6. /\ surface = NewSurface /\ out.feedback_list = {}
      /\ out.damage = {}
  BY <1>1, <1>2
  DEF surface, out, Damaged, SameUpdates, SameFrame, NewOutput, NewSurface
<1>7. DamageInv /\ LifeInv
  BY <1>5, <1>6 DEF OutputInit, DamageInv, LifeInv, NewSurface
<1> QED BY <1>3, <1>4, <1>7 DEF OutputInv
-----------------------------------------------------------------------------
\* The parts of the output's and of the surface's record
LEMMA Fields ==
  ASSUME OutputTypeOK
  PROVE  /\ ec \in CompositorType /\ out \in OutputType /\ surface \in SurfaceType
         /\ out.idle_repaints \in Nat /\ out.repaint_scheduled \in BOOLEAN
         /\ out.damage \in SUBSET Commits /\ out.feedback_list \in SUBSET Commits
         /\ out.backend \in [wakeup_timer : BOOLEAN]
         /\ surface.damage \in SUBSET Commits /\ surface.content \in SUBSET Commits
         /\ surface.feedback_list \in SUBSET Commits
         /\ surface.frame_callback_list \in SUBSET Commits
         /\ ec.commits \in 0 .. MaxCommits
<1>1. ec \in CompositorType
  BY DEF OutputTypeOK
<1>2. out \in OutputType /\ surface \in SurfaceType /\ ec.commits \in 0 .. MaxCommits
  BY <1>1, OneOutput, CompositorFields DEF out, surface
<1> HIDE DEF out, surface
<1> QED BY <1>1, <1>2, OutputFields, SurfaceFields

\* Asking the loop for a repaint, or leaving it alone, keeps its invariant
LEMMA LoopKept ==
  ASSUME OutputTypeOK, LoopInv, ec' \in CompositorType, fired' = fired,
         SameFrame(ec, ec', o),
         LoopRequested(ec, ec', o) \/ SameLoop(ec, ec', o)
  PROVE  LoopInv'
<1>1. out.idle_repaints \in Nat
  BY Fields
<1>2. out.backend = out'.backend /\ out.destroying = out'.destroying
  BY DEF out, SameFrame
<1>3. CASE LoopRequested(ec, ec', o)
  BY <1>1, <1>2, <1>3 DEF LoopInv, LoopRequested, out
<1>4. CASE SameLoop(ec, ec', o)
  BY <1>1, <1>2, <1>4 DEF LoopInv, SameLoop, out
<1> QED BY <1>3, <1>4

LEMMA SurfaceCommitStep ==
  ASSUME OutputInv, SurfaceCommit
  PROVE  OutputInv' /\ Updates!Make
<1> USE SpiceOutputAssumption
<1>1. PICK newBuffer \in BOOLEAN : ec' = Commit(ec, o, newBuffer)
  BY DEF SurfaceCommit
<1>2. /\ ec.commits < MaxCommits
      /\ ring' = ring /\ shown' = shown /\ started' = started /\ fired' = fired
  BY DEF SurfaceCommit
<1> DEFINE n == ec.commits + 1
<1>3. /\ ec' \in CompositorType /\ ec'.commits = n
      /\ \E dropped \in {{}, surface.feedback_list} :
           /\ ec'.discarded = ec.discarded \cup dropped
           /\ surface'.feedback_list = (surface.feedback_list \ dropped) \cup {n}
      /\ surface'.frame_callback_list = surface.frame_callback_list \cup {n}
      /\ surface'.damage = surface.damage \cup {n}
      /\ surface'.content = surface.content \cup {n}
      /\ ec'.presented = ec.presented
      /\ SameFrame(ec, ec', o) /\ LoopAsked(ec, ec', o)
      /\ out'.damage = out.damage
  BY <1>1, <1>2, OneOutput, CommitFacts DEF OutputInv, OutputTypeOK, surface, out
<1>4. out'.feedback_list = out.feedback_list
  BY <1>3 DEF SameFrame, out
<1>5. /\ ec.commits \in Nat /\ n \in Nat /\ Made = 1 .. ec.commits
      /\ Made' = Made \cup {n} /\ n \notin Made
  BY <1>3, Fields DEF OutputInv, Made
<1>6. OutputTypeOK'
  BY <1>2, <1>3 DEF OutputInv, OutputTypeOK
<1>7. LoopInv'
  BY <1>2, <1>3, LoopKept DEF OutputInv, LoopAsked
<1>8. DamageInv'
  BY <1>3, <1>5 DEF OutputInv, DamageInv
<1>9. PICK dropped \in {{}, surface.feedback_list} :
        /\ ec'.discarded = ec.discarded \cup dropped
        /\ surface'.feedback_list = (surface.feedback_list \ dropped) \cup {n}
  BY <1>3
<1>10. LifeInv'
  BY <1>2, <1>3, <1>4, <1>5, <1>9 DEF OutputInv, LifeInv
<1>11. Updates!Make
  <2>1. /\ ec'.commits = ec.commits + 1
        /\ surface'.frame_callback_list = surface.frame_callback_list \cup {ec.commits + 1}
        /\ ec'.presented = ec.presented /\ shown' = shown
    BY <1>2, <1>3
  <2> DEFINE feedback == surface.feedback_list \cup out.feedback_list
  <2>2. dropped \in SUBSET (feedback \cap surface.frame_callback_list)
    BY <1>9 DEF OutputInv, LifeInv
  <2>3. surface'.feedback_list \cup out'.feedback_list = (feedback \ dropped) \cup {n}
    BY <1>4, <1>9 DEF OutputInv, LifeInv
  <2> QED BY <1>9, <2>1, <2>2, <2>3 DEF Updates!Make, surface, out
<1> QED BY <1>6, <1>7, <1>8, <1>10, <1>11 DEF OutputInv

LEMMA EndTurnStep ==
  ASSUME OutputInv, EndTurn
  PROVE  OutputInv' /\ UNCHANGED Updates!uvars
<1>1. ring' = ring /\ shown' = shown /\ fired' = FALSE /\ started' \in BOOLEAN
  BY DEF EndTurn, OutputInv, OutputTypeOK
<1>2. /\ ec \in CompositorType /\ out \in OutputType
      /\ out.idle_repaints \in Nat /\ out.backend \in [wakeup_timer : BOOLEAN]
  BY Fields DEF OutputInv
<1>3. CASE out.idle_repaints = 0
  <2>1. ec' = ec
    BY <1>3 DEF EndTurn
  <2>2. out' = out /\ surface' = surface /\ Made' = Made
    BY <2>1 DEF out, surface, Made
  <2>3. OutputTypeOK'
    BY <1>1, <2>1 DEF OutputInv, OutputTypeOK
  <2>4. LoopInv'
    BY <1>1, <1>3, <2>1, <2>2 DEF OutputInv, LoopInv
  <2>5. DamageInv' /\ LifeInv'
    BY <1>1, <2>1, <2>2 DEF OutputInv, DamageInv, LifeInv
  <2> QED BY <1>1, <2>1, <2>2, <2>3, <2>4, <2>5 DEF OutputInv, Updates!uvars
<1>4. CASE out.idle_repaints # 0
  <2> DEFINE y == LoopStarted(out)
  <2>1. ec' = WithOutput(ec, o, y)
    BY <1>4 DEF EndTurn, WithOutput, out
  <2>2. [out.backend EXCEPT !.wakeup_timer = TRUE] \in [wakeup_timer : BOOLEAN]
    BY <1>2
  <2>3. y \in OutputType
    BY <1>2, <2>2, Zenon DEF OutputType, LoopStarted
  <2>4. /\ y.idle_repaints = 0 /\ y.backend.wakeup_timer = TRUE
        /\ y.feedback_list = out.feedback_list /\ y.damage = out.damage
        /\ y.destroying = out.destroying
        /\ y.repaint_scheduled = out.repaint_scheduled
    BY <1>2 DEF OutputType, LoopStarted
  <2> HIDE DEF y
  <2>5. /\ ec' \in CompositorType /\ out' = y /\ SameUpdates(ec, ec')
        /\ ec'.input_loop_source = ec.input_loop_source
    BY <1>2, <2>1, <2>3, OneOutput, WithOutputFacts DEF out
  <2>6. surface' = surface /\ Made' = Made
    BY <2>5 DEF SameUpdates, surface, Made
  <2>7. OutputTypeOK'
    BY <1>1, <2>5 DEF OutputInv, OutputTypeOK
  <2>8. LoopInv'
    BY <1>1, <2>4, <2>5 DEF OutputInv, LoopInv
  <2>9. DamageInv' /\ LifeInv'
    BY <1>1, <2>4, <2>5, <2>6 DEF OutputInv, DamageInv, LifeInv
  <2> QED
    BY <1>1, <2>4, <2>5, <2>6, <2>7, <2>8, <2>9
    DEF OutputInv, Updates!uvars, SameUpdates
<1> QED BY <1>3, <1>4

LEMMA WorkerDrawStep ==
  ASSUME OutputInv, WorkerDraw
  PROVE  OutputInv' /\ Updates!Frame
<1>1. /\ ring # <<>> /\ ring' = Tail(ring) /\ shown' = shown \cup Head(ring)
      /\ ec' = ec /\ started' = started /\ fired' = fired
  BY DEF WorkerDraw
<1>2. ring \in Seq(SUBSET Commits)
  BY DEF OutputInv, OutputTypeOK
<1>3. /\ Head(ring) \in SUBSET Commits /\ Head(ring) = ring[1] /\ 1 \in 1 .. Len(ring)
      /\ Tail(ring) \in Seq(SUBSET Commits) /\ Len(Tail(ring)) = Len(ring) - 1
      /\ \A i \in 1 .. Len(Tail(ring)) : Tail(ring)[i] = ring[i + 1]
      /\ Len(ring) \in Nat
  BY <1>1, <1>2, HeadTailProperties, LenProperties
<1>4. out' = out /\ surface' = surface /\ Made' = Made
  BY <1>1 DEF out, surface, Made
<1>5. OutputTypeOK'
  <2>1. Len(ring') <= RingSize
    BY <1>1, <1>3, SpiceOutputAssumption DEF OutputInv, OutputTypeOK
  <2>2. shown' \subseteq Commits
    BY <1>1, <1>3 DEF OutputInv, OutputTypeOK
  <2>3. ec' \in CompositorType /\ started' \in BOOLEAN /\ fired' \in BOOLEAN
    BY <1>1 DEF OutputInv, OutputTypeOK
  <2> QED BY <1>1, <1>3, <2>1, <2>2, <2>3 DEF OutputTypeOK
<1>6. LoopInv' /\ DamageInv'
  BY <1>1, <1>4 DEF OutputInv, LoopInv, DamageInv
<1>7. Head(ring) \subseteq Made \ surface.frame_callback_list
  BY <1>3 DEF OutputInv, LifeInv
<1>8. \A i \in 1 .. Len(ring') :
        ring'[i] \subseteq Made \ surface.frame_callback_list
  BY <1>1, <1>3 DEF OutputInv, LifeInv
<1>9. LifeInv'
  BY <1>1, <1>4, <1>7, <1>8 DEF OutputInv, LifeInv
<1>10. Updates!Frame
  <2>1. shown \subseteq shown' /\ shown' \subseteq Made \ surface.frame_callback_list
    BY <1>1, <1>7 DEF OutputInv, LifeInv
  <2> DEFINE feedback == surface.feedback_list \cup out.feedback_list
  <2>2. {} \in SUBSET (feedback \ surface.frame_callback_list)
        /\ feedback = feedback \ {} /\ ec.presented = ec.presented \cup {}
    OBVIOUS
  <2> QED
    BY <1>1, <1>4, <2>1, <2>2
    DEF Updates!Frame, Updates!Repainted, Updates!Updates, surface, out, Made
<1> QED BY <1>5, <1>6, <1>9, <1>10 DEF OutputInv

LEMMA PowerStep ==
  ASSUME OutputInv, Power
  PROVE  OutputInv' /\ UNCHANGED Updates!uvars
<1>1. ec \in CompositorType /\ surface.content \in SUBSET Commits
  BY Fields DEF OutputInv
<1>2. /\ ring' = ring /\ shown' = shown /\ started' = started /\ fired' = fired
      /\ \/ ec' = Sleep(ec) \/ ec' = Offscreen(ec)
         \/ \E s \in SUBSET {o} : ec' = Wake(ec, s)
         \/ \E i \in BOOLEAN, s \in SUBSET {o} : ec' = IdleHandler(ec, i, s)
  <2>1. ring' = ring /\ shown' = shown /\ started' = started /\ fired' = fired
    BY DEF Power
  <2>2. \/ ec' = Sleep(ec) \/ ec' = Offscreen(ec)
        \/ \E s \in SUBSET {o} : ec' = Wake(ec, s)
        \/ \E i \in BOOLEAN, s \in SUBSET {o} : ec' = IdleHandler(ec, i, s)
    BY Zenon DEF Power
  <2> QED BY <2>1, <2>2
<1>3. ec' \in CompositorType /\ Powered(ec, ec', o)
  <2>1. CASE ec' = Sleep(ec) \/ ec' = Offscreen(ec)
    BY <1>1, <2>1, OneOutput, SleepPowers
  <2>2. CASE \E s \in SUBSET {o} : ec' = Wake(ec, s)
    BY <1>1, <2>2, OneOutput, WakePowers
  <2>3. CASE \E i \in BOOLEAN, s \in SUBSET {o} : ec' = IdleHandler(ec, i, s)
    BY <1>1, <2>3, OneOutput, IdleHandlerPowers
  <2> QED BY <1>2, <2>1, <2>2, <2>3
<1>4. /\ SameUpdates(ec, ec') /\ SameFrame(ec, ec', o)
      /\ LoopRequested(ec, ec', o) \/ SameLoop(ec, ec', o)
  BY <1>3 DEF Powered
<1>5. PICK new \in SUBSET surface.content : out'.damage = out.damage \cup new
  BY <1>3 DEF Powered, surface, out
<1>6. surface' = surface /\ Made' = Made /\ out'.feedback_list = out.feedback_list
  BY <1>4 DEF SameUpdates, SameFrame, surface, out, Made
<1>7. OutputTypeOK'
  BY <1>2, <1>3 DEF OutputInv, OutputTypeOK
<1>8. LoopInv'
  BY <1>2, <1>3, <1>4, LoopKept DEF OutputInv
<1>9. DamageInv' /\ LifeInv'
  BY <1>2, <1>5, <1>6 DEF OutputInv, DamageInv, LifeInv
<1> QED
  BY <1>2, <1>4, <1>6, <1>7, <1>8, <1>9 DEF OutputInv, Updates!uvars, SameUpdates, surface, out

\* The delay to the next repaint is always past: the refresh is negative
LEMMA DelayPast ==
  ASSUME NEW gone \in FrameAges
  PROVE  /\ RepaintDelay(RefreshNsec, gone, RepaintMsec, FALSE) \in Int
         /\ RepaintDelay(RefreshNsec, gone, RepaintMsec, FALSE) < 1
<1>1. RefreshNsec - gone \in {-837057878, -839057878}
  BY SMT DEF FrameAges, RefreshNsec
<1>2. TruncDiv(RefreshNsec - gone, 1000000) \in {-837, -839}
  BY <1>1, SMT DEF TruncDiv
<1> QED BY <1>2, SMT DEF RepaintDelay, RepaintMsec

\* What on_wakeup comes to for the compositor
LEMMA WakeupFacts ==
  ASSUME OutputInv, ~fired, out.backend.wakeup_timer,
         NEW then \in Then, NEW outcome \in Outcomes, NEW gone \in FrameAges,
         fired' = TRUE,
         ec' = ScheduleRepaint(
                 FinishFrame(ec, o, FALSE,
                   RepaintDelay(RefreshNsec, gone, RepaintMsec, FALSE),
                   SpiceRepaint(outcome), then),
                 o)
  PROVE  /\ ec' \in CompositorType /\ LoopInv'
         /\ ec'.commits = ec.commits /\ ec'.discarded = ec.discarded
         /\ ec'.presented = ec.presented \cup out.feedback_list
         /\ IF out.repaint_needed /\ Awake(ec)
            THEN /\ surface'.content = surface.content /\ surface'.damage = {}
                 /\ surface'.frame_callback_list = {} /\ surface'.feedback_list = {}
                 /\ out'.feedback_list = surface.feedback_list
                 /\ out'.damage = out.damage \cup surface.damage
            ELSE /\ surface' = surface /\ out'.feedback_list = {}
                 /\ out'.damage = out.damage
<1> DEFINE r == SpiceRepaint(outcome)
           msec == RepaintDelay(RefreshNsec, gone, RepaintMsec, FALSE)
           f == FinishFrame(ec, o, FALSE, msec, r, then)
<1>1. ec' = ScheduleRepaint(f, o)
  OBVIOUS
<1>2. msec \in Int /\ msec < 1
  BY DelayPast
<1>3. /\ ec \in CompositorType /\ out.idle_repaints \in Nat
      /\ out.backend \in [wakeup_timer : BOOLEAN]
      /\ out.damage \cup surface.damage \in SUBSET Commits
  BY Fields DEF OutputInv
<1>4. /\ r.damage = out.damage \cup surface.damage /\ r.backend = out.backend
      /\ r.ok = (outcome # "nomem")
      /\ r = [ok |-> outcome # "nomem", damage |-> out.damage \cup surface.damage,
              backend |-> out.backend]
  BY DEF SpiceRepaint, Accumulated, out, surface
<1>5. (outcome # "nomem") \in BOOLEAN
  OBVIOUS
<1>6. r \in RepaintResult
  BY <1>3, <1>4, <1>5 DEF RepaintResult
<1> HIDE DEF r, msec, f
<1>7. /\ f \in CompositorType /\ FrameEnded(ec, f, o)
      /\ LoopTurned(ec, f, o, r)
      /\ IF Repaints(ec, o) THEN NextRepainted(ec, f, o, r)
                            ELSE NoneRepainted(ec, f, o)
  <2>1. FALSE \in BOOLEAN
    OBVIOUS
  <2>2. f \in CompositorType /\ Finished(ec, f, o, FALSE, msec, r)
    BY <1>2, <1>3, <1>6, <2>1, OneOutput, FinishFrameFacts DEF f
  <2> QED BY <1>2, <2>2 DEF Finished
<1>8. /\ ec' \in CompositorType
      /\ SameUpdates(f, ec') /\ SameFrame(f, ec', o) /\ LoopAsked(f, ec', o)
      /\ out'.damage = f.output[o].damage
  BY <1>1, <1>7, OneOutput, ScheduleRepaintFacts DEF out
<1>9. Repaints(ec, o) <=> out.repaint_needed /\ Awake(ec)
  BY DEF OutputInv, LoopInv, Repaints, out
<1>10. /\ out'.backend = out.backend /\ out'.destroying = out.destroying
       /\ out'.feedback_list = f.output[o].feedback_list
  BY <1>4, <1>7, <1>8 DEF SameFrame, FrameEnded, NextRepainted, NoneRepainted, out
<1>11. LoopInv'
  <2>1. f.output[o] \in OutputType
    BY <1>7, OneOutput, CompositorFields
  <2>2. f.output[o].idle_repaints \in Nat
    BY <2>1, OutputFields
  <2>3. /\ out.idle_repaints <= 1
        /\ out.idle_repaints = 1 => out.repaint_scheduled
        /\ ec.input_loop_source \/ out.repaint_scheduled
    BY DEF OutputInv, LoopInv
  <2>4. /\ f.output[o].idle_repaints <= 1
        /\ f.output[o].idle_repaints = 1 => Awake(f) \/ out.repaint_scheduled
        /\ f.input_loop_source \/ f.output[o].repaint_scheduled
    BY <1>3, <1>7, <2>2, <2>3 DEF LoopTurned, out
  <2>5. out'.backend.wakeup_timer /\ ~out'.destroying
    BY <1>10 DEF OutputInv, LoopInv
  <2>6. CASE Awake(f)
    <3>1. LoopRequested(f, ec', o)
      BY <1>8, <2>6 DEF LoopAsked
    <3>2. out'.repaint_scheduled
      BY <3>1 DEF LoopRequested, out
    <3>3. \/ out'.idle_repaints = f.output[o].idle_repaints
          \/ out'.idle_repaints = f.output[o].idle_repaints + 1
      BY <3>1 DEF LoopRequested, out
    <3>4. out'.idle_repaints <= 2
      BY <2>2, <2>4, <3>3
    <3> QED BY <2>5, <3>2, <3>4 DEF LoopInv
  <2>7. CASE ~Awake(f)
    <3>1. /\ out'.repaint_scheduled = f.output[o].repaint_scheduled
          /\ out'.idle_repaints = f.output[o].idle_repaints
          /\ ec'.input_loop_source = f.input_loop_source
      BY <1>8, <2>7 DEF LoopAsked, SameLoop, out
    <3>2. ec'.input_loop_source \/ out'.repaint_scheduled
      BY <2>4, <3>1
    <3>3. out'.idle_repaints <= 2 /\ out'.idle_repaints # 2
      BY <2>2, <2>4, <3>1
    <3> QED BY <2>5, <3>2, <3>3 DEF LoopInv
  <2> QED BY <2>6, <2>7
<1>12. /\ surface' = f.surface[o]
       /\ ec'.commits = f.commits /\ ec'.discarded = f.discarded
       /\ ec'.presented = f.presented
  BY <1>8 DEF SameUpdates, surface
<1>13. /\ ec'.commits = ec.commits /\ ec'.discarded = ec.discarded
       /\ ec'.presented = ec.presented \cup out.feedback_list
  BY <1>7, <1>12 DEF FrameEnded, out
<1>14. CASE Repaints(ec, o)
  <2>1. NextRepainted(ec, f, o, r)
    BY <1>7, <1>14
  <2>2. /\ surface'.content = surface.content /\ surface'.damage = {}
        /\ surface'.frame_callback_list = {} /\ surface'.feedback_list = {}
        /\ out'.feedback_list = surface.feedback_list
        /\ out'.damage = out.damage \cup surface.damage
    BY <1>4, <1>8, <1>10, <1>12, <2>1 DEF NextRepainted, surface
  <2> QED BY <1>8, <1>9, <1>11, <1>13, <1>14, <2>2
<1>15. CASE ~Repaints(ec, o)
  <2>1. NoneRepainted(ec, f, o)
    BY <1>7, <1>15
  <2>2. surface' = surface /\ out'.feedback_list = {} /\ out'.damage = out.damage
    BY <1>8, <1>10, <1>12, <2>1 DEF NoneRepainted, surface, out
  <2> QED BY <1>8, <1>9, <1>11, <1>13, <1>15, <2>2
<1> QED BY <1>14, <1>15

\* What pushing a command does to the ring
LEMMA PushFacts ==
  ASSUME OutputTypeOK, NEW damage \in SUBSET Commits, NEW outcome \in Outcomes,
         Push(damage, outcome), NEW old, NEW new,
         \A i \in 1 .. Len(ring) : ring[i] \subseteq old,
         shown \subseteq old, old \subseteq new, damage \subseteq new
  PROVE  /\ ring' \in Seq(SUBSET Commits) /\ Len(ring') <= RingSize
         /\ shown' \subseteq Commits
         /\ \A i \in 1 .. Len(ring') : ring'[i] \subseteq new
         /\ shown \subseteq shown' /\ shown' \subseteq old
<1> USE SpiceOutputAssumption
<1>1. /\ ring \in Seq(SUBSET Commits) /\ Len(ring) <= RingSize /\ Len(ring) \in Nat
      /\ shown \subseteq Commits
  BY LenProperties DEF OutputTypeOK
<1>2. CASE ring' = ring /\ shown' = shown
  BY <1>1, <1>2
<1>3. CASE /\ Len(ring) < RingSize /\ ring' = Append(ring, damage)
           /\ shown' = shown
  <2>1. /\ ring' \in Seq(SUBSET Commits) /\ Len(ring') = Len(ring) + 1
        /\ \A i \in 1 .. Len(ring) : ring'[i] = ring[i]
        /\ ring'[Len(ring) + 1] = damage
    BY <1>1, <1>3, AppendProperties
  <2>2. \A i \in 1 .. Len(ring') : ring'[i] \subseteq new
    BY <1>1, <2>1
  <2> QED BY <1>1, <1>3, <2>1, <2>2
<1>4. CASE /\ Len(ring) = RingSize /\ ring' = Append(Tail(ring), damage)
           /\ shown' = shown \cup Head(ring)
  <2>1. ring # <<>>
    BY <1>1, <1>4, EmptySeq
  <2>2. /\ Head(ring) \in SUBSET Commits /\ Head(ring) = ring[1]
        /\ Tail(ring) \in Seq(SUBSET Commits) /\ Len(Tail(ring)) = Len(ring) - 1
        /\ \A i \in 1 .. Len(Tail(ring)) : Tail(ring)[i] = ring[i + 1]
    BY <1>1, <2>1, HeadTailProperties
  <2>3. Head(ring) \subseteq old
    BY <1>1, <1>4, <2>2
  <2> DEFINE t == Tail(ring)
  <2> HIDE DEF t
  <2>4. /\ t \in Seq(SUBSET Commits) /\ Len(t) = Len(ring) - 1
        /\ \A i \in 1 .. Len(t) : t[i] = ring[i + 1]
        /\ ring' = Append(t, damage)
    BY <1>4, <2>2 DEF t
  <2>5. /\ ring' \in Seq(SUBSET Commits) /\ Len(ring') = Len(t) + 1
        /\ \A i \in 1 .. Len(t) : ring'[i] = t[i]
        /\ ring'[Len(t) + 1] = damage
    BY <2>4, AppendProperties
  <2>6. \A i \in 1 .. Len(t) : t[i] \subseteq new
    BY <1>1, <2>4
  <2>7. \A i \in 1 .. Len(ring') : ring'[i] \subseteq new
    BY <1>1, <1>4, <2>4, <2>5, <2>6
  <2> QED BY <1>1, <1>4, <2>2, <2>3, <2>4, <2>5, <2>7
<1> QED BY <1>2, <1>3, <1>4 DEF Push

LEMMA OutputWakeupStep ==
  ASSUME OutputInv, OutputWakeup
  PROVE  OutputInv' /\ Updates!Frame
<1>1. /\ out.backend.wakeup_timer /\ ~fired /\ fired' = TRUE /\ started' = started
  BY DEF OutputWakeup
<1>2. PICK then \in Then, outcome \in Outcomes, gone \in FrameAges :
        /\ ec' = ScheduleRepaint(
                   FinishFrame(ec, o, FALSE,
                     RepaintDelay(RefreshNsec, gone, RepaintMsec, FALSE),
                     SpiceRepaint(outcome), then),
                   o)
        /\ IF out.repaint_needed /\ Awake(ec)
           THEN Push(Accumulated(ec, o), outcome)
           ELSE UNCHANGED <<ring, shown>>
  BY DEF OutputWakeup
<1>3. /\ ec' \in CompositorType /\ LoopInv'
      /\ ec'.commits = ec.commits /\ ec'.discarded = ec.discarded
      /\ ec'.presented = ec.presented \cup out.feedback_list
      /\ IF out.repaint_needed /\ Awake(ec)
         THEN /\ surface'.content = surface.content /\ surface'.damage = {}
              /\ surface'.frame_callback_list = {} /\ surface'.feedback_list = {}
              /\ out'.feedback_list = surface.feedback_list
              /\ out'.damage = out.damage \cup surface.damage
         ELSE /\ surface' = surface /\ out'.feedback_list = {}
              /\ out'.damage = out.damage
  BY <1>1, <1>2, WakeupFacts
<1>4. Made' = Made
  BY <1>3 DEF Made
<1> DEFINE callbacks == surface.frame_callback_list
           old == Made \ callbacks
<1>5. /\ surface.feedback_list \subseteq callbacks /\ callbacks \subseteq Made
      /\ out.feedback_list \cap callbacks = {} /\ out.feedback_list \subseteq Made
      /\ surface.content \subseteq Made /\ surface.damage \subseteq Made
      /\ out.damage \subseteq Made
      /\ \A i \in 1 .. Len(ring) : ring[i] \subseteq old
      /\ shown \subseteq old
      /\ Made \subseteq surface.damage \cup out.damage
  BY DEF OutputInv, LifeInv, DamageInv
<1>6. OutputTypeOK /\ started' \in BOOLEAN /\ fired' \in BOOLEAN
  BY <1>1 DEF OutputInv, OutputTypeOK
<1>7. CASE out.repaint_needed /\ Awake(ec)
  <2>1. Push(out.damage \cup surface.damage, outcome)
    BY <1>2, <1>7 DEF Accumulated, out, surface
  <2>2. out.damage \cup surface.damage \in SUBSET Commits
    BY <1>6, Fields
  <2>3. /\ ring' \in Seq(SUBSET Commits) /\ Len(ring') <= RingSize
        /\ shown' \subseteq Commits
        /\ \A i \in 1 .. Len(ring') : ring'[i] \subseteq Made
        /\ shown \subseteq shown' /\ shown' \subseteq old
    <3> DEFINE damage == out.damage \cup surface.damage
    <3>1. damage \subseteq Made /\ old \subseteq Made
      BY <1>5
    <3> HIDE DEF damage, old
    <3> QED BY <1>5, <1>6, <2>1, <2>2, <3>1, PushFacts DEF damage
  <2>4. OutputTypeOK'
    BY <1>3, <1>6, <2>3 DEF OutputTypeOK
  <2>5. DamageInv'
    BY <1>3, <1>4, <1>5, <1>7 DEF DamageInv
  <2>6. Made \ {} = Made
    OBVIOUS
  <2>7. LifeInv'
    BY <1>3, <1>4, <1>5, <1>7, <2>3, <2>6 DEF LifeInv
  <2>8. Updates!Frame
    <3> DEFINE feedback == surface.feedback_list \cup out.feedback_list
    <3>1. /\ out.feedback_list \in SUBSET (feedback \ callbacks)
          /\ surface'.feedback_list \cup out'.feedback_list = feedback \ out.feedback_list
      BY <1>3, <1>5, <1>7
    <3> QED
      BY <1>3, <1>7, <2>3, <3>1
      DEF Updates!Frame, Updates!Repainted, Updates!Updates, surface, out, Made
  <2> QED BY <1>3, <2>4, <2>5, <2>7, <2>8 DEF OutputInv
<1>8. CASE ~(out.repaint_needed /\ Awake(ec))
  <2>1. ring' = ring /\ shown' = shown
    BY <1>2, <1>8
  <2>2. surface' = surface /\ out'.feedback_list = {} /\ out'.damage = out.damage
    BY <1>3, <1>8
  <2>3. OutputTypeOK'
    BY <1>3, <1>6, <2>1 DEF OutputTypeOK
  <2>4. DamageInv' /\ LifeInv'
    BY <1>4, <1>5, <2>1, <2>2 DEF DamageInv, LifeInv
  <2>5. Updates!Frame
    <3> DEFINE feedback == surface.feedback_list \cup out.feedback_list
    <3>1. /\ out.feedback_list \in SUBSET (feedback \ callbacks)
          /\ surface'.feedback_list \cup out'.feedback_list = feedback \ out.feedback_list
      BY <1>5, <2>2
    <3>2. shown \subseteq shown' /\ shown' \subseteq old
      BY <1>5, <2>1
    <3> QED
      BY <1>3, <2>2, <3>1, <3>2
      DEF Updates!Frame, Updates!Repainted, Updates!Updates, surface, out, Made
  <2> QED BY <1>3, <2>3, <2>4, <2>5 DEF OutputInv
<1> QED BY <1>7, <1>8
-----------------------------------------------------------------------------
\* Every step keeps the invariant and is a step of UpdateLife or stutters
LEMMA OutputNextStep ==
  OutputInv /\ [OutputNext]_outputVars => OutputInv' /\ [Updates!Next]_(Updates!uvars)
<1> SUFFICES ASSUME OutputInv, [OutputNext]_outputVars
             PROVE  OutputInv' /\ [Updates!Next]_(Updates!uvars)
  OBVIOUS
<1>1. CASE SurfaceCommit
  BY <1>1, SurfaceCommitStep DEF Updates!Next
<1>2. CASE EndTurn
  BY <1>2, EndTurnStep
<1>3. CASE OutputWakeup
  BY <1>3, OutputWakeupStep DEF Updates!Next
<1>4. CASE WorkerDraw
  BY <1>4, WorkerDrawStep DEF Updates!Next
<1>5. CASE Power
  BY <1>5, PowerStep
<1>6. CASE UNCHANGED outputVars
  <2>1. /\ ec' = ec /\ ring' = ring /\ shown' = shown /\ started' = started
        /\ fired' = fired
    BY <1>6 DEF outputVars
  <2>2. OutputTypeOK'
    BY <2>1, Zenon DEF OutputInv, OutputTypeOK
  <2>3. LoopInv' /\ DamageInv' /\ LifeInv'
    BY <2>1 DEF OutputInv, LoopInv, DamageInv, LifeInv, out, surface, Made
  <2>4. UNCHANGED Updates!uvars
    BY <2>1 DEF Updates!uvars, out
  <2> QED BY <2>2, <2>3, <2>4 DEF OutputInv
<1> QED BY <1>1, <1>2, <1>3, <1>4, <1>5, <1>6 DEF OutputNext

\* The invariant holds at the start and is kept
THEOREM OutputInvariance == OutputSpec => []OutputInv
<1>1. OutputInit => OutputInv
  BY OutputInitInv
<1>2. OutputInv /\ [OutputNext]_outputVars => OutputInv'
  BY OutputNextStep
<1> QED BY <1>1, <1>2, PTL DEF OutputSpec

\* While the input source is out of the main loop a scheduled repaint will read
\* it, whatever the order of the timer, the idle callbacks and the power states
THEOREM InputIsServed == OutputSpec => []InputServed
<1>1. OutputInv => InputServed
  <2> SUFFICES ASSUME OutputInv PROVE InputServed
    OBVIOUS
  <2>1. out.idle_repaints \in Nat
    BY Fields DEF OutputInv
  <2> QED BY <2>1 DEF OutputInv, LoopInv, InputServed
<1> QED BY <1>1, OutputInvariance, PTL

\* No commit is lost on the way to the client by a refused, failed or skipped
\* draw command
THEOREM DamageIsKept == OutputSpec => []DamageKept
<1>1. OutputInv => DamageKept
  BY DEF OutputInv, DamageInv, DamageKept, surface
<1> QED BY <1>1, OutputInvariance, PTL

\* The frame callbacks, feedback and pictures of the output live as UpdateLife
\* says, for any number of commits and any size of the ring
THEOREM UpdatesRefinement == OutputSpec => ImplementsUpdates
<1>1. OutputInit => Updates!Init
  <2> SUFFICES ASSUME OutputInit PROVE Updates!Init
    OBVIOUS
  <2>1. NewSurface.frame_callback_list = {} /\ NewSurface.feedback_list = {}
        /\ NewOutput.feedback_list = {}
    BY DEF NewSurface, NewOutput
  <2>2. /\ ec.commits = 0 /\ ec.presented = {} /\ ec.discarded = {}
        /\ ec.surface[o] = NewSurface
        /\ out.feedback_list = {}
    <3>1. Damaged(NewCompositor, ec, o)
      BY NewCompositorFacts, OneOutput, DamageAllFacts, SpiceOutputAssumption DEF OutputInit
    <3> QED
      BY <2>1, <3>1, NewCompositorFacts, SpiceOutputAssumption
      DEF Damaged, SameUpdates, SameFrame, out
  <2> QED BY <2>1, <2>2 DEF OutputInit, Updates!Init
<1>2. OutputInv /\ [OutputNext]_outputVars => [Updates!Next]_(Updates!uvars)
  BY OutputNextStep
<1> QED BY <1>1, <1>2, OutputInvariance, PTL DEF OutputSpec, ImplementsUpdates, Updates!Spec
=============================================================================
