------------------------------ MODULE SpiceOutput -----------------------------
(***************************************************************************)
(* The output of the SPICE backend (src/src/spice/compositor-spice.c)      *)
(* driving the repaint machinery.  A timer that re-arms itself every       *)
(* millisecond ends one frame and starts the next; a repaint queues a draw *)
(* command in the ring (SpiceQueue, here a bounded queue), which the       *)
(* worker thread of libspice-server takes and shows.                       *)
(***************************************************************************)
EXTENDS Integers, Sequences

CONSTANTS
  MaxCommits,  \* bound: wl_surface.commit requests
  RingSize     \* commands the ring holds (MAX_COMMAND_NUM)

ASSUME SpiceOutputAssumption ==
  MaxCommits \in Nat /\ RingSize \in Nat \ {0}

INSTANCE RepaintLemmas
  WITH Outputs <- {"primary_output"},
       NewBackend <- [wakeup_timer |-> FALSE],
       BackendType <- [wakeup_timer : BOOLEAN]

VARIABLES
  ec,      \* the compositor: RepaintCore's record
  ring,    \* the draw commands in the ring, each the damage it clips to
  shown,   \* commits the worker has drawn for the client
  started, \* spice_server_vm_start was called: the worker polls
  fired    \* the timer was dispatched in this turn of the event loop

outputVars == <<ec, ring, shown, started, fired>>

o == "primary_output"
out == ec.output[o]

\* The mode's refresh is 6; weston_output_finish_frame keeps the low 32 bits
\* of 10^12 / 6 in an int32_t.
RefreshNsec == -837057878

\* weston_compositor->repaint_msec, its default
RepaintMsec == 7

\* How long ago, in ns, the time stamp of the finished frame may be.
FrameAges == {0, 2000000}

OutputInit ==
  /\ ec = DamageAll(NewCompositor, {o})
  /\ ring = <<>> /\ shown = {} /\ started = FALSE /\ fired = FALSE
-----------------------------------------------------------------------------
\* wl_surface.commit
SurfaceCommit ==
  /\ ec.commits < MaxCommits
  /\ \E newBuffer \in BOOLEAN : ec' = Commit(ec, o, newBuffer)
  /\ UNCHANGED <<ring, shown, started, fired>>

\* spice_output_start_repaint_loop, for all idle callbacks of the output
LoopStarted(x) ==
  [x EXCEPT !.idle_repaints = 0, !.backend = [@ EXCEPT !.wakeup_timer = TRUE]]

\* The end of a turn of wl_event_loop_dispatch: after the events, each once,
\* all idle callbacks.  idle_repaint calls spice_output_start_repaint_loop.
EndTurn ==
  /\ fired \/ out.idle_repaints > 0
  /\ fired' = FALSE
  /\ IF out.idle_repaints = 0
     THEN UNCHANGED <<ec, started>>
     ELSE /\ ec' = [ec EXCEPT !.output[o] = LoopStarted(@)]
          /\ started' = TRUE
  /\ UNCHANGED <<ring, shown>>

\* What spice_paint_image comes to: the command is queued, refused because
\* the ring stayed full (ignored, the call returns 0), or not allocated.
Outcomes == {"queued", "refused", "nomem"}

\* Mutation: what the other backends do after rendering.
SpiceRepaint_SubtractsDamage(outcome) ==
  [ok |-> outcome # "nomem", damage |-> {}, backend |-> out.backend]

\* spice_output_repaint: unlike the other backends' it leaves the damage in
\* the primary plane.
SpiceRepaint(outcome) ==
  [ok |-> outcome # "nomem", damage |-> Accumulated(ec, o),
   backend |-> out.backend]

\* push_command sleeps while the ring is full; the worker may take a command
\* meanwhile.
Push(damage, outcome) ==
  \/ /\ outcome = "queued" /\ Len(ring) < RingSize
     /\ ring' = Append(ring, damage) /\ UNCHANGED shown
  \/ /\ outcome = "queued" /\ Len(ring) = RingSize
     /\ ring' = Append(Tail(ring), damage) /\ shown' = shown \cup Head(ring)
  \/ /\ outcome = "refused" /\ Len(ring) = RingSize
     /\ UNCHANGED <<ring, shown>>
  \/ outcome = "nomem" /\ UNCHANGED <<ring, shown>>

\* Mutation: the request for the next frame is forgotten.
OutputWakeup_NoSchedule ==
  /\ out.backend.wakeup_timer /\ ~fired
  /\ \E then \in Then, outcome \in Outcomes, gone \in FrameAges :
       /\ ec' = FinishFrame(ec, o, FALSE,
                  RepaintDelay(RefreshNsec, gone, RepaintMsec, FALSE),
                  SpiceRepaint(outcome), then)
       /\ IF out.repaint_needed /\ Awake(ec)
          THEN Push(Accumulated(ec, o), outcome)
          ELSE UNCHANGED <<ring, shown>>
  /\ fired' = TRUE /\ UNCHANGED started

\* on_wakeup: re-arm the timer, wake the worker, end the frame (which
\* repaints when the delay is past), and ask for the next.
OutputWakeup ==
  /\ out.backend.wakeup_timer /\ ~fired
  /\ \E then \in Then, outcome \in Outcomes, gone \in FrameAges :
       /\ ec' = ScheduleRepaint(
                  FinishFrame(ec, o, FALSE,
                    RepaintDelay(RefreshNsec, gone, RepaintMsec, FALSE),
                    SpiceRepaint(outcome), then),
                  o)
       /\ IF out.repaint_needed /\ Awake(ec)
          THEN Push(Accumulated(ec, o), outcome)
          ELSE UNCHANGED <<ring, shown>>
  /\ fired' = TRUE /\ UNCHANGED started

\* The worker thread takes the oldest command and draws it from the shared
\* framebuffer.
WorkerDraw ==
  /\ started /\ ring # <<>>
  /\ ring' = Tail(ring) /\ shown' = shown \cup Head(ring)
  /\ UNCHANGED <<ec, started, fired>>

\* Input, the shell's lock, a VT switch or the idle timer changes the power
\* state.
Power ==
  /\ \/ ec' = Sleep(ec)
     \/ ec' = Offscreen(ec)
     \/ \E s \in SUBSET {o} : ec' = Wake(ec, s)
     \/ /\ ec.idle_source
        /\ \E i \in BOOLEAN, s \in SUBSET {o} : ec' = IdleHandler(ec, i, s)
  /\ UNCHANGED <<ring, shown, started, fired>>

OutputNext == SurfaceCommit \/ EndTurn \/ OutputWakeup \/ WorkerDraw \/ Power

OutputSpec == OutputInit /\ [][OutputNext]_outputVars

\* wl_event_loop dispatches idle callbacks and due timers, the worker drains
\* the ring, and memory does not stay exhausted.
OutputFairSpec ==
  /\ OutputSpec
  /\ WF_outputVars(EndTurn) /\ WF_outputVars(OutputWakeup) /\ WF_outputVars(WorkerDraw)
  /\ SF_outputVars(OutputWakeup /\ ring' # ring)
-----------------------------------------------------------------------------
OutputTypeOK ==
  /\ ec \in CompositorType
  /\ ring \in Seq(SUBSET Commits) /\ Len(ring) <= RingSize
  /\ shown \subseteq Commits
  /\ started \in BOOLEAN /\ fired \in BOOLEAN

Made == 1 .. ec.commits
InQueue == UNION {ring[i] : i \in 1 .. Len(ring)}

\* A commit the client has not seen is still damage somewhere: a refused or
\* failed draw command never loses it.
DamageKept ==
  Made \subseteq ec.surface[o].damage \cup out.damage \cup InQueue \cup shown

\* While input_loop is not a source of the main loop, a scheduled repaint will
\* read it, and someone will perform that repaint.  The self-arming timer can
\* reset the loop under a queued idle callback and so have it started twice,
\* but never more often in one turn.
InputServed ==
  /\ OutputTypeOK
  /\ ec.input_loop_source \/ out.repaint_scheduled
  /\ out.repaint_scheduled => out.idle_repaints > 0 \/ out.backend.wakeup_timer
  /\ out.idle_repaints <= 2

Updates ==
  INSTANCE UpdateLife
    WITH made <- ec.commits,
         callbacks <- ec.surface[o].frame_callback_list,
         feedback <- ec.surface[o].feedback_list \cup out.feedback_list,
         presented <- ec.presented,
         discarded <- ec.discarded

\* Callbacks and feedback, spliced from the surface to the output by one
\* handler and answered by another, are each answered once and in their turn,
\* although the timer ends frames that were never painted.
ImplementsUpdates == Updates!Spec

\* "The associated content update was displayed to the user"
\* (protocol/presentation_timing.xml:210) of a feedback's presented event.
PresentedWasDisplayed == ec.presented \subseteq shown

\* A committed update reaches the client and its frame callback is answered,
\* unless outputs are switched off.
CommitServed ==
  \A n \in Commits :
    /\ (ec.commits >= n) ~> (n \in shown \/ ~Awake(ec))
    /\ (ec.commits >= n) ~> (n \in ec.called \/ ~Awake(ec))
=============================================================================
