------------------------------ MODULE RepaintCore ------------------------------
(***************************************************************************)
(* The repaint machinery of src/src/compositor.c that every backend calls  *)
(* into: schedule, repaint, finish_frame, and the compositor's power       *)
(* states.  The code composes these functions inside one event handler, so *)
(* each is an operator from a compositor record to a compositor record; a  *)
(* backend module owns the variable and takes the steps.                   *)
(*                                                                         *)
(* One surface covers each output; its commits are numbered over all       *)
(* outputs, and commit n brings damage n, frame callback n and             *)
(* presentation feedback n.                                                *)
(***************************************************************************)
EXTENDS Integers

CONSTANTS
  Outputs,      \* compositor->output_list at the start
  MaxCommits,   \* bound: wl_surface.commit requests in a behaviour
  NewBackend,   \* the backend's part of a new output
  BackendType   \* the type of that part

Commits == 1 .. MaxCommits

Awake(c) == c.state \in {"ACTIVE", "IDLE"}

NewOutput ==
  [repaint_needed |-> FALSE, repaint_scheduled |-> FALSE,
   idle_repaints |-> 0, repaint_timer |-> FALSE, destroying |-> FALSE,
   feedback_list |-> {}, damage |-> {}, backend |-> NewBackend]

NewSurface ==
  [content |-> {}, damage |-> {}, frame_callback_list |-> {},
   feedback_list |-> {}]

NewCompositor ==
  [state |-> "ACTIVE", input_loop_source |-> FALSE, idle_source |-> TRUE,
   output |-> [o \in Outputs |-> NewOutput],
   surface |-> [o \in Outputs |-> NewSurface],
   commits |-> 0, called |-> {}, presented |-> {}, discarded |-> {},
   assertFailed |-> FALSE]

OutputType ==
  [repaint_needed : BOOLEAN, repaint_scheduled : BOOLEAN,
   idle_repaints : Nat, repaint_timer : BOOLEAN, destroying : BOOLEAN,
   feedback_list : SUBSET Commits, damage : SUBSET Commits,
   backend : BackendType]

SurfaceType ==
  [content : SUBSET Commits, damage : SUBSET Commits,
   frame_callback_list : SUBSET Commits, feedback_list : SUBSET Commits]

CompositorType ==
  [state : {"ACTIVE", "IDLE", "OFFSCREEN", "SLEEPING"},
   input_loop_source : BOOLEAN, idle_source : BOOLEAN,
   output : [Outputs -> OutputType], surface : [Outputs -> SurfaceType],
   commits : 0 .. MaxCommits, called : SUBSET Commits,
   presented : SUBSET Commits, discarded : SUBSET Commits,
   assertFailed : BOOLEAN]
-----------------------------------------------------------------------------
\* An output with a repaint that was not scheduled: idle_repaint will start it.
Requested(x) ==
  [x EXCEPT !.repaint_needed = TRUE, !.repaint_scheduled = TRUE,
            !.idle_repaints = @ + 1]

\* weston_output_schedule_repaint
ScheduleRepaint(c, o) ==
  IF ~Awake(c) THEN c
  ELSE IF c.output[o].repaint_scheduled
       THEN [c EXCEPT !.output[o].repaint_needed = TRUE]
       ELSE [c EXCEPT !.output[o] = Requested(@), !.input_loop_source = FALSE]

\* Mutation: the input source is not added back.
ScheduleReset_NoInput(c, o) == [c EXCEPT !.output[o].repaint_scheduled = FALSE]

\* weston_output_schedule_repaint_reset
ScheduleReset(c, o) ==
  [c EXCEPT !.output[o].repaint_scheduled = FALSE, !.input_loop_source = TRUE]

\* The surface with its n-th commit; dropped is the feedback this discards.
Updated(s, n, dropped) ==
  [content |-> s.content \cup {n}, damage |-> s.damage \cup {n},
   frame_callback_list |-> s.frame_callback_list \cup {n},
   feedback_list |-> (s.feedback_list \ dropped) \cup {n}]

\* Mutation: the feedback a new buffer discards stays in the surface's list.
Commit_KeepsDiscarded(c, o, newBuffer) ==
  LET dropped == IF newBuffer THEN c.surface[o].feedback_list ELSE {}
  IN ScheduleRepaint(
       [c EXCEPT !.commits = @ + 1, !.discarded = @ \cup dropped,
                 !.surface[o] = Updated(@, c.commits + 1, {})],
       o)

\* weston_surface_commit of the surface on output o, with a new buffer or
\* without: weston_surface_attach discards the feedback still waiting.
Commit(c, o, newBuffer) ==
  LET dropped == IF newBuffer THEN c.surface[o].feedback_list ELSE {}
  IN ScheduleRepaint(
       [c EXCEPT !.commits = @ + 1, !.discarded = @ \cup dropped,
                 !.surface[o] = Updated(@, c.commits + 1, dropped)],
       o)

\* The output with the feedback and the damage of the surface.
Spliced(x, s) ==
  [x EXCEPT !.feedback_list = @ \cup s.feedback_list, !.damage = @ \cup s.damage]

\* Mutation: the surface's list is spliced but not emptied.
TakeFrame_KeepsCallbacks(c, o) ==
  LET s == c.surface[o]
  IN [c EXCEPT !.surface[o] = [@ EXCEPT !.damage = {}, !.feedback_list = {}],
               !.output[o] = Spliced(@, s)]

\* weston_output_repaint up to output->repaint: the output takes the
\* surface's callbacks and feedback, the plane its damage.
TakeFrame(c, o) ==
  LET s == c.surface[o]
  IN [c EXCEPT !.surface[o] = [NewSurface EXCEPT !.content = s.content],
               !.output[o] = Spliced(@, s)]

\* What the rest of weston_output_repaint may run: input handlers of
\* input_loop and animations, which may schedule or put outputs to sleep.
Then == {"nothing", "schedule", "sleep"}

\* weston_compositor_sleep
Sleep(c) ==
  IF c.state = "SLEEPING" THEN c
  ELSE [c EXCEPT !.state = "SLEEPING", !.idle_source = FALSE]

\* weston_output_repaint after output->repaint.
EndRepaint(c, o, callbacks, then) ==
  LET d == [c EXCEPT !.output[o].repaint_needed = FALSE,
                     !.called = @ \cup callbacks]
  IN CASE then = "nothing" -> d
       [] then = "schedule" -> ScheduleRepaint(d, o)
       [] then = "sleep" -> Sleep(d)

\* The damage a repaint of the output is called with, as it accumulated.
Accumulated(c, o) == c.output[o].damage \cup c.surface[o].damage

\* output_repaint_timer_handler.  r is what the backend's repaint does: whether
\* it returns 0, the damage it leaves in the plane, and its own state.
TimerHandler(c, o, r, then) ==
  IF c.output[o].repaint_needed /\ Awake(c) /\ c.output[o].destroying THEN c
  ELSE IF c.output[o].repaint_needed /\ Awake(c)
  THEN LET callbacks == c.surface[o].frame_callback_list
           painted == [TakeFrame(c, o) EXCEPT
                         !.output[o] = [@ EXCEPT !.damage = r.damage,
                                                 !.backend = r.backend]]
           d == EndRepaint(painted, o, callbacks, then)
       IN IF r.ok THEN d ELSE ScheduleReset(d, o)
  ELSE ScheduleReset(c, o)

\* C's integer division, which truncates towards zero.
TruncDiv(a, b) == IF a >= 0 THEN a \div b ELSE -((-a) \div b)

\* The delay weston_output_finish_frame computes, in ms.
RepaintDelay(refresh_nsec, gone_nsec, repaint_msec, invalid) ==
  LET raw == TruncDiv(refresh_nsec - gone_nsec, 1000000) - repaint_msec
      msec == IF raw < -1000 \/ raw > 1000 THEN 0 ELSE raw
  IN IF invalid /\ msec < 0 THEN msec + TruncDiv(refresh_nsec, 1000000) ELSE msec

\* weston_output_finish_frame; invalid is PRESENTATION_FEEDBACK_INVALID.
FinishFrame(c, o, invalid, msec, r, then) ==
  LET shown == c.output[o].feedback_list
      d == [c EXCEPT !.output[o].feedback_list = {},
                     !.presented = @ \cup shown]
  IN IF invalid /\ shown # {} THEN [c EXCEPT !.assertFailed = TRUE]
     ELSE IF msec < 1 THEN TimerHandler(d, o, r, then)
     ELSE [d EXCEPT !.output[o].repaint_timer = TRUE]

\* weston_output_damage
OutputDamage(c, o) ==
  ScheduleRepaint([c EXCEPT !.output[o].damage = @ \cup c.surface[o].content], o)

\* weston_output_damage of each output of a set; one more schedules itself only.
DamageAll(c, outputs) ==
  [c EXCEPT !.output =
              [o \in Outputs |-> IF o \in outputs THEN OutputDamage(c, o).output[o]
                                                  ELSE @[o]],
            !.input_loop_source =
              @ /\ \A o \in outputs : OutputDamage(c, o).input_loop_source]

\* weston_compositor_wake; outputs are those the wake_signal's listeners
\* damage (resume_desktop damages all of them, ivi-shell has no listener).
Wake(c, outputs) ==
  LET d == [c EXCEPT !.state = "ACTIVE", !.idle_source = TRUE]
  IN IF c.state = "ACTIVE" THEN d ELSE DamageAll(d, outputs)

\* weston_compositor_offscreen
Offscreen(c) ==
  IF c.state = "OFFSCREEN" THEN c
  ELSE [c EXCEPT !.state = "OFFSCREEN", !.idle_source = FALSE]

\* idle_handler: the one-shot timer fired; unless inhibited, the listener may
\* start the fade, which damages.
IdleHandler(c, inhibited, outputs) ==
  LET d == [c EXCEPT !.idle_source = FALSE]
  IN IF inhibited THEN d ELSE DamageAll([d EXCEPT !.state = "IDLE"], outputs)
=============================================================================
