------------------------------- MODULE DrmOutput ------------------------------
(***************************************************************************)
(* One output of the DRM backend (src/src/compositor-drm.c) driving the    *)
(* repaint machinery: repaints that queue a page flip and, with a sprite   *)
(* in use, a vblank event; a loop that starts from a vblank query or from  *)
(* a flip to the current buffer; unplugging; and the session's VT switch.  *)
(* A framebuffer is the set of commits rendered into it.                   *)
(***************************************************************************)
EXTENDS Integers, FiniteSets

CONSTANT MaxCommits  \* bound: wl_surface.commit requests

ASSUME DrmOutputAssumption == MaxCommits \in Nat

\* A drm_fb pointer: the NULL pointer, or that of a buffer with its content.
NoFb == {}
Fb(content) == {content}
Content(fb) == UNION fb

INSTANCE RepaintLemmas
  WITH Outputs <- {"output"},
       NewBackend <-
         [current |-> NoFb, next |-> NoFb, rendered |-> {},
          page_flip_pending |-> FALSE, vblank_pending |-> FALSE,
          destroy_pending |-> FALSE,
          sprite_current |-> FALSE, sprite_next |-> FALSE,
          flip |-> "none", vblank |-> FALSE,
          failed |-> FALSE, unanswered |-> FALSE],
       BackendType <-
         [current : SUBSET SUBSET (1 .. MaxCommits),
          next : SUBSET SUBSET (1 .. MaxCommits),
          rendered : SUBSET (1 .. MaxCommits),
          page_flip_pending : BOOLEAN, vblank_pending : BOOLEAN,
          destroy_pending : BOOLEAN,
          sprite_current : BOOLEAN, sprite_next : BOOLEAN,
          flip : {"none", "start", "frame"},  \* the kernel's flip event to come
          vblank : BOOLEAN,                   \* the kernel's vblank event to come
          failed : BOOLEAN,      \* a repaint has failed in this behaviour
          unanswered : BOOLEAN]  \* a vblank request has failed in it

VARIABLES
  ec,          \* the compositor: RepaintCore's record
  shown,       \* commits that were scanned out
  active,      \* compositor->session_active
  prev_state,  \* drm_backend.prev_state
  gone,        \* the drm_output was freed
  slept        \* the outputs have been put to sleep in this behaviour

vars == <<ec, shown, active, prev_state, gone, slept>>

o == "output"
out == ec.output[o]
drm == out.backend

\* The assertion ends the process, and the model ends with the output.  The code
\* goes on: it dispatches a vblank event, or a flip of the loop's start, still to
\* come then to the freed drm_output.  What follows from that is not modelled.
Running == ~ec.assertFailed /\ ~gone

\* A 60 Hz mode: millihz_to_nsec(60000); repaint_msec has its default.
RefreshNsec == 16666666
RepaintMsec == 7

\* How long ago, in ns, the time stamp of a finished frame may be: read just
\* now or accepted from the vblank query, and brought by a kernel event.
QueryAges == {0, 15000000}
EventAges == {0, 15000000, 40000000}

Init ==
  /\ ec = DamageAll(NewCompositor, {o})
  /\ shown = {} /\ active = TRUE /\ prev_state = "ACTIVE"
  /\ gone = FALSE /\ slept = FALSE

-----------------------------------------------------------------------------
ClientCommit ==
  /\ Running /\ ec.commits < MaxCommits
  /\ \E newBuffer \in BOOLEAN : ec' = Commit(ec, o, newBuffer)
  /\ UNCHANGED <<shown, active, prev_state, gone>>

\* What a repaint may come to.  A flip needs that none is under way on the
\* CRTC; rendering may yield no buffer, the mode set or the flip may fail.
Outcomes(c) ==
  {"fail"} \cup (IF c.output[o].backend.flip = "none" THEN {"flip"} ELSE {})

\* drm_output_repaint with a buffer to show: the page flip is queued, and with a
\* sprite in use a vblank event requested (a refusal is only logged).
Flipped(b, painted, sprite_next, vblankOk) ==
  LET sprite == b.sprite_current \/ sprite_next
  IN [b EXCEPT !.sprite_next = sprite_next,
               !.rendered = painted, !.next = Fb(painted),
               !.page_flip_pending = TRUE, !.flip = "frame",
               !.vblank_pending = @ \/ sprite,
               !.vblank = @ \/ (sprite /\ vblankOk),
               !.unanswered = @ \/ (sprite /\ ~vblankOk)]

\* The error paths of drm_output_repaint.  The damage was rendered, and taken from
\* the plane's, before the flip was refused.
NotFlipped(b, painted, sprite_next) ==
  [b EXCEPT !.sprite_next = sprite_next, !.rendered = painted, !.next = NoFb,
            !.failed = TRUE]

\* drm_assign_planes (may give a view to the free sprite), drm_output_render and
\* drm_output_repaint.
DrmRepaint(c, outcome, useSprite, vblankOk) ==
  LET b == c.output[o].backend
      damage == Accumulated(c, o)
      painted == b.rendered \cup damage
      sprite_next == b.sprite_next \/ useSprite
  IN IF b.destroy_pending
     THEN [ok |-> FALSE, damage |-> damage,
           backend |-> [b EXCEPT !.sprite_next = sprite_next]]
     ELSE IF outcome = "flip"
     THEN [ok |-> TRUE, damage |-> {},
           backend |-> Flipped(b, painted, sprite_next, vblankOk)]
     ELSE [ok |-> FALSE, damage |-> {},
           backend |-> NotFlipped(b, painted, sprite_next)]

\* weston_output_finish_frame with this backend's repaint.
DrmFinish(c, invalid, ages) ==
  \E outcome \in Outcomes(c), useSprite, vblankOk \in BOOLEAN,
     then \in Then, age \in ages :
    ec' = FinishFrame(c, o, invalid,
            RepaintDelay(RefreshNsec, age, RepaintMsec, invalid),
            DrmRepaint(c, outcome, useSprite, vblankOk), then)

\* The repaint timer fires: output_repaint_timer_handler
RepaintTimer ==
  /\ Running /\ out.repaint_timer
  /\ LET c == [ec EXCEPT !.output[o].repaint_timer = FALSE]
     IN \E outcome \in Outcomes(c), useSprite, vblankOk \in BOOLEAN, then \in Then :
          ec' = TimerHandler(c, o, DrmRepaint(c, outcome, useSprite, vblankOk), then)
  /\ UNCHANGED <<shown, active, prev_state, gone>>

\* idle_repaint: drm_output_start_repaint_loop.  The vblank query may have no
\* valid time stamp; then the current buffer is flipped again, if it can be.
IdleRepaint ==
  /\ Running /\ out.idle_repaints > 0
  /\ LET c == [ec EXCEPT !.output[o].idle_repaints = @ - 1]
     IN \/ drm.destroy_pending /\ ec' = c
        \/ ~drm.destroy_pending /\ DrmFinish(c, TRUE, QueryAges)
        \/ /\ ~drm.destroy_pending /\ drm.current # NoFb
           /\ drm.flip = "none" /\ active
           /\ ec' = [c EXCEPT !.output[o].backend.flip = "start"]
  /\ UNCHANGED <<shown, active, prev_state, gone>>

\* weston_output_destroy, from drm_output_destroy with nothing pending.
Destroyed(c) ==
  [c EXCEPT !.output[o].destroying = TRUE,
            !.output[o].repaint_timer = FALSE,
            !.output[o].feedback_list = {},
            !.discarded = @ \cup c.output[o].feedback_list]

\* Mutation: the frame is finished although the sprite's vblank is to come.
PageFlipEvent_IgnoresVblank ==
  /\ Running /\ drm.flip # "none"
  /\ LET landed ==
           [drm EXCEPT !.flip = "none", !.page_flip_pending = FALSE,
              !.current = IF drm.page_flip_pending THEN drm.next ELSE @,
              !.next = IF drm.page_flip_pending THEN NoFb ELSE @]
         c == [ec EXCEPT !.output[o].backend = landed]
     IN /\ shown' = IF drm.page_flip_pending THEN shown \cup Content(drm.next) ELSE shown
        /\ \/ drm.destroy_pending /\ ec' = Destroyed(c) /\ gone' = TRUE
           \/ ~drm.destroy_pending /\ UNCHANGED gone /\ DrmFinish(c, FALSE, EventAges)
  /\ UNCHANGED <<active, prev_state>>

\* page_flip_handler
PageFlipEvent ==
  /\ Running /\ drm.flip # "none"
  /\ LET landed ==
           [drm EXCEPT !.flip = "none", !.page_flip_pending = FALSE,
              !.current = IF drm.page_flip_pending THEN drm.next ELSE @,
              !.next = IF drm.page_flip_pending THEN NoFb ELSE @]
         c == [ec EXCEPT !.output[o].backend = landed]
     IN /\ shown' = IF drm.page_flip_pending THEN shown \cup Content(drm.next) ELSE shown
        /\ \/ drm.destroy_pending /\ ec' = Destroyed(c) /\ gone' = TRUE
           \/ /\ ~drm.destroy_pending /\ UNCHANGED gone
              /\ IF drm.vblank_pending THEN ec' = c ELSE DrmFinish(c, FALSE, EventAges)
  /\ UNCHANGED <<active, prev_state>>

\* Mutation: the frame is finished although its page flip is to come.
VblankEvent_IgnoresFlip ==
  /\ Running /\ drm.vblank
  /\ LET c == [ec EXCEPT !.output[o].backend =
                 [drm EXCEPT !.vblank = FALSE, !.vblank_pending = FALSE,
                             !.sprite_current = drm.sprite_next,
                             !.sprite_next = FALSE]]
     IN DrmFinish(c, FALSE, EventAges)
  /\ UNCHANGED <<shown, active, prev_state, gone>>

\* vblank_handler
VblankEvent ==
  /\ Running /\ drm.vblank
  /\ LET c == [ec EXCEPT !.output[o].backend =
                 [drm EXCEPT !.vblank = FALSE, !.vblank_pending = FALSE,
                             !.sprite_current = drm.sprite_next,
                             !.sprite_next = FALSE]]
     IN IF drm.page_flip_pending THEN ec' = c ELSE DrmFinish(c, FALSE, EventAges)
  /\ UNCHANGED <<shown, active, prev_state, gone>>

\* update_outputs finds the connector disconnected: drm_output_destroy
Unplug ==
  /\ Running /\ ~drm.destroy_pending
  /\ IF drm.page_flip_pending
     THEN /\ ec' = [ec EXCEPT !.output[o].backend.destroy_pending = TRUE]
          /\ UNCHANGED gone
     ELSE ec' = Destroyed(ec) /\ gone' = TRUE
  /\ UNCHANGED <<shown, active, prev_state>>

\* session_notify, the session being deactivated
SessionOff ==
  /\ Running /\ active
  /\ active' = FALSE /\ prev_state' = ec.state
  /\ ec' = [Offscreen(ec) EXCEPT !.output[o].repaint_needed = FALSE]
  /\ UNCHANGED <<shown, gone>>

\* Mutation: nothing is damaged when the session comes back.
SessionOn_NoDamage ==
  /\ Running /\ ~active
  /\ active' = TRUE
  /\ ec' = [ec EXCEPT !.state = prev_state]
  /\ UNCHANGED <<shown, prev_state, gone>>

\* session_notify, the session being activated: drm_backend_set_modes and
\* weston_compositor_damage_all
SessionOn ==
  /\ Running /\ ~active
  /\ active' = TRUE
  /\ LET c == [ec EXCEPT !.state = prev_state]
     IN ec' = DamageAll(IF drm.current = NoFb THEN ScheduleRepaint(c, o) ELSE c, {o})
  /\ UNCHANGED <<shown, prev_state, gone>>

\* The shell's lock, the idle timer, and input, which is enabled only while the
\* session is active.
Power ==
  /\ Running /\ active
  /\ \/ ec' = Sleep(ec)
     \/ \E s \in SUBSET {o} : ec' = Wake(ec, s)
     \/ /\ ec.idle_source
        /\ \E i \in BOOLEAN, s \in SUBSET {o} : ec' = IdleHandler(ec, i, s)
  /\ UNCHANGED <<shown, active, prev_state, gone>>

\* Nothing more happens to the output.
Stopped == ~Running /\ UNCHANGED vars

Handlers ==
  \/ ClientCommit \/ RepaintTimer \/ IdleRepaint \/ PageFlipEvent \/ VblankEvent
  \/ Unplug \/ SessionOff \/ SessionOn \/ Power

\* slept is history: no handler reads it.
History == slept' = (slept \/ ec'.state = "SLEEPING")

Next == (Handlers /\ History) \/ Stopped

Spec == Init /\ [][Next]_vars

\* wl_event_loop dispatches idle callbacks and due timers, the kernel delivers
\* the events it was asked for.
FairSpec ==
  /\ Spec
  /\ WF_vars(RepaintTimer /\ History) /\ WF_vars(IdleRepaint /\ History)
  /\ WF_vars(PageFlipEvent /\ History) /\ WF_vars(VblankEvent /\ History)
-----------------------------------------------------------------------------
TypeOK ==
  /\ ec \in CompositorType
  /\ shown \subseteq Commits /\ active \in BOOLEAN
  /\ prev_state \in {"ACTIVE", "IDLE", "OFFSCREEN", "SLEEPING"}
  /\ gone \in BOOLEAN /\ slept \in BOOLEAN

Made == 1 .. ec.commits

\* Whatever keeps the loop going: a queued idle_repaint, the armed timer, or a
\* frame the kernel has not finished.
Tokens ==
  out.idle_repaints + (IF out.repaint_timer THEN 1 ELSE 0)
    + (IF drm.flip # "none" \/ drm.vblank THEN 1 ELSE 0)

\* repaint_scheduled means that exactly one continuation of the loop exists:
\* no request is left without one, no two loops run side by side, whatever
\* repaint fails, sleeps, or is overtaken by a VT switch.  A failed vblank request
\* (drm_output_repaint logs it and waits all the same) stops the loop for good.
OneContinuation ==
  Running /\ ~drm.destroy_pending /\ ~drm.unanswered =>
    Tokens = (IF out.repaint_scheduled THEN 1 ELSE 0)

\* The pending flags say which events the kernel still owes.
PendingFlagsTrue ==
  Running => /\ drm.page_flip_pending <=> drm.flip = "frame"
             /\ drm.vblank => drm.vblank_pending
             /\ drm.vblank_pending => drm.vblank \/ drm.unanswered

\* The output is not freed while the flip of a frame is under way.
FrameFlipLandsFirst == gone => drm.flip # "frame"

\* The loop of the output is one: exactly one continuation while it is
\* scheduled, the pending flags true to what the kernel owes, and no flip of a
\* frame outstanding at the output's end.
OneLoop == TypeOK /\ OneContinuation /\ PendingFlagsTrue /\ FrameFlipLandsFirst

\* "assert(!(flags & PRESENTATION_FEEDBACK_INVALID) || wl_list_empty(list))"
\* (compositor.c:496, weston_presentation_feedback_present_list)
PresentAssertion == ~ec.assertFailed

\* As long as no repaint fails, a feedback answered as presented belongs to an
\* update that was scanned out, and the assertion on presenting holds.  (After a
\* failed one the next event, a flip to the current buffer, answers it.)
PresentedWasDisplayed ==
  ~drm.failed => ec.presented \subseteq shown /\ PresentAssertion

Updates ==
  INSTANCE UpdateLife
    WITH made <- ec.commits,
         callbacks <- ec.surface[o].frame_callback_list,
         feedback <- ec.surface[o].feedback_list \cup out.feedback_list,
         presented <- ec.presented,
         discarded <- ec.discarded

\* Each callback and each feedback is answered once and in its turn, through
\* failed repaints, VT switches and the output's end.
ImplementsUpdates == Updates!Spec

\* What excuses an update from being shown: the user is on another VT, or in
\* this behaviour a repaint or a vblank request has failed, the outputs have
\* slept, or the output was unplugged.
Excused ==
  \/ ~active \/ slept \/ gone \/ drm.destroy_pending
  \/ drm.failed \/ drm.unanswered

\* A committed update is scanned out and its frame callback is answered; after a
\* VT switch there and back the same is owed again, with no further commit, also
\* for a commit made while another VT was in front.
CommitServed ==
  \A n \in Commits :
    /\ (ec.commits >= n) ~> (n \in shown \/ Excused)
    /\ (ec.commits >= n) ~> (n \in ec.called \/ Excused)
=============================================================================
