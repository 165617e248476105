--------------------------- MODULE DrmOutput_proofs ---------------------------
(***************************************************************************)
(* Proofs about DrmOutput, for any number of commits: the output's loop is *)
(* one, feedback tells the truth while repaints succeed, and the output    *)
(* implements UpdateLife.                                                  *)
(***************************************************************************)
EXTENDS DrmOutput, TLAPS

Backend(c) == c.output[o].backend

\* What keeps the loop going, counting a vblank the kernel was not asked for
\* as well: the output waits for it all the same.
Continuations(c) ==
  c.output[o].idle_repaints + (IF c.output[o].repaint_timer THEN 1 ELSE 0)
    + (IF Backend(c).flip # "none" \/ Backend(c).vblank_pending THEN 1 ELSE 0)

\* The flags of the backend agree among themselves.
FlagsOk(c) ==
  LET b == Backend(c)
  IN /\ ~c.output[o].destroying
     /\ b.destroy_pending => b.page_flip_pending
     /\ b.page_flip_pending <=> b.flip = "frame"
     /\ b.vblank => b.vblank_pending
     /\ b.vblank_pending => b.vblank \/ b.unanswered
     /\ b.flip = "start" => ~b.vblank_pending

\* The loop is one.
LoopOk(c) ==
  /\ FlagsOk(c)
  /\ Continuations(c) = (IF c.output[o].repaint_scheduled THEN 1 ELSE 0)

\* Commits whose frame callbacks wait are in no buffer, and their feedback is
\* still the surface's; sh is what was scanned out.
LifeOk(c, sh) ==
  LET s == c.surface[o]
      x == c.output[o]
      all == 1 .. c.commits
      done == all \ s.frame_callback_list
  IN /\ s.feedback_list \subseteq s.frame_callback_list
     /\ x.feedback_list \cap s.frame_callback_list = {}
     /\ s.frame_callback_list \subseteq all /\ x.feedback_list \subseteq all
     /\ s.content \subseteq all /\ s.damage \subseteq all /\ x.damage \subseteq all
     /\ Content(x.backend.next) \subseteq done
     /\ x.backend.rendered \subseteq done /\ sh \subseteq done

\* As long as no repaint failed: feedback that was answered is of commits shown,
\* feedback that waits for an event is of commits shown or in the next buffer.
ShownOk(c, sh) ==
  LET x == c.output[o]
      b == x.backend
  IN /\ c.surface[o].feedback_list
          \subseteq c.surface[o].damage \cup x.damage \cup b.rendered
     /\ ~b.failed =>
          /\ c.presented \subseteq sh
          /\ x.feedback_list \subseteq sh \cup (IF b.page_flip_pending
                                                THEN Content(b.next) ELSE {})
          /\ x.feedback_list # {} => b.flip = "frame" \/ b.vblank_pending

IInv ==
  /\ TypeOK
  /\ LifeOk(ec, shown)
  /\ ~drm.failed => ec.presented \subseteq shown /\ ~ec.assertFailed
  /\ gone => drm.flip # "frame"
  /\ Running => LoopOk(ec) /\ ShownOk(ec, shown)
-----------------------------------------------------------------------------
LEMMA OneOutput == {"output"} = {o} /\ o \in {"output"}
BY DEF o

\* The backend's part of an output
BackendRec ==
  [current : SUBSET SUBSET Commits, next : SUBSET SUBSET Commits,
   rendered : SUBSET Commits,
   page_flip_pending : BOOLEAN, vblank_pending : BOOLEAN,
   destroy_pending : BOOLEAN,
   sprite_current : BOOLEAN, sprite_next : BOOLEAN,
   flip : {"none", "start", "frame"}, vblank : BOOLEAN,
   failed : BOOLEAN, unanswered : BOOLEAN]

LEMMA BackendFields ==
  ASSUME NEW c \in CompositorType
  PROVE  LET b == Backend(c)
         IN /\ b \in BackendRec
            /\ b.current \in SUBSET SUBSET Commits /\ b.next \in SUBSET SUBSET Commits
            /\ b.rendered \in SUBSET Commits
            /\ b.page_flip_pending \in BOOLEAN /\ b.vblank_pending \in BOOLEAN
            /\ b.destroy_pending \in BOOLEAN
            /\ b.sprite_current \in BOOLEAN /\ b.sprite_next \in BOOLEAN
            /\ b.flip \in {"none", "start", "frame"} /\ b.vblank \in BOOLEAN
            /\ b.failed \in BOOLEAN /\ b.unanswered \in BOOLEAN
<1>1. c.output[o] \in OutputType
  BY OneOutput, CompositorFields
<1>2. Backend(c) \in BackendRec
  BY <1>1, OutputFields DEF BackendRec, Commits, Backend
<1> QED BY <1>2 DEF BackendRec

\* What drm_output_repaint answers, and leaves in the backend's part
DrmRepainted(c, r) ==
  LET b == Backend(c)
      n == r.backend
      painted == b.rendered \cup Accumulated(c, o)
  IN /\ n.rendered = painted /\ n.destroy_pending = b.destroy_pending
     /\ r.ok =>
          /\ b.flip = "none" /\ r.damage = {}
          /\ n.flip = "frame" /\ n.page_flip_pending
          /\ n.next = Fb(painted) /\ n.failed = b.failed
          /\ (b.vblank => b.vblank_pending) => (n.vblank => n.vblank_pending)
          /\ (b.vblank_pending => b.vblank \/ b.unanswered) =>
               (n.vblank_pending => n.vblank \/ n.unanswered)
     /\ ~r.ok =>
          /\ n.failed /\ r.damage = {} /\ n.next = NoFb
          /\ n.flip = b.flip /\ n.page_flip_pending = b.page_flip_pending
          /\ n.vblank = b.vblank /\ n.vblank_pending = b.vblank_pending
          /\ n.unanswered = b.unanswered

\* drm_assign_planes, drm_output_render and drm_output_repaint
LEMMA DrmRepaintFacts ==
  ASSUME NEW c \in CompositorType, NEW outcome \in Outcomes(c),
         NEW useSprite \in BOOLEAN, NEW vblankOk \in BOOLEAN,
         ~Backend(c).destroy_pending
  PROVE  LET r == DrmRepaint(c, outcome, useSprite, vblankOk)
         IN r \in RepaintResult /\ DrmRepainted(c, r)
<1> DEFINE b == Backend(c)
           damage == Accumulated(c, o)
           painted == b.rendered \cup damage
           sn == b.sprite_next \/ useSprite
           sprite == b.sprite_current \/ sn
           vp == b.vblank_pending \/ sprite
           v == b.vblank \/ (sprite /\ vblankOk)
           u == b.unanswered \/ (sprite /\ ~vblankOk)
           flipped == Flipped(b, painted, sn, vblankOk)
           failed == NotFlipped(b, painted, sn)
           r == DrmRepaint(c, outcome, useSprite, vblankOk)
<1>1. /\ b \in BackendRec /\ b.rendered \in SUBSET Commits
      /\ b.sprite_next \in BOOLEAN /\ b.sprite_current \in BOOLEAN
      /\ b.vblank_pending \in BOOLEAN /\ b.vblank \in BOOLEAN
      /\ b.unanswered \in BOOLEAN
  BY BackendFields
<1>2. damage \in SUBSET Commits
  BY OneOutput, CompositorFields, OutputFields, SurfaceFields DEF Accumulated
<1>3. painted \in SUBSET Commits /\ Fb(painted) \in SUBSET SUBSET Commits
      /\ NoFb \in SUBSET SUBSET Commits
  BY <1>1, <1>2 DEF Fb, NoFb
<1>4. sn \in BOOLEAN /\ vp \in BOOLEAN /\ v \in BOOLEAN /\ u \in BOOLEAN
  OBVIOUS
<1>5. r = IF outcome = "flip" THEN [ok |-> TRUE, damage |-> {}, backend |-> flipped]
          ELSE [ok |-> FALSE, damage |-> {}, backend |-> failed]
  BY DEF DrmRepaint, Backend
<1> DEFINE next == Fb(painted)
<1>6. /\ flipped = [b EXCEPT !.sprite_next = sn, !.rendered = painted,
                             !.next = next, !.page_flip_pending = TRUE,
                             !.flip = "frame", !.vblank_pending = vp,
                             !.vblank = v, !.unanswered = u]
      /\ failed = [b EXCEPT !.sprite_next = sn, !.rendered = painted, !.next = NoFb,
                            !.failed = TRUE]
  BY DEF Flipped, NotFlipped
<1> HIDE DEF b, damage, painted, sn, vp, v, u, flipped, failed, next
<1>7. flipped \in BackendRec
  <2>1. flipped = [b EXCEPT !.sprite_next = sn, !.rendered = painted,
                            !.next = next, !.page_flip_pending = TRUE,
                            !.flip = "frame", !.vblank_pending = vp,
                            !.vblank = v, !.unanswered = u]
    BY <1>6
  <2>2. b \in BackendRec /\ sn \in BOOLEAN /\ vp \in BOOLEAN /\ v \in BOOLEAN
        /\ u \in BOOLEAN /\ painted \in SUBSET Commits
        /\ next \in SUBSET SUBSET Commits
    BY <1>1, <1>3, <1>4 DEF next
  <2> HIDE DEF sn, vp, v, u
  <2> QED BY <2>1, <2>2, ZenonT(60) DEF BackendRec
<1>8. failed \in BackendRec
  BY <1>1, <1>3, <1>4, <1>6, Zenon DEF BackendRec
<1>9. /\ flipped.rendered = painted /\ flipped.next = next
      /\ flipped.page_flip_pending = TRUE /\ flipped.flip = "frame"
      /\ flipped.vblank_pending = vp /\ flipped.vblank = v
      /\ flipped.unanswered = u /\ flipped.failed = b.failed
      /\ flipped.destroy_pending = b.destroy_pending
  BY <1>1, <1>6 DEF BackendRec
<1>10. /\ failed.rendered = painted /\ failed.next = NoFb
       /\ failed.page_flip_pending = b.page_flip_pending /\ failed.flip = b.flip
       /\ failed.vblank_pending = b.vblank_pending /\ failed.vblank = b.vblank
       /\ failed.unanswered = b.unanswered /\ failed.failed = TRUE
       /\ failed.destroy_pending = b.destroy_pending
  BY <1>1, <1>6 DEF BackendRec
<1>11. CASE outcome = "flip"
  <2>1. r = [ok |-> TRUE, damage |-> {}, backend |-> flipped]
    BY <1>5, <1>11
  <2>2. b.flip = "none"
    BY <1>11 DEF Outcomes, b, Backend
  <2> HIDE DEF r
  <2>3. r \in RepaintResult /\ r.ok /\ r.damage = {} /\ r.backend = flipped
    BY <1>7, <2>1 DEF RepaintResult, BackendRec, Commits
  <2>4. /\ (b.vblank => b.vblank_pending) => (v => vp)
        /\ (b.vblank_pending => b.vblank \/ b.unanswered) => (vp => v \/ u)
    BY DEF v, vp, u
  <2> QED BY <1>9, <2>2, <2>3, <2>4 DEF DrmRepainted, r, b, painted, damage, next
<1>12. CASE outcome # "flip"
  <2>1. r = [ok |-> FALSE, damage |-> {}, backend |-> failed]
    BY <1>5, <1>12
  <2> HIDE DEF r
  <2>2. r \in RepaintResult /\ ~r.ok /\ r.damage = {} /\ r.backend = failed
    BY <1>8, <2>1 DEF RepaintResult, BackendRec, Commits
  <2> QED BY <1>10, <2>2 DEF DrmRepainted, r, b, painted, damage
<1> QED BY <1>11, <1>12

\* d comes from c by a step of UpdateLife, with sh and sh2 scanned out
FrameStep(c, d, sh, sh2) ==
  LET s == c.surface[o]
      t == d.surface[o]
      feedback == s.feedback_list \cup c.output[o].feedback_list
  IN /\ t.frame_callback_list \in {s.frame_callback_list, {}}
     /\ \E done \in SUBSET (feedback \ s.frame_callback_list) :
          /\ t.feedback_list \cup d.output[o].feedback_list = feedback \ done
          /\ d.presented = c.presented \cup done
     /\ sh \subseteq sh2
     /\ sh2 \subseteq (1 .. c.commits) \ s.frame_callback_list
     /\ d.commits = c.commits /\ d.discarded = c.discarded

\* The loop at the moment a handler of its one continuation runs
AtTurn(c) ==
  LET b == Backend(c)
  IN /\ ~c.output[o].destroying /\ ~c.output[o].repaint_timer
     /\ c.output[o].idle_repaints = 0 /\ c.output[o].repaint_scheduled
     /\ ~b.destroy_pending /\ ~b.page_flip_pending /\ ~b.vblank_pending
     /\ ~b.vblank /\ b.flip = "none"

\* What was promised of the feedback when a handler of the loop runs
ToldOk(c, sh) ==
  /\ c.surface[o].feedback_list
       \subseteq c.surface[o].damage \cup c.output[o].damage \cup Backend(c).rendered
  /\ ~Backend(c).failed => /\ c.presented \subseteq sh
                           /\ c.output[o].feedback_list \subseteq sh

\* A turn of the loop that starts the next frame, or ends the loop.  keep is the
\* feedback of the last frame that was not answered.
LEMMA TurnStep ==
  ASSUME NEW c \in CompositorType, NEW d \in CompositorType, NEW sh, NEW keep,
         AtTurn(c), LifeOk(c, sh), ToldOk(c, sh),
         NEW r \in RepaintResult, DrmRepainted(c, r),
         LoopTurned(c, d, o, r), d.commits = c.commits,
         d.output[o].destroying = c.output[o].destroying,
         d.output[o].repaint_timer = c.output[o].repaint_timer,
         keep \subseteq c.output[o].feedback_list,
         ~Backend(c).failed => keep = {} /\ d.presented \subseteq sh,
         IF Repaints(c, o)
         THEN /\ d.surface[o].content = c.surface[o].content
              /\ d.surface[o].damage = {}
              /\ d.surface[o].frame_callback_list = {}
              /\ d.surface[o].feedback_list = {}
              /\ d.output[o].feedback_list = keep \cup c.surface[o].feedback_list
              /\ d.output[o].damage = r.damage /\ d.output[o].backend = r.backend
         ELSE /\ d.surface[o] = c.surface[o]
              /\ d.output[o].feedback_list = keep
              /\ d.output[o].damage = c.output[o].damage
              /\ d.output[o].backend = c.output[o].backend
  PROVE  LoopOk(d) /\ LifeOk(d, sh) /\ ShownOk(d, sh)
<1> DEFINE x == c.output[o]
           y == d.output[o]
           s == c.surface[o]
           b == Backend(c)
           n == r.backend
           damage == Accumulated(c, o)
           painted == b.rendered \cup damage
<1>1. /\ n.rendered = painted /\ n.destroy_pending = b.destroy_pending
      /\ r.ok =>
           /\ b.flip = "none" /\ r.damage = {}
           /\ n.flip = "frame" /\ n.page_flip_pending
           /\ n.next = Fb(painted) /\ n.failed = b.failed
           /\ (b.vblank => b.vblank_pending) => (n.vblank => n.vblank_pending)
           /\ (b.vblank_pending => b.vblank \/ b.unanswered) =>
                (n.vblank_pending => n.vblank \/ n.unanswered)
      /\ ~r.ok =>
           /\ n.failed /\ r.damage = {} /\ n.next = NoFb
           /\ n.flip = b.flip /\ n.page_flip_pending = b.page_flip_pending
           /\ n.vblank = b.vblank /\ n.vblank_pending = b.vblank_pending
           /\ n.unanswered = b.unanswered
  BY DEF DrmRepainted
<1>2. damage = x.damage \cup s.damage
  BY DEF Accumulated
<1>3. /\ ~x.destroying /\ ~x.repaint_timer /\ x.idle_repaints = 0
      /\ x.repaint_scheduled
      /\ ~b.destroy_pending /\ ~b.page_flip_pending /\ ~b.vblank_pending
      /\ ~b.vblank /\ b.flip = "none"
  BY DEF AtTurn
<1>4. /\ y.idle_repaints = 0 /\ ~y.destroying /\ ~y.repaint_timer
      /\ Repaints(c, o) /\ r.ok => y.repaint_scheduled
      /\ Repaints(c, o) /\ ~r.ok => ~y.repaint_scheduled
      /\ ~Repaints(c, o) => ~y.repaint_scheduled
  BY <1>3 DEF LoopTurned, Repaints
<1>5. CASE Repaints(c, o) /\ r.ok
  <2>1. /\ Backend(d) = n /\ y.damage = {} /\ y.repaint_scheduled
        /\ y.feedback_list = keep \cup s.feedback_list
    BY <1>1, <1>4, <1>5 DEF Backend
  <2>2. LoopOk(d)
    <3>1. FlagsOk(d)
      BY <1>1, <1>3, <1>4, <1>5, <2>1 DEF FlagsOk
    <3>2. Continuations(d) = 1
      BY <1>1, <1>4, <1>5, <2>1 DEF Continuations
    <3> QED BY <2>1, <3>1, <3>2 DEF LoopOk
  <2>3. Content(n.next) = painted
    BY <1>1, <1>5 DEF Content, Fb
  <2>4. painted \subseteq 1 .. c.commits
    BY <1>2 DEF LifeOk, Backend
  <2>5. LifeOk(d, sh)
    <3> HIDE DEF painted
    <3> QED BY <1>1, <1>5, <2>1, <2>3, <2>4 DEF LifeOk, Backend
  <2>6. ShownOk(d, sh)
    <3>1. s.feedback_list \subseteq painted
      BY <1>2 DEF ToldOk
    <3> HIDE DEF painted
    <3> QED
      BY <1>1, <1>5, <2>1, <2>3, <3>1 DEF ShownOk, Backend
  <2> QED BY <2>2, <2>5, <2>6
<1>6. CASE Repaints(c, o) /\ ~r.ok
  <2>1. /\ Backend(d) = n /\ y.damage = {} /\ ~y.repaint_scheduled
        /\ y.feedback_list = keep \cup s.feedback_list
    BY <1>1, <1>4, <1>6 DEF Backend
  <2>2. LoopOk(d)
    <3>1. FlagsOk(d)
      BY <1>1, <1>3, <1>4, <1>6, <2>1 DEF FlagsOk
    <3>2. Continuations(d) = 0
      BY <1>1, <1>3, <1>4, <1>6, <2>1 DEF Continuations
    <3> QED BY <2>1, <3>1, <3>2 DEF LoopOk
  <2>3. Content(n.next) = {}
    BY <1>1, <1>6 DEF Content, NoFb
  <2>4. painted \subseteq 1 .. c.commits
    BY <1>2 DEF LifeOk, Backend
  <2>5. LifeOk(d, sh)
    <3> HIDE DEF painted
    <3> QED BY <1>1, <1>6, <2>1, <2>3, <2>4 DEF LifeOk, Backend
  <2>6. ShownOk(d, sh)
    BY <1>1, <1>6, <2>1 DEF ShownOk, Backend
  <2> QED BY <2>2, <2>5, <2>6
<1>7. CASE ~Repaints(c, o)
  <2>1. Backend(d) = b /\ ~y.repaint_scheduled /\ y.feedback_list = keep
    BY <1>4, <1>7 DEF Backend
  <2>2. LoopOk(d)
    <3>1. FlagsOk(d)
      BY <1>3, <1>4, <2>1 DEF FlagsOk
    <3>2. Continuations(d) = 0
      BY <1>3, <1>4, <2>1 DEF Continuations
    <3> QED BY <2>1, <3>1, <3>2 DEF LoopOk
  <2>3. LifeOk(d, sh)
    BY <1>7, <2>1 DEF LifeOk, Backend
  <2>4. ShownOk(d, sh)
    BY <1>7, <2>1 DEF ShownOk, ToldOk, Backend
  <2> QED BY <2>2, <2>3, <2>4
<1> QED BY <1>1, <1>5, <1>6, <1>7 DEF RepaintResult

\* The delay to the next repaint is an integer
LEMMA DelayInt ==
  ASSUME NEW age \in Int, NEW invalid \in BOOLEAN
  PROVE  RepaintDelay(RefreshNsec, age, RepaintMsec, invalid) \in Int
<1>1. \A a \in Int : TruncDiv(a, 1000000) \in Int
  BY SMT DEF TruncDiv
<1>2. RefreshNsec \in Int /\ RepaintMsec \in Int /\ RefreshNsec - age \in Int
  BY SMT DEF RefreshNsec, RepaintMsec
<1>3. TruncDiv(RefreshNsec - age, 1000000) \in Int /\ TruncDiv(RefreshNsec, 1000000) \in Int
  BY <1>1, <1>2, SMT
<1> QED BY <1>2, <1>3, SMT DEF RepaintDelay

LEMMA AgesInt == QueryAges \subseteq Int /\ EventAges \subseteq Int
BY SMT DEF QueryAges, EventAges

\* weston_output_finish_frame of a handler of the loop
LEMMA DrmFinishStep ==
  ASSUME NEW c \in CompositorType, NEW sh, NEW invalid \in BOOLEAN,
         NEW ages \in SUBSET Int,
         AtTurn(c), LifeOk(c, sh), ToldOk(c, sh), ~c.assertFailed,
         invalid => (~Backend(c).failed => c.output[o].feedback_list = {}),
         DrmFinish(c, invalid, ages)
  PROVE  /\ ec' \in CompositorType /\ LifeOk(ec', sh) /\ FrameStep(c, ec', sh, sh)
         /\ ~ec'.assertFailed => LoopOk(ec') /\ ShownOk(ec', sh)
         /\ ~Backend(ec').failed => ec'.presented \subseteq sh /\ ~ec'.assertFailed
<1> DEFINE x == c.output[o]
           s == c.surface[o]
<1>1. PICK outcome \in Outcomes(c), useSprite \in BOOLEAN, vblankOk \in BOOLEAN,
           then \in Then, age \in ages :
        ec' = FinishFrame(c, o, invalid,
                RepaintDelay(RefreshNsec, age, RepaintMsec, invalid),
                DrmRepaint(c, outcome, useSprite, vblankOk), then)
  BY DEF DrmFinish
<1> DEFINE msec == RepaintDelay(RefreshNsec, age, RepaintMsec, invalid)
           r == DrmRepaint(c, outcome, useSprite, vblankOk)
           fails == invalid /\ x.feedback_list # {}
<1>2. msec \in Int
  BY DelayInt
<1>3. r \in RepaintResult /\ DrmRepainted(c, r)
  BY DrmRepaintFacts DEF AtTurn
<1>4. ec' = FinishFrame(c, o, invalid, msec, r, then)
  BY <1>1
<1> HIDE DEF msec, r
<1>5. ec' \in CompositorType /\ Finished(c, ec', o, invalid, msec, r)
  BY <1>2, <1>3, <1>4, OneOutput, FinishFrameFacts
<1>6. sh \subseteq sh /\ sh \subseteq (1 .. c.commits) \ s.frame_callback_list
  BY DEF LifeOk
<1>7. x.feedback_list \in SUBSET ((s.feedback_list \cup x.feedback_list) \ s.frame_callback_list)
  BY DEF LifeOk
<1>8. (s.feedback_list \cup x.feedback_list) \ x.feedback_list = s.feedback_list
  BY DEF LifeOk
<1>9. CASE fails
  <2>1. /\ ec'.assertFailed = TRUE
        /\ ec'.output = c.output /\ ec'.surface = c.surface /\ ec'.commits = c.commits
        /\ ec'.presented = c.presented /\ ec'.discarded = c.discarded
    BY <1>5, <1>9 DEF Finished, AssertionFailed
  <2>2. LifeOk(ec', sh)
    BY <2>1 DEF LifeOk
  <2>3. {} \in SUBSET ((s.feedback_list \cup x.feedback_list) \ s.frame_callback_list)
        /\ \A f : f = f \ {} /\ f = f \cup {}
    OBVIOUS
  <2>4. FrameStep(c, ec', sh, sh)
    BY <1>6, <2>1, <2>3 DEF FrameStep
  <2>5. Backend(ec').failed
    BY <1>9, <2>1 DEF Backend
  <2> QED BY <1>5, <2>1, <2>2, <2>4, <2>5
<1>10. CASE ~fails /\ msec < 1
  <2>1. /\ FrameEnded(c, ec', o) /\ LoopTurned(c, ec', o, r)
        /\ ec'.output[o].repaint_timer = c.output[o].repaint_timer
        /\ IF Repaints(c, o) THEN NextRepainted(c, ec', o, r)
                             ELSE NoneRepainted(c, ec', o)
    BY <1>5, <1>10 DEF Finished
  <2>2. {} \cup s.feedback_list = s.feedback_list
    OBVIOUS
  <2>3. ~Backend(c).failed => ec'.presented \subseteq sh
    BY <2>1 DEF FrameEnded, ToldOk
  <2>4. /\ ec'.commits = c.commits
        /\ ec'.output[o].destroying = c.output[o].destroying
    BY <2>1 DEF FrameEnded
  <2>5. IF Repaints(c, o)
        THEN /\ ec'.surface[o].content = c.surface[o].content
             /\ ec'.surface[o].damage = {}
             /\ ec'.surface[o].frame_callback_list = {}
             /\ ec'.surface[o].feedback_list = {}
             /\ ec'.output[o].feedback_list = {} \cup c.surface[o].feedback_list
             /\ ec'.output[o].damage = r.damage /\ ec'.output[o].backend = r.backend
        ELSE /\ ec'.surface[o] = c.surface[o]
             /\ ec'.output[o].feedback_list = {}
             /\ ec'.output[o].damage = c.output[o].damage
             /\ ec'.output[o].backend = c.output[o].backend
    BY <2>1, <2>2 DEF NextRepainted, NoneRepainted
  <2>6. LoopOk(ec') /\ LifeOk(ec', sh) /\ ShownOk(ec', sh)
    <3>1. {} \subseteq c.output[o].feedback_list
      OBVIOUS
    <3>2. ~Backend(c).failed => {} = {} /\ ec'.presented \subseteq sh
      BY <2>3
    <3> QED BY <1>3, <1>5, <2>1, <2>4, <2>5, <3>1, <3>2, TurnStep
  <2>7. FrameStep(c, ec', sh, sh)
    <3> DEFINE t == ec'.surface[o]
               feedback == s.feedback_list \cup x.feedback_list
    <3>1. /\ t.frame_callback_list \in {s.frame_callback_list, {}}
          /\ t.feedback_list \cup ec'.output[o].feedback_list
               = feedback \ x.feedback_list
      BY <1>8, <2>5
    <3>2. /\ ec'.presented = c.presented \cup x.feedback_list
          /\ ec'.commits = c.commits /\ ec'.discarded = c.discarded
      BY <2>1 DEF FrameEnded
    <3> QED BY <1>6, <1>7, <3>1, <3>2 DEF FrameStep
  <2>8. ~ec'.assertFailed
    BY <2>1 DEF FrameEnded
  <2>9. ~Backend(ec').failed => ec'.presented \subseteq sh
    BY <2>6 DEF ShownOk, Backend
  <2> QED BY <1>5, <2>6, <2>7, <2>8, <2>9
<1>11. CASE ~fails /\ ~(msec < 1)
  <2>1. /\ FrameEnded(c, ec', o) /\ SameLoop(c, ec', o)
        /\ ec'.output[o].repaint_timer = TRUE /\ NoneRepainted(c, ec', o)
    BY <1>5, <1>11 DEF Finished
  <2>2. /\ ec'.surface = c.surface /\ ec'.output[o].feedback_list = {}
        /\ ec'.output[o].damage = x.damage /\ Backend(ec') = Backend(c)
        /\ ec'.commits = c.commits /\ ec'.discarded = c.discarded
        /\ ec'.presented = c.presented \cup x.feedback_list
        /\ ec'.output[o].destroying = x.destroying /\ ~ec'.assertFailed
    BY <2>1 DEF NoneRepainted, FrameEnded, Backend
  <2>3. LoopOk(ec')
    <3>1. FlagsOk(ec')
      BY <2>2 DEF FlagsOk, AtTurn
    <3>2. /\ ec'.output[o].idle_repaints = 0 /\ ec'.output[o].repaint_scheduled
      BY <2>1 DEF SameLoop, AtTurn
    <3>3. Continuations(ec') = 1
      BY <2>1, <2>2, <3>2 DEF Continuations, AtTurn
    <3> QED BY <3>1, <3>2, <3>3 DEF LoopOk
  <2>4. LifeOk(ec', sh)
    BY <2>2 DEF LifeOk, Backend
  <2>5. ShownOk(ec', sh)
    BY <2>2 DEF ShownOk, ToldOk, Backend
  <2>6. FrameStep(c, ec', sh, sh)
    BY <1>6, <1>7, <1>8, <2>2 DEF FrameStep
  <2>7. ~Backend(ec').failed => ec'.presented \subseteq sh
    BY <2>5 DEF ShownOk, Backend
  <2> QED BY <1>5, <2>2, <2>3, <2>4, <2>5, <2>6, <2>7
<1> QED BY <1>9, <1>10, <1>11

\* output_repaint_timer_handler
LEMMA TimerStep ==
  ASSUME NEW c \in CompositorType, NEW sh,
         AtTurn(c), LifeOk(c, sh), ToldOk(c, sh), ~c.assertFailed,
         ~Backend(c).failed => c.output[o].feedback_list = {},
         NEW outcome \in Outcomes(c), NEW useSprite \in BOOLEAN,
         NEW vblankOk \in BOOLEAN, NEW then \in Then,
         ec' = TimerHandler(c, o, DrmRepaint(c, outcome, useSprite, vblankOk), then)
  PROVE  /\ ec' \in CompositorType /\ LifeOk(ec', sh) /\ FrameStep(c, ec', sh, sh)
         /\ LoopOk(ec') /\ ShownOk(ec', sh) /\ ~ec'.assertFailed
<1> DEFINE x == c.output[o]
           s == c.surface[o]
           keep == x.feedback_list
           r == DrmRepaint(c, outcome, useSprite, vblankOk)
<1>1. r \in RepaintResult /\ DrmRepainted(c, r)
  BY DrmRepaintFacts DEF AtTurn
<1>2. ec' = TimerHandler(c, o, r, then)
  OBVIOUS
<1> HIDE DEF r
<1>3. /\ ec' \in CompositorType /\ SameLife(c, ec', o) /\ LoopTurned(c, ec', o, r)
      /\ IF Repaints(c, o) THEN Repainted(c, ec', o, r)
                           ELSE NotRepainted(c, ec', o)
  BY <1>1, <1>2, OneOutput, TimerHandlerFacts
<1>4. /\ ec'.commits = c.commits /\ ec'.presented = c.presented
      /\ ec'.discarded = c.discarded /\ ~ec'.assertFailed
      /\ ec'.output[o].destroying = x.destroying
      /\ ec'.output[o].repaint_timer = x.repaint_timer
  BY <1>3 DEF SameLife
<1>5. IF Repaints(c, o)
      THEN /\ ec'.surface[o].content = c.surface[o].content
           /\ ec'.surface[o].damage = {}
           /\ ec'.surface[o].frame_callback_list = {}
           /\ ec'.surface[o].feedback_list = {}
           /\ ec'.output[o].feedback_list = keep \cup c.surface[o].feedback_list
           /\ ec'.output[o].damage = r.damage /\ ec'.output[o].backend = r.backend
      ELSE /\ ec'.surface[o] = c.surface[o]
           /\ ec'.output[o].feedback_list = keep
           /\ ec'.output[o].damage = c.output[o].damage
           /\ ec'.output[o].backend = c.output[o].backend
  BY <1>3 DEF Repainted, NotRepainted
<1>6. ~Backend(c).failed => keep = {} /\ ec'.presented \subseteq sh
  BY <1>4 DEF ToldOk
<1>7. keep \subseteq c.output[o].feedback_list
  OBVIOUS
<1>8. LoopOk(ec') /\ LifeOk(ec', sh) /\ ShownOk(ec', sh)
  BY <1>1, <1>3, <1>4, <1>5, <1>6, <1>7, TurnStep
<1>9. FrameStep(c, ec', sh, sh)
  <2> DEFINE t == ec'.surface[o]
             feedback == s.feedback_list \cup x.feedback_list
  <2>1. /\ t.frame_callback_list \in {s.frame_callback_list, {}}
        /\ t.feedback_list \cup ec'.output[o].feedback_list = feedback \ {}
    BY <1>5
  <2>2. /\ {} \in SUBSET (feedback \ s.frame_callback_list)
        /\ ec'.presented = c.presented \cup {}
    BY <1>4
  <2>3. sh \subseteq sh /\ sh \subseteq (1 .. c.commits) \ s.frame_callback_list
    BY DEF LifeOk
  <2> QED BY <1>4, <2>1, <2>2, <2>3 DEF FrameStep
<1> QED BY <1>3, <1>4, <1>8, <1>9
-----------------------------------------------------------------------------
\* The compositor with another state of the backend
BackendChanged(c, v) == WithOutput(c, o, [c.output[o] EXCEPT !.backend = v])

LEMMA BackendChangedFacts ==
  ASSUME NEW c \in CompositorType, NEW v \in BackendRec
  PROVE  LET d == BackendChanged(c, v)
             x == c.output[o]
             y == d.output[o]
         IN /\ d \in CompositorType /\ SameUpdates(c, d) /\ Backend(d) = v
            /\ y.feedback_list = x.feedback_list /\ y.damage = x.damage
            /\ y.repaint_needed = x.repaint_needed
            /\ y.repaint_scheduled = x.repaint_scheduled
            /\ y.idle_repaints = x.idle_repaints /\ y.repaint_timer = x.repaint_timer
            /\ y.destroying = x.destroying
            /\ d.state = c.state
<1> DEFINE x == c.output[o]
           y == [x EXCEPT !.backend = v]
           d == BackendChanged(c, v)
<1>1. x \in OutputType
  BY OneOutput, CompositorFields
<1>2. y \in OutputType
  BY <1>1, Zenon DEF OutputType, BackendRec, Commits
<1>3. /\ y.backend = v /\ y.feedback_list = x.feedback_list /\ y.damage = x.damage
      /\ y.repaint_needed = x.repaint_needed
      /\ y.repaint_scheduled = x.repaint_scheduled
      /\ y.idle_repaints = x.idle_repaints /\ y.repaint_timer = x.repaint_timer
      /\ y.destroying = x.destroying
  BY <1>1 DEF OutputType
<1>4. d = WithOutput(c, o, y)
  BY DEF BackendChanged
<1> HIDE DEF d, y
<1>5. /\ d \in CompositorType /\ d.output[o] = y /\ SameUpdates(c, d)
      /\ d.state = c.state
  BY <1>2, <1>4, OneOutput, WithOutputFacts
<1> QED BY <1>3, <1>5 DEF Backend, d

\* Asking the loop for a repaint, or leaving it alone, keeps it one
LEMMA LoopKept ==
  ASSUME NEW c \in CompositorType, NEW d \in CompositorType, LoopOk(c),
         SameFrame(c, d, o), LoopRequested(c, d, o) \/ SameLoop(c, d, o)
  PROVE  LoopOk(d)
<1> DEFINE x == c.output[o]
           y == d.output[o]
<1>1. x.idle_repaints \in Nat /\ y.idle_repaints \in Nat
  BY OneOutput, CompositorFields, OutputFields
<1>2. /\ Backend(d) = Backend(c) /\ y.destroying = x.destroying
      /\ y.repaint_timer = x.repaint_timer
  BY DEF SameFrame, Backend
<1>3. FlagsOk(d)
  BY <1>2 DEF LoopOk, FlagsOk
<1> DEFINE m == IF x.repaint_timer THEN 1 ELSE 0
           n == IF Backend(c).flip # "none" \/ Backend(c).vblank_pending THEN 1 ELSE 0
<1>4. m \in Nat /\ n \in Nat
  OBVIOUS
<1>5. /\ Continuations(c) = x.idle_repaints + m + n
      /\ Continuations(d) = y.idle_repaints + m + n
  BY <1>2 DEF Continuations
<1> HIDE DEF m, n
<1>6. Continuations(d) = (IF y.repaint_scheduled THEN 1 ELSE 0)
  <2>1. CASE LoopRequested(c, d, o)
    <3> DEFINE i == x.idle_repaints
               j == y.idle_repaints
    <3>1. /\ y.repaint_scheduled /\ j = (IF x.repaint_scheduled THEN i ELSE i + 1)
          /\ i + m + n = (IF x.repaint_scheduled THEN 1 ELSE 0)
      BY <1>5, <2>1 DEF LoopRequested, LoopOk
    <3>2. i \in Nat /\ j \in Nat
      BY <1>1
    <3> HIDE DEF i, j
    <3>3. j + m + n = 1
      BY <1>4, <3>1, <3>2
    <3> QED BY <1>5, <3>1, <3>3 DEF j
  <2>2. CASE SameLoop(c, d, o)
    BY <1>5, <2>2 DEF SameLoop, LoopOk
  <2> QED BY <2>1, <2>2
<1> QED BY <1>3, <1>6 DEF LoopOk

\* A change of the power state keeps what is known of the output
LEMMA PoweredKept ==
  ASSUME NEW c \in CompositorType, NEW d \in CompositorType, NEW sh,
         Powered(c, d, o), LoopOk(c), LifeOk(c, sh), ShownOk(c, sh)
  PROVE  LoopOk(d) /\ LifeOk(d, sh) /\ ShownOk(d, sh)
<1>1. LoopOk(d)
  BY LoopKept DEF Powered
<1>2. SameUpdates(c, d) /\ SameFrame(c, d, o)
  BY DEF Powered
<1>3. PICK new \in SUBSET c.surface[o].content :
        d.output[o].damage = c.output[o].damage \cup new
  BY DEF Powered
<1>4. /\ d.surface = c.surface /\ d.commits = c.commits /\ d.presented = c.presented
      /\ d.output[o].feedback_list = c.output[o].feedback_list
      /\ d.output[o].backend = c.output[o].backend
  BY <1>2 DEF SameUpdates, SameFrame
<1>5. LifeOk(d, sh)
  BY <1>3, <1>4 DEF LifeOk
<1>6. ShownOk(d, sh)
  BY <1>3, <1>4 DEF ShownOk
<1> QED BY <1>1, <1>5, <1>6

\* The pieces of the state a step leaves as UpdateLife sees them
LEMMA SameSeen ==
  ASSUME SameUpdates(ec, ec'), shown' = shown,
         ec'.output[o].feedback_list = ec.output[o].feedback_list
  PROVE  UNCHANGED Updates!uvars
BY DEF SameUpdates, Updates!uvars, out

\* What the variables beside the compositor may be
LEMMA Types ==
  ASSUME TypeOK
  PROVE  /\ ec \in CompositorType /\ shown \subseteq Commits
         /\ active \in BOOLEAN /\ prev_state \in {"ACTIVE", "IDLE", "OFFSCREEN", "SLEEPING"}
         /\ gone \in BOOLEAN /\ slept \in BOOLEAN
         /\ ec.commits \in 0 .. MaxCommits
BY OneOutput, CompositorFields DEF TypeOK

\* The part of a step that is the same in all handlers
LEMMA TypeStep ==
  ASSUME TypeOK, History, ec' \in CompositorType, shown' \subseteq Commits,
         active' \in BOOLEAN, prev_state' \in {"ACTIVE", "IDLE", "OFFSCREEN", "SLEEPING"},
         gone' \in BOOLEAN
  PROVE  TypeOK'
<1>1. slept' \in BOOLEAN
  BY DEF TypeOK, History
<1> QED BY <1>1 DEF TypeOK

LEMMA PowerStep ==
  ASSUME IInv, Power, History
  PROVE  IInv' /\ UNCHANGED Updates!uvars
<1>1. /\ Running /\ shown' = shown /\ active' = active
      /\ prev_state' = prev_state /\ gone' = gone
      /\ \/ ec' = Sleep(ec)
         \/ \E s \in SUBSET {o} : ec' = Wake(ec, s)
         \/ \E i \in BOOLEAN, s \in SUBSET {o} : ec' = IdleHandler(ec, i, s)
  BY Zenon DEF Power
<1>2. ec \in CompositorType /\ TypeOK
  BY DEF IInv, TypeOK
<1>3. ec' \in CompositorType /\ Powered(ec, ec', o)
  <2>1. CASE ec' = Sleep(ec)
    BY <1>2, <2>1, OneOutput, SleepPowers
  <2>2. CASE \E s \in SUBSET {o} : ec' = Wake(ec, s)
    BY <1>2, <2>2, OneOutput, WakePowers
  <2>3. CASE \E i \in BOOLEAN, s \in SUBSET {o} : ec' = IdleHandler(ec, i, s)
    BY <1>2, <2>3, OneOutput, IdleHandlerPowers
  <2> QED BY <1>1, <2>1, <2>2, <2>3
<1>4. LoopOk(ec') /\ LifeOk(ec', shown) /\ ShownOk(ec', shown)
  BY <1>1, <1>2, <1>3, PoweredKept DEF IInv
<1>5. TypeOK'
  <2>1. /\ shown' \subseteq Commits /\ active' \in BOOLEAN
        /\ prev_state' \in {"ACTIVE", "IDLE", "OFFSCREEN", "SLEEPING"} /\ gone' \in BOOLEAN
    BY <1>1, <1>2, Types
  <2> QED BY <1>2, <1>3, <2>1, TypeStep
<1>6. /\ SameUpdates(ec, ec') /\ drm' = drm
      /\ ec'.output[o].feedback_list = ec.output[o].feedback_list
  BY <1>3 DEF Powered, SameFrame, drm, out
<1>7. UNCHANGED Updates!uvars
  BY <1>1, <1>6, SameSeen
<1>8. /\ ~drm'.failed => ec'.presented \subseteq shown' /\ ~ec'.assertFailed
      /\ gone' => drm'.flip # "frame"
  BY <1>1, <1>6 DEF IInv, SameUpdates
<1> QED BY <1>1, <1>4, <1>5, <1>7, <1>8 DEF IInv

\* One continuation at a time
LEMMA OneToken ==
  ASSUME NEW c \in CompositorType, LoopOk(c)
  PROVE  LET x == c.output[o]
             b == Backend(c)
         IN /\ x.repaint_timer =>
                 /\ x.repaint_scheduled /\ x.idle_repaints = 0
                 /\ b.flip = "none" /\ ~b.vblank_pending
            /\ x.idle_repaints > 0 =>
                 /\ x.repaint_scheduled /\ x.idle_repaints = 1 /\ ~x.repaint_timer
                 /\ b.flip = "none" /\ ~b.vblank_pending
            /\ b.flip # "none" \/ b.vblank_pending =>
                 /\ x.repaint_scheduled /\ x.idle_repaints = 0 /\ ~x.repaint_timer
<1> DEFINE x == c.output[o]
           b == Backend(c)
           i == x.idle_repaints
           m == IF x.repaint_timer THEN 1 ELSE 0
           n == IF b.flip # "none" \/ b.vblank_pending THEN 1 ELSE 0
           k == IF x.repaint_scheduled THEN 1 ELSE 0
<1>1. i \in Nat
  BY OneOutput, CompositorFields, OutputFields
<1>2. i + m + n = k
  BY DEF LoopOk, Continuations
<1>3. m \in {0, 1} /\ n \in {0, 1} /\ k \in {0, 1}
  OBVIOUS
<1>4. /\ m = 1 <=> x.repaint_timer
      /\ n = 1 <=> (b.flip # "none" \/ b.vblank_pending)
      /\ k = 1 <=> x.repaint_scheduled
  OBVIOUS
<1> HIDE DEF i, m, n, k
<1>5. /\ m = 1 => k = 1 /\ i = 0 /\ n # 1
      /\ i > 0 => k = 1 /\ i = 1 /\ m # 1 /\ n # 1
      /\ n = 1 => k = 1 /\ i = 0 /\ m # 1
  BY <1>1, <1>2, <1>3
<1> HIDE DEF b
<1> QED BY <1>4, <1>5 DEF i, b

\* A handler's changes before and after which UpdateLife sees the same
LEMMA FrameSeen ==
  ASSUME NEW c, SameUpdates(ec, c),
         c.output[o].feedback_list = ec.output[o].feedback_list,
         FrameStep(c, ec', shown', shown'), shown \subseteq shown'
  PROVE  Updates!Frame
<1> DEFINE s == ec.surface[o]
           feedback == s.feedback_list \cup out.feedback_list
<1>1. /\ c.surface[o] = s /\ c.output[o].feedback_list = out.feedback_list
      /\ c.commits = ec.commits /\ c.presented = ec.presented
      /\ c.discarded = ec.discarded
  BY DEF SameUpdates, out
<1>2. /\ ec'.surface[o].frame_callback_list \in {s.frame_callback_list, {}}
      /\ \E done \in SUBSET (feedback \ s.frame_callback_list) :
           /\ ec'.surface[o].feedback_list \cup out'.feedback_list = feedback \ done
           /\ ec'.presented = ec.presented \cup done
      /\ shown' \subseteq (1 .. ec.commits) \ s.frame_callback_list
      /\ ec'.commits = ec.commits /\ ec'.discarded = ec.discarded
  BY <1>1 DEF FrameStep, out
<1> QED BY <1>2 DEF Updates!Frame, Updates!Repainted, Updates!Updates

\* A handler after which the output runs on, with a frame ended or begun
LEMMA FrameDone ==
  ASSUME IInv, Running, History, NEW c, SameUpdates(ec, c),
         c.output[o].feedback_list = ec.output[o].feedback_list,
         FrameStep(c, ec', shown', shown'), shown \subseteq shown',
         shown' \subseteq Commits, ec' \in CompositorType,
         active' = active, prev_state' = prev_state, gone' = gone,
         LifeOk(ec', shown'),
         ~ec'.assertFailed => LoopOk(ec') /\ ShownOk(ec', shown'),
         ~Backend(ec').failed => ec'.presented \subseteq shown' /\ ~ec'.assertFailed
  PROVE  IInv' /\ [Updates!Next]_(Updates!uvars)
<1>1. Updates!Frame
  BY FrameSeen
<1>2. TypeOK'
  <2>1. /\ active' \in BOOLEAN /\ gone' \in BOOLEAN
        /\ prev_state' \in {"ACTIVE", "IDLE", "OFFSCREEN", "SLEEPING"}
    BY Types DEF IInv
  <2> QED BY <2>1, TypeStep DEF IInv
<1>3. ~gone'
  BY DEF Running
<1>4. Backend(ec') = drm'
  BY DEF Backend, drm, out
<1>5. Running' => ~ec'.assertFailed
  BY DEF Running
<1> QED BY <1>1, <1>2, <1>3, <1>4, <1>5 DEF IInv, Updates!Next

\* A handler after which UpdateLife sees nothing new
LEMMA QuietDone ==
  ASSUME IInv, Running, History, ec' \in CompositorType, SameUpdates(ec, ec'),
         ec'.output[o].feedback_list = ec.output[o].feedback_list,
         shown' = shown, gone' = gone, active' \in BOOLEAN,
         prev_state' \in {"ACTIVE", "IDLE", "OFFSCREEN", "SLEEPING"},
         Backend(ec').failed = Backend(ec).failed,
         LoopOk(ec'), LifeOk(ec', shown), ShownOk(ec', shown)
  PROVE  IInv' /\ UNCHANGED Updates!uvars
<1>1. UNCHANGED Updates!uvars
  BY SameSeen
<1>2. TypeOK'
  <2>1. shown' \subseteq Commits /\ gone' \in BOOLEAN
    BY Types DEF IInv
  <2> QED BY <2>1, TypeStep DEF IInv
<1>3. ~gone'
  BY DEF Running
<1>4. ~drm'.failed => ec'.presented \subseteq shown' /\ ~ec'.assertFailed
  BY DEF IInv, SameUpdates, Backend, drm, out
<1> QED BY <1>1, <1>2, <1>3, <1>4 DEF IInv

LEMMA ClientCommitStep ==
  ASSUME IInv, ClientCommit, History
  PROVE  IInv' /\ Updates!Make
<1> USE DrmOutputAssumption
<1> DEFINE n == ec.commits + 1
           s == ec.surface[o]
           t == ec'.surface[o]
<1>1. PICK newBuffer \in BOOLEAN : ec' = Commit(ec, o, newBuffer)
  BY DEF ClientCommit
<1>2. /\ Running /\ ec.commits < MaxCommits /\ shown' = shown
      /\ active' = active /\ prev_state' = prev_state /\ gone' = gone
  BY DEF ClientCommit
<1>3. /\ TypeOK /\ ec \in CompositorType
      /\ LoopOk(ec) /\ LifeOk(ec, shown) /\ ShownOk(ec, shown)
      /\ ~drm.failed => ec.presented \subseteq shown /\ ~ec.assertFailed
  BY <1>2 DEF IInv, TypeOK
<1>4. /\ ec' \in CompositorType /\ ec'.commits = n
      /\ \E dropped \in {{}, s.feedback_list} :
           /\ ec'.discarded = ec.discarded \cup dropped
           /\ t.feedback_list = (s.feedback_list \ dropped) \cup {n}
      /\ t.frame_callback_list = s.frame_callback_list \cup {n}
      /\ t.damage = s.damage \cup {n} /\ t.content = s.content \cup {n}
      /\ ec'.presented = ec.presented /\ ec'.assertFailed = ec.assertFailed
      /\ SameFrame(ec, ec', o) /\ LoopAsked(ec, ec', o)
      /\ ec'.output[o].damage = ec.output[o].damage
  BY <1>1, <1>2, <1>3, OneOutput, CommitFacts
<1>5. /\ ec'.output[o].feedback_list = ec.output[o].feedback_list
      /\ ec'.output[o].backend = ec.output[o].backend
      /\ Backend(ec') = Backend(ec) /\ drm' = drm
  BY <1>4 DEF SameFrame, Backend, drm, out
<1>6. /\ ec.commits \in Nat /\ n \in Nat
      /\ 1 .. n = (1 .. ec.commits) \cup {n} /\ n \notin 1 .. ec.commits
  BY <1>3, Types
<1>7. PICK dropped \in {{}, s.feedback_list} :
        /\ ec'.discarded = ec.discarded \cup dropped
        /\ t.feedback_list = (s.feedback_list \ dropped) \cup {n}
  BY <1>4
<1> HIDE DEF n
<1>8. LoopOk(ec')
  BY <1>3, <1>4, LoopKept DEF LoopAsked
<1>9. LifeOk(ec', shown)
  BY <1>3, <1>4, <1>5, <1>6, <1>7 DEF LifeOk
<1>10. ShownOk(ec', shown)
  BY <1>3, <1>4, <1>5, <1>7 DEF ShownOk
<1>11. TypeOK'
  <2>1. /\ shown' \subseteq Commits /\ active' \in BOOLEAN /\ gone' \in BOOLEAN
        /\ prev_state' \in {"ACTIVE", "IDLE", "OFFSCREEN", "SLEEPING"}
    BY <1>2, <1>3, Types
  <2> QED BY <1>3, <1>4, <2>1, TypeStep
<1>12. Updates!Make
  <2>1. /\ ec'.commits = ec.commits + 1
        /\ t.frame_callback_list = s.frame_callback_list \cup {ec.commits + 1}
    BY <1>4 DEF n
  <2> DEFINE feedback == s.feedback_list \cup out.feedback_list
  <2>2. dropped \in SUBSET (feedback \cap s.frame_callback_list)
    BY <1>3, <1>7 DEF LifeOk
  <2>3. n \notin out.feedback_list /\ dropped \cap out.feedback_list = {}
    BY <1>3, <1>6, <1>7 DEF LifeOk, out
  <2>4. t.feedback_list \cup out'.feedback_list = (feedback \ dropped) \cup {n}
    BY <1>5, <1>7, <2>3 DEF out
  <2> QED BY <1>2, <1>4, <1>7, <2>1, <2>2, <2>4 DEF Updates!Make, n
<1>13. ~gone'
  BY <1>2 DEF Running
<1> QED
  BY <1>2, <1>3, <1>4, <1>5, <1>8, <1>9, <1>10, <1>11, <1>12, <1>13 DEF IInv

\* At the turn of the loop nothing of the last frame waits, unless a repaint failed.
LEMMA Turn ==
  ASSUME NEW c \in CompositorType, NEW d \in CompositorType, NEW sh,
         LifeOk(c, sh), ShownOk(c, sh), LoopOk(c),
         SameUpdates(c, d), Backend(d) = Backend(c),
         d.output[o].feedback_list = c.output[o].feedback_list,
         d.output[o].damage = c.output[o].damage,
         Backend(c).flip = "none", ~Backend(c).vblank_pending
  PROVE  /\ LifeOk(d, sh) /\ ToldOk(d, sh)
         /\ ~Backend(d).failed => d.output[o].feedback_list = {}
<1>1. /\ d.surface = c.surface /\ d.commits = c.commits
      /\ d.presented = c.presented
  BY DEF SameUpdates
<1>2. ~Backend(c).page_flip_pending
  BY DEF LoopOk, FlagsOk
<1>3. LifeOk(d, sh)
  BY <1>1 DEF LifeOk, Backend
<1>4. ToldOk(d, sh)
  BY <1>1, <1>2 DEF ShownOk, ToldOk, Backend
<1>5. ~Backend(d).failed => d.output[o].feedback_list = {}
  BY DEF ShownOk, Backend
<1> QED BY <1>3, <1>4, <1>5

LEMMA RepaintTimerStep ==
  ASSUME IInv, RepaintTimer, History
  PROVE  IInv' /\ [Updates!Next]_(Updates!uvars)
<1> DEFINE x == ec.output[o]
           y == [x EXCEPT !.repaint_timer = FALSE]
           c == WithOutput(ec, o, y)
<1>1. /\ Running /\ x.repaint_timer /\ shown' = shown
      /\ active' = active /\ prev_state' = prev_state /\ gone' = gone
      /\ \E outcome \in Outcomes(c), useSprite, vblankOk \in BOOLEAN, then \in Then :
           ec' = TimerHandler(c, o, DrmRepaint(c, outcome, useSprite, vblankOk), then)
  BY Zenon DEF RepaintTimer, WithOutput, out
<1>2. /\ TypeOK /\ ec \in CompositorType
      /\ LoopOk(ec) /\ LifeOk(ec, shown) /\ ShownOk(ec, shown)
  BY <1>1 DEF IInv, TypeOK
<1>3. x \in OutputType
  BY <1>2, OneOutput, CompositorFields
<1>4. y \in OutputType
  BY <1>3, Zenon DEF OutputType
<1>5. /\ ~y.repaint_timer /\ y.backend = x.backend /\ y.feedback_list = x.feedback_list
      /\ y.damage = x.damage /\ y.repaint_scheduled = x.repaint_scheduled
      /\ y.idle_repaints = x.idle_repaints /\ y.destroying = x.destroying
  BY <1>3 DEF OutputType
<1> HIDE DEF y, c
<1>6. c \in CompositorType /\ c.output[o] = y /\ SameUpdates(ec, c)
  BY <1>2, <1>4, OneOutput, WithOutputFacts DEF c
<1>7. /\ x.repaint_scheduled /\ x.idle_repaints = 0
      /\ Backend(ec).flip = "none" /\ ~Backend(ec).vblank_pending
  BY <1>1, <1>2, OneToken
<1>8. Backend(c) = Backend(ec)
  BY <1>5, <1>6 DEF Backend
<1>9. FlagsOk(ec)
  BY <1>2 DEF LoopOk
<1>10. AtTurn(c)
  BY <1>5, <1>6, <1>7, <1>8, <1>9 DEF AtTurn, FlagsOk
<1>11. /\ LifeOk(c, shown) /\ ToldOk(c, shown)
       /\ ~Backend(c).failed => c.output[o].feedback_list = {}
  BY <1>2, <1>5, <1>6, <1>7, <1>8, Turn
<1>12. ~c.assertFailed
  BY <1>1, <1>6 DEF SameUpdates, Running
<1>13. /\ ec' \in CompositorType /\ LifeOk(ec', shown)
       /\ FrameStep(c, ec', shown, shown)
       /\ LoopOk(ec') /\ ShownOk(ec', shown) /\ ~ec'.assertFailed
  <2>1. PICK outcome \in Outcomes(c), useSprite \in BOOLEAN,
             vblankOk \in BOOLEAN, then \in Then :
          ec' = TimerHandler(c, o, DrmRepaint(c, outcome, useSprite, vblankOk), then)
    BY <1>1
  <2> QED BY <1>6, <1>10, <1>11, <1>12, <2>1, TimerStep
<1>14. ~Backend(ec').failed => ec'.presented \subseteq shown'
  BY <1>1, <1>13 DEF ShownOk, Backend
<1>15. shown' \subseteq Commits /\ shown \subseteq shown'
  BY <1>1, <1>2, Types
<1> QED BY <1>1, <1>5, <1>6, <1>13, <1>14, <1>15, FrameDone

LEMMA IdleRepaintStep ==
  ASSUME IInv, IdleRepaint, History
  PROVE  IInv' /\ [Updates!Next]_(Updates!uvars)
<1> DEFINE x == ec.output[o]
           y == [x EXCEPT !.idle_repaints = @ - 1]
           c == WithOutput(ec, o, y)
           b == Backend(ec)
           v == [b EXCEPT !.flip = "start"]
<1>1. /\ Running /\ x.idle_repaints > 0 /\ shown' = shown
      /\ active' = active /\ prev_state' = prev_state /\ gone' = gone
  BY DEF IdleRepaint, out
<1>2. \/ b.destroy_pending
      \/ DrmFinish(c, TRUE, QueryAges)
      \/ ec' = [c EXCEPT !.output[o].backend.flip = "start"]
  BY Zenon DEF IdleRepaint, WithOutput, out, drm, Backend
<1>3. /\ TypeOK /\ ec \in CompositorType
      /\ LoopOk(ec) /\ LifeOk(ec, shown) /\ ShownOk(ec, shown)
  BY <1>1 DEF IInv, TypeOK
<1>4. x \in OutputType /\ b \in BackendRec
  BY <1>3, OneOutput, CompositorFields, BackendFields
<1>5. /\ x.repaint_scheduled /\ x.idle_repaints = 1 /\ ~x.repaint_timer
      /\ b.flip = "none" /\ ~b.vblank_pending
  BY <1>1, <1>3, OneToken
<1> DEFINE k == x.idle_repaints - 1
<1>6. k = 0 /\ k \in Nat /\ y = [x EXCEPT !.idle_repaints = k]
  BY <1>5
<1> HIDE DEF k
<1>7. y \in OutputType
  BY <1>4, <1>6, Zenon DEF OutputType
<1>8. /\ y.repaint_timer = x.repaint_timer /\ y.backend = x.backend
      /\ y.feedback_list = x.feedback_list
      /\ y.damage = x.damage /\ y.repaint_scheduled = x.repaint_scheduled
      /\ y.idle_repaints = 0 /\ y.destroying = x.destroying
  BY <1>4, <1>6 DEF OutputType
<1>9. /\ v \in BackendRec
  BY <1>4, Zenon DEF BackendRec
<1>10. /\ v.flip = "start" /\ v.vblank = b.vblank /\ v.vblank_pending = b.vblank_pending
       /\ v.destroy_pending = b.destroy_pending
       /\ v.page_flip_pending = b.page_flip_pending /\ v.unanswered = b.unanswered
       /\ v.failed = b.failed /\ v.next = b.next /\ v.rendered = b.rendered
  BY <1>4 DEF BackendRec
<1> HIDE DEF y, c
<1>11. c \in CompositorType /\ c.output[o] = y /\ SameUpdates(ec, c)
  BY <1>3, <1>7, OneOutput, WithOutputFacts DEF c
<1>12. Backend(c) = b
  BY <1>8, <1>11 DEF Backend
<1>13. FlagsOk(ec) /\ ~b.destroy_pending
  BY <1>3, <1>5 DEF LoopOk, FlagsOk
<1>14. CASE DrmFinish(c, TRUE, QueryAges)
  <2>1. AtTurn(c)
    BY <1>5, <1>8, <1>11, <1>12, <1>13 DEF AtTurn, FlagsOk
  <2>2. /\ LifeOk(c, shown) /\ ToldOk(c, shown)
        /\ ~Backend(c).failed => c.output[o].feedback_list = {}
    BY <1>3, <1>5, <1>8, <1>11, <1>12, Turn
  <2>3. ~c.assertFailed
    BY <1>1, <1>11 DEF SameUpdates, Running
  <2>4. /\ ec' \in CompositorType /\ LifeOk(ec', shown)
        /\ FrameStep(c, ec', shown, shown)
        /\ ~ec'.assertFailed => LoopOk(ec') /\ ShownOk(ec', shown)
        /\ ~Backend(ec').failed => ec'.presented \subseteq shown /\ ~ec'.assertFailed
    <3>1. QueryAges \in SUBSET Int /\ TRUE \in BOOLEAN
      BY AgesInt
    <3> QED BY <1>11, <1>14, <2>1, <2>2, <2>3, <3>1, DrmFinishStep
  <2>5. shown' \subseteq Commits /\ shown \subseteq shown'
    BY <1>1, <1>3, Types
  <2> QED BY <1>1, <1>8, <1>11, <2>4, <2>5, FrameDone
<1>15. CASE ec' = [c EXCEPT !.output[o].backend.flip = "start"]
  <2>1. ec' = BackendChanged(c, v)
    BY <1>12, <1>15 DEF BackendChanged, WithOutput, Backend
  <2> HIDE DEF v, b
  <2>2. /\ ec' \in CompositorType /\ SameUpdates(c, ec') /\ Backend(ec') = v
        /\ ec'.output[o].feedback_list = y.feedback_list
        /\ ec'.output[o].damage = y.damage
        /\ ec'.output[o].repaint_scheduled = y.repaint_scheduled
        /\ ec'.output[o].idle_repaints = y.idle_repaints
        /\ ec'.output[o].repaint_timer = y.repaint_timer
        /\ ec'.output[o].destroying = y.destroying
    BY <1>9, <1>11, <2>1, BackendChangedFacts
  <2>3. SameUpdates(ec, ec')
    BY <1>11, <2>2 DEF SameUpdates
  <2>4. LoopOk(ec')
    <3>1. FlagsOk(ec')
      BY <1>5, <1>8, <1>10, <1>13, <2>2 DEF FlagsOk, b
    <3>2. Continuations(ec') = 1
      BY <1>5, <1>8, <1>10, <2>2 DEF Continuations
    <3> QED BY <1>5, <1>8, <2>2, <3>1, <3>2 DEF LoopOk
  <2>5. LifeOk(ec', shown)
    BY <1>3, <1>8, <1>10, <2>2, <2>3 DEF LifeOk, Backend, SameUpdates, b
  <2>6. ShownOk(ec', shown)
    BY <1>3, <1>5, <1>8, <1>10, <2>2, <2>3 DEF ShownOk, Backend, SameUpdates, b
  <2>7. active' \in BOOLEAN /\ prev_state' \in {"ACTIVE", "IDLE", "OFFSCREEN", "SLEEPING"}
    BY <1>1, <1>3, Types
  <2>8. Backend(ec').failed = Backend(ec).failed
    BY <1>10, <2>2 DEF b
  <2> QED BY <1>1, <1>8, <2>2, <2>3, <2>4, <2>5, <2>6, <2>7, <2>8, QuietDone
<1> QED BY <1>2, <1>13, <1>14, <1>15

LEMMA VblankEventStep ==
  ASSUME IInv, VblankEvent, History
  PROVE  IInv' /\ [Updates!Next]_(Updates!uvars)
<1> DEFINE x == ec.output[o]
           b == Backend(ec)
           v == [b EXCEPT !.vblank = FALSE, !.vblank_pending = FALSE,
                          !.sprite_current = b.sprite_next, !.sprite_next = FALSE]
           c == BackendChanged(ec, v)
<1>1. /\ Running /\ b.vblank /\ shown' = shown
      /\ active' = active /\ prev_state' = prev_state /\ gone' = gone
      /\ IF b.page_flip_pending THEN ec' = c ELSE DrmFinish(c, FALSE, EventAges)
  BY Zenon DEF VblankEvent, BackendChanged, WithOutput, drm, out, Backend
<1>2. /\ TypeOK /\ ec \in CompositorType
      /\ LoopOk(ec) /\ LifeOk(ec, shown) /\ ShownOk(ec, shown)
  BY <1>1 DEF IInv, TypeOK
<1>3. FlagsOk(ec)
  BY <1>2 DEF LoopOk
<1>4. b.vblank_pending /\ x.repaint_scheduled /\ x.idle_repaints = 0 /\ ~x.repaint_timer
  BY <1>1, <1>2, <1>3, OneToken DEF FlagsOk
<1>5. b \in BackendRec /\ b.sprite_next \in BOOLEAN
  BY <1>2, BackendFields
<1>6. v \in BackendRec
  BY <1>5, Zenon DEF BackendRec
<1>7. /\ v.flip = b.flip /\ ~v.vblank /\ ~v.vblank_pending
      /\ v.destroy_pending = b.destroy_pending
      /\ v.page_flip_pending = b.page_flip_pending /\ v.unanswered = b.unanswered
      /\ v.failed = b.failed /\ v.next = b.next /\ v.rendered = b.rendered
  BY <1>5 DEF BackendRec
<1> HIDE DEF v, c
<1>8. /\ c \in CompositorType /\ SameUpdates(ec, c) /\ Backend(c) = v
      /\ c.output[o].feedback_list = x.feedback_list
      /\ c.output[o].damage = x.damage
      /\ c.output[o].repaint_scheduled = x.repaint_scheduled
      /\ c.output[o].idle_repaints = x.idle_repaints
      /\ c.output[o].repaint_timer = x.repaint_timer
      /\ c.output[o].destroying = x.destroying
  BY <1>2, <1>6, BackendChangedFacts DEF c
<1>9. LifeOk(c, shown)
  BY <1>2, <1>7, <1>8 DEF LifeOk, SameUpdates, Backend
<1>10. CASE b.page_flip_pending
  <2>1. ec' = c
    BY <1>1, <1>10
  <2>2. LoopOk(c)
    <3>1. FlagsOk(c)
      BY <1>3, <1>7, <1>8 DEF FlagsOk
    <3>2. Continuations(c) = 1
      BY <1>3, <1>4, <1>7, <1>8, <1>10 DEF Continuations, FlagsOk
    <3> QED BY <1>4, <1>8, <3>1, <3>2 DEF LoopOk
  <2>3. ShownOk(c, shown)
    BY <1>2, <1>3, <1>7, <1>8, <1>10 DEF ShownOk, SameUpdates, FlagsOk, Backend
  <2>4. active' \in BOOLEAN /\ prev_state' \in {"ACTIVE", "IDLE", "OFFSCREEN", "SLEEPING"}
    BY <1>1, <1>2, Types
  <2> QED BY <1>1, <1>7, <1>8, <1>9, <2>1, <2>2, <2>3, <2>4, QuietDone
<1>11. CASE ~b.page_flip_pending
  <2>1. DrmFinish(c, FALSE, EventAges)
    BY <1>1, <1>11
  <2>2. AtTurn(c)
    BY <1>3, <1>4, <1>5, <1>7, <1>8, <1>11, BackendFields DEF AtTurn, FlagsOk, BackendRec
  <2>3. ToldOk(c, shown)
    BY <1>2, <1>7, <1>8, <1>11 DEF ShownOk, ToldOk, SameUpdates, Backend
  <2>4. ~c.assertFailed
    BY <1>1, <1>8 DEF SameUpdates, Running
  <2>5. /\ ec' \in CompositorType /\ LifeOk(ec', shown)
        /\ FrameStep(c, ec', shown, shown)
        /\ ~ec'.assertFailed => LoopOk(ec') /\ ShownOk(ec', shown)
        /\ ~Backend(ec').failed => ec'.presented \subseteq shown /\ ~ec'.assertFailed
    <3>1. EventAges \in SUBSET Int /\ FALSE \in BOOLEAN
      BY AgesInt
    <3> QED BY <1>8, <1>9, <2>1, <2>2, <2>3, <2>4, <3>1, DrmFinishStep
  <2>6. shown' \subseteq Commits /\ shown \subseteq shown'
    BY <1>1, <1>2, Types
  <2> QED BY <1>1, <1>8, <2>5, <2>6, FrameDone
<1> QED BY <1>10, <1>11

\* weston_output_destroy, field by field
LEMMA DestroyedFacts ==
  ASSUME NEW c \in CompositorType
  PROVE  LET d == Destroyed(c)
         IN /\ d \in CompositorType /\ d.surface = c.surface
            /\ d.commits = c.commits /\ d.presented = c.presented
            /\ d.discarded = c.discarded \cup c.output[o].feedback_list
            /\ d.assertFailed = c.assertFailed
            /\ d.output[o].feedback_list = {}
            /\ d.output[o].damage = c.output[o].damage
            /\ Backend(d) = Backend(c)
<1> DEFINE x == c.output[o]
           y == [x EXCEPT !.destroying = TRUE, !.repaint_timer = FALSE,
                          !.feedback_list = {}]
           q == c.discarded \cup x.feedback_list
           e == WithOutput(c, o, y)
           d == Destroyed(c)
<1>1. x \in OutputType /\ q \in SUBSET Commits
  BY OneOutput, CompositorFields, OutputFields
<1>2. {} \in SUBSET Commits
  OBVIOUS
<1>3. y \in OutputType
  BY <1>1, <1>2, Zenon DEF OutputType
<1>4. y.feedback_list = {} /\ y.damage = x.damage /\ y.backend = x.backend
  BY <1>1 DEF OutputType
<1>5. d = [e EXCEPT !.discarded = q]
  BY ZenonT(40) DEF Destroyed, WithOutput
<1> HIDE DEF y, q, e
<1>6. e \in CompositorType /\ e.output[o] = y /\ SameUpdates(c, e)
  BY <1>3, OneOutput, WithOutputFacts DEF e
<1>7. d \in CompositorType
  BY <1>1, <1>5, <1>6, Zenon DEF CompositorType
<1>8. /\ d.output = e.output /\ d.surface = e.surface /\ d.commits = e.commits
      /\ d.presented = e.presented /\ d.assertFailed = e.assertFailed
      /\ d.discarded = q
  BY <1>5, <1>6 DEF CompositorType
<1> QED BY <1>4, <1>6, <1>7, <1>8 DEF SameUpdates, Backend, q

\* The output goes: what was under way on it is discarded.
LEMMA DropStep ==
  ASSUME IInv, Running, History, NEW c \in CompositorType, SameUpdates(ec, c),
         c.output[o].feedback_list = ec.output[o].feedback_list,
         LifeOk(c, shown'), shown \subseteq shown', shown' \subseteq Commits,
         Backend(c).failed = Backend(ec).failed, Backend(c).flip # "frame",
         ec' = Destroyed(c), gone' = TRUE, active' = active, prev_state' = prev_state
  PROVE  IInv' /\ [Updates!Next]_(Updates!uvars)
<1> DEFINE s == ec.surface[o]
           lost == out.feedback_list
           feedback == s.feedback_list \cup lost
<1>1. /\ ec' \in CompositorType /\ ec'.surface = c.surface
      /\ ec'.commits = c.commits /\ ec'.presented = c.presented
      /\ ec'.discarded = c.discarded \cup c.output[o].feedback_list
      /\ ec'.assertFailed = c.assertFailed
      /\ ec'.output[o].feedback_list = {}
      /\ ec'.output[o].damage = c.output[o].damage
      /\ Backend(ec') = Backend(c)
  BY DestroyedFacts
<1>2. /\ ec'.surface[o] = s /\ ec'.commits = ec.commits /\ ec'.presented = ec.presented
      /\ ec'.discarded = ec.discarded \cup lost
      /\ ec'.assertFailed = ec.assertFailed /\ out'.feedback_list = {}
      /\ c.surface[o] = s /\ c.commits = ec.commits /\ lost = c.output[o].feedback_list
  BY <1>1 DEF SameUpdates, out
<1>3. LifeOk(ec', shown')
  BY <1>1, <1>2 DEF LifeOk, Backend
<1>4. Updates!Drop
  <2>1. lost \in SUBSET (feedback \ s.frame_callback_list)
    BY <1>2 DEF LifeOk
  <2>2. s.feedback_list \cup out'.feedback_list = feedback \ lost
    BY <1>2 DEF LifeOk
  <2>3. shown' \subseteq (1 .. ec.commits) \ s.frame_callback_list
    BY <1>2 DEF LifeOk
  <2> QED
    BY <1>2, <2>1, <2>2, <2>3 DEF Updates!Drop, Updates!Repainted, Updates!Updates
<1>5. TypeOK'
  <2>1. active' \in BOOLEAN /\ prev_state' \in {"ACTIVE", "IDLE", "OFFSCREEN", "SLEEPING"}
    BY Types DEF IInv
  <2> QED BY <1>1, <2>1, TypeStep DEF IInv
<1>6. /\ drm'.failed = drm.failed /\ drm'.flip # "frame"
  BY <1>1 DEF drm, out, Backend
<1>7. ~drm'.failed => ec'.presented \subseteq shown' /\ ~ec'.assertFailed
  BY <1>2, <1>6 DEF IInv
<1> QED BY <1>3, <1>4, <1>5, <1>6, <1>7 DEF IInv, Running, Updates!Next

LEMMA UnplugStep ==
  ASSUME IInv, Unplug, History
  PROVE  IInv' /\ [Updates!Next]_(Updates!uvars)
<1> DEFINE x == ec.output[o]
           b == Backend(ec)
           v == [b EXCEPT !.destroy_pending = TRUE]
<1>1. /\ Running /\ shown' = shown /\ active' = active /\ prev_state' = prev_state
      /\ IF b.page_flip_pending THEN ec' = BackendChanged(ec, v) /\ gone' = gone
                                ELSE ec' = Destroyed(ec) /\ gone' = TRUE
  BY Zenon DEF Unplug, BackendChanged, WithOutput, drm, out, Backend
<1>2. /\ TypeOK /\ ec \in CompositorType
      /\ LoopOk(ec) /\ LifeOk(ec, shown) /\ ShownOk(ec, shown)
  BY <1>1 DEF IInv, TypeOK
<1>3. FlagsOk(ec)
  BY <1>2 DEF LoopOk
<1>4. shown' \subseteq Commits /\ shown \subseteq shown'
  BY <1>1, <1>2, Types
<1>5. CASE b.page_flip_pending
  <2>1. b \in BackendRec
    BY <1>2, BackendFields
  <2>2. v \in BackendRec
    BY <2>1, Zenon DEF BackendRec
  <2>3. /\ v.flip = b.flip /\ v.vblank = b.vblank /\ v.vblank_pending = b.vblank_pending
        /\ v.page_flip_pending = b.page_flip_pending /\ v.unanswered = b.unanswered
        /\ v.failed = b.failed /\ v.next = b.next /\ v.rendered = b.rendered
    BY <2>1 DEF BackendRec
  <2>4. ec' = BackendChanged(ec, v) /\ gone' = gone
    BY <1>1, <1>5
  <2> HIDE DEF v
  <2>5. /\ ec' \in CompositorType /\ SameUpdates(ec, ec') /\ Backend(ec') = v
        /\ ec'.output[o].feedback_list = x.feedback_list
        /\ ec'.output[o].damage = x.damage
        /\ ec'.output[o].repaint_scheduled = x.repaint_scheduled
        /\ ec'.output[o].idle_repaints = x.idle_repaints
        /\ ec'.output[o].repaint_timer = x.repaint_timer
        /\ ec'.output[o].destroying = x.destroying
    BY <1>2, <2>2, <2>4, BackendChangedFacts
  <2>6. LoopOk(ec')
    <3>1. FlagsOk(ec')
      BY <1>3, <1>5, <2>3, <2>5 DEF FlagsOk
    <3>2. Continuations(ec') = Continuations(ec)
      BY <2>3, <2>5 DEF Continuations
    <3> QED BY <1>2, <2>5, <3>1, <3>2 DEF LoopOk
  <2>7. LifeOk(ec', shown) /\ ShownOk(ec', shown)
    BY <1>2, <2>3, <2>5 DEF LifeOk, ShownOk, SameUpdates, Backend
  <2>8. active' \in BOOLEAN /\ prev_state' \in {"ACTIVE", "IDLE", "OFFSCREEN", "SLEEPING"}
    BY <1>1, <1>2, Types
  <2> QED BY <1>1, <2>3, <2>4, <2>5, <2>6, <2>7, <2>8, QuietDone
<1>6. CASE ~b.page_flip_pending
  <2>1. ec' = Destroyed(ec) /\ gone' = TRUE
    BY <1>1, <1>6
  <2>2. b.flip # "frame"
    BY <1>3, <1>6 DEF FlagsOk
  <2>3. SameUpdates(ec, ec)
    BY DEF SameUpdates
  <2> QED BY <1>1, <1>2, <1>4, <2>1, <2>2, <2>3, DropStep
<1> QED BY <1>5, <1>6

LEMMA PageFlipEventStep ==
  ASSUME IInv, PageFlipEvent, History
  PROVE  IInv' /\ [Updates!Next]_(Updates!uvars)
<1> DEFINE x == ec.output[o]
           b == Backend(ec)
           landed == IF b.page_flip_pending THEN b.next ELSE b.current
           left == IF b.page_flip_pending THEN NoFb ELSE b.next
           v == [b EXCEPT !.flip = "none", !.page_flip_pending = FALSE,
                          !.current = landed, !.next = left]
           c == BackendChanged(ec, v)
           sh == IF b.page_flip_pending THEN shown \cup Content(b.next) ELSE shown
<1>1. /\ Running /\ b.flip # "none" /\ shown' = sh
      /\ active' = active /\ prev_state' = prev_state
      /\ \/ b.destroy_pending /\ ec' = Destroyed(c) /\ gone' = TRUE
         \/ /\ ~b.destroy_pending /\ gone' = gone
            /\ IF b.vblank_pending THEN ec' = c ELSE DrmFinish(c, FALSE, EventAges)
  BY Zenon DEF PageFlipEvent, BackendChanged, WithOutput, drm, out, Backend
<1>2. /\ TypeOK /\ ec \in CompositorType
      /\ LoopOk(ec) /\ LifeOk(ec, shown) /\ ShownOk(ec, shown)
  BY <1>1 DEF IInv, TypeOK
<1>3. FlagsOk(ec)
  BY <1>2 DEF LoopOk
<1>4. x.repaint_scheduled /\ x.idle_repaints = 0 /\ ~x.repaint_timer
  BY <1>1, <1>2, OneToken
<1>5. /\ b \in BackendRec /\ b.next \in SUBSET SUBSET Commits
      /\ b.current \in SUBSET SUBSET Commits
  BY <1>2, BackendFields
<1>6. /\ landed \in SUBSET SUBSET Commits /\ left \in SUBSET SUBSET Commits
      /\ Content(left) \subseteq Content(b.next)
  BY <1>5 DEF NoFb, Content
<1>7. /\ shown \subseteq sh
      /\ b.page_flip_pending => sh = shown \cup Content(b.next)
      /\ sh \subseteq shown \cup Content(b.next)
  OBVIOUS
<1> HIDE DEF landed, left, sh
<1>8. v \in BackendRec
  BY <1>5, <1>6, Zenon DEF BackendRec
<1>9. /\ v.flip = "none" /\ v.page_flip_pending = FALSE /\ v.next = left
      /\ v.vblank = b.vblank /\ v.vblank_pending = b.vblank_pending
      /\ v.destroy_pending = b.destroy_pending /\ v.unanswered = b.unanswered
      /\ v.failed = b.failed /\ v.rendered = b.rendered
  BY <1>5 DEF BackendRec
<1> HIDE DEF v, c
<1>10. /\ c \in CompositorType /\ SameUpdates(ec, c) /\ Backend(c) = v
       /\ c.output[o].feedback_list = x.feedback_list
       /\ c.output[o].damage = x.damage
       /\ c.output[o].repaint_scheduled = x.repaint_scheduled
       /\ c.output[o].idle_repaints = x.idle_repaints
       /\ c.output[o].repaint_timer = x.repaint_timer
       /\ c.output[o].destroying = x.destroying
  BY <1>2, <1>8, BackendChangedFacts DEF c
<1>11. LifeOk(c, sh)
  BY <1>2, <1>6, <1>7, <1>9, <1>10 DEF LifeOk, SameUpdates, Backend
<1>12. sh \subseteq Commits
  <2>1. Content(b.next) \subseteq Commits
    BY <1>5 DEF Content
  <2> QED BY <1>2, <1>7, <2>1, Types
<1>13. CASE b.destroy_pending /\ ec' = Destroyed(c) /\ gone' = TRUE
  BY <1>1, <1>7, <1>9, <1>10, <1>11, <1>12, <1>13, DropStep
<1>14. CASE ~b.destroy_pending /\ gone' = gone /\ b.vblank_pending /\ ec' = c
  <2>1. FrameStep(c, c, sh, sh)
    <3> DEFINE feedback == c.surface[o].feedback_list \cup c.output[o].feedback_list
    <3>1. /\ {} \in SUBSET (feedback \ c.surface[o].frame_callback_list)
          /\ feedback = feedback \ {} /\ c.presented = c.presented \cup {}
      OBVIOUS
    <3>2. sh \subseteq (1 .. c.commits) \ c.surface[o].frame_callback_list
      BY <1>11 DEF LifeOk
    <3> QED BY <3>1, <3>2 DEF FrameStep
  <2>2. LoopOk(c)
    <3>1. FlagsOk(c)
      <4>1. /\ ~x.destroying
            /\ b.vblank => b.vblank_pending
            /\ b.vblank_pending => b.vblank \/ b.unanswered
        BY <1>3 DEF FlagsOk
      <4> HIDE DEF b
      <4>2. /\ ~v.destroy_pending
            /\ v.vblank => v.vblank_pending
            /\ v.vblank_pending => v.vblank \/ v.unanswered
        BY <1>9, <1>14, <4>1
      <4> QED BY <1>9, <1>10, <4>1, <4>2 DEF FlagsOk
    <3>2. v.vblank_pending
      BY <1>9, <1>14
    <3>3. Continuations(c) = 1
      BY <1>4, <1>9, <1>10, <3>2 DEF Continuations
    <3> QED BY <1>4, <1>10, <3>1, <3>3 DEF LoopOk
  <2>3. c.surface = ec.surface /\ c.presented = ec.presented
    BY <1>10 DEF SameUpdates
  <2>4. ShownOk(c, sh)
    BY <1>2, <1>7, <1>9, <1>10, <1>14, <2>3 DEF ShownOk, Backend
  <2>5. ~Backend(c).failed => c.presented \subseteq sh
    BY <2>4 DEF ShownOk, Backend
  <2>6. ~c.assertFailed
    BY <1>1, <1>10 DEF SameUpdates, Running
  <2> QED
    BY <1>1, <1>7, <1>10, <1>11, <1>12, <1>14, <2>1, <2>2, <2>4, <2>5, <2>6, FrameDone
<1>15. CASE /\ ~b.destroy_pending /\ gone' = gone
            /\ ~b.vblank_pending /\ DrmFinish(c, FALSE, EventAges)
  <2>1. AtTurn(c)
    BY <1>3, <1>4, <1>9, <1>10, <1>15 DEF AtTurn, FlagsOk
  <2>2. c.surface = ec.surface /\ c.presented = ec.presented
    BY <1>10 DEF SameUpdates
  <2>3. ToldOk(c, sh)
    BY <1>2, <1>7, <1>9, <1>10, <2>2 DEF ShownOk, ToldOk, Backend
  <2>4. ~c.assertFailed
    BY <1>1, <1>10 DEF SameUpdates, Running
  <2>5. /\ ec' \in CompositorType /\ LifeOk(ec', sh)
        /\ FrameStep(c, ec', sh, sh)
        /\ ~ec'.assertFailed => LoopOk(ec') /\ ShownOk(ec', sh)
        /\ ~Backend(ec').failed => ec'.presented \subseteq sh /\ ~ec'.assertFailed
    <3>1. EventAges \in SUBSET Int /\ FALSE \in BOOLEAN
      BY AgesInt
    <3> QED BY <1>10, <1>11, <1>15, <2>1, <2>3, <2>4, <3>1, DrmFinishStep
  <2> QED BY <1>1, <1>7, <1>10, <1>12, <1>15, <2>5, FrameDone
<1> QED BY <1>1, <1>13, <1>14, <1>15

LEMMA SessionOffStep ==
  ASSUME IInv, SessionOff, History
  PROVE  IInv' /\ [Updates!Next]_(Updates!uvars)
<1> DEFINE e == Offscreen(ec)
           x == e.output[o]
           y == [x EXCEPT !.repaint_needed = FALSE]
<1>1. /\ Running /\ shown' = shown /\ active' = FALSE /\ prev_state' = ec.state
      /\ gone' = gone /\ ec' = WithOutput(e, o, y)
  BY Zenon DEF SessionOff, WithOutput
<1>2. /\ TypeOK /\ ec \in CompositorType
      /\ LoopOk(ec) /\ LifeOk(ec, shown) /\ ShownOk(ec, shown)
  BY <1>1 DEF IInv, TypeOK
<1>3. /\ e \in CompositorType /\ SameUpdates(ec, e) /\ e.output = ec.output
  BY <1>2, OffscreenFacts
<1> HIDE DEF e
<1>4. x \in OutputType
  BY <1>3, OneOutput, CompositorFields
<1>5. y \in OutputType
  BY <1>4, Zenon DEF OutputType
<1>6. /\ y.repaint_timer = x.repaint_timer /\ y.backend = x.backend
      /\ y.feedback_list = x.feedback_list
      /\ y.damage = x.damage /\ y.repaint_scheduled = x.repaint_scheduled
      /\ y.idle_repaints = x.idle_repaints /\ y.destroying = x.destroying
  BY <1>4 DEF OutputType
<1> HIDE DEF y
<1>7. ec' \in CompositorType /\ ec'.output[o] = y /\ SameUpdates(e, ec')
  BY <1>1, <1>3, <1>5, OneOutput, WithOutputFacts
<1>8. /\ ec'.surface = ec.surface /\ ec'.commits = ec.commits
      /\ ec'.presented = ec.presented /\ SameUpdates(ec, ec')
  BY <1>3, <1>7 DEF SameUpdates
<1>9. Backend(ec') = Backend(ec)
  BY <1>3, <1>6, <1>7 DEF Backend
<1>10. LoopOk(ec')
  <2>1. FlagsOk(ec')
    BY <1>2, <1>3, <1>6, <1>7, <1>9 DEF LoopOk, FlagsOk
  <2>2. Continuations(ec') = Continuations(ec)
    BY <1>3, <1>6, <1>7, <1>9 DEF Continuations
  <2> QED BY <1>2, <1>3, <1>6, <1>7, <2>1, <2>2 DEF LoopOk
<1>11. LifeOk(ec', shown) /\ ShownOk(ec', shown)
  BY <1>2, <1>3, <1>6, <1>7, <1>8 DEF LifeOk, ShownOk
<1>12. active' \in BOOLEAN /\ prev_state' \in {"ACTIVE", "IDLE", "OFFSCREEN", "SLEEPING"}
  BY <1>1, <1>2, CompositorFields, OneOutput
<1> QED BY <1>1, <1>3, <1>6, <1>7, <1>8, <1>9, <1>10, <1>11, <1>12, QuietDone

\* The compositor back in another power state
StateChanged(c, state) == [c EXCEPT !.state = state]

LEMMA StateChangedFacts ==
  ASSUME NEW c \in CompositorType,
         NEW state \in {"ACTIVE", "IDLE", "OFFSCREEN", "SLEEPING"}
  PROVE  LET d == StateChanged(c, state)
         IN /\ d \in CompositorType /\ SameUpdates(c, d) /\ d.output = c.output
            /\ d.input_loop_source = c.input_loop_source
<1> DEFINE d == StateChanged(c, state)
<1>1. d \in CompositorType
  BY Zenon DEF CompositorType, StateChanged
<1>2. /\ SameUpdates(c, d) /\ d.output = c.output
      /\ d.input_loop_source = c.input_loop_source
  BY DEF CompositorType, SameUpdates, StateChanged
<1> QED BY <1>1, <1>2

LEMMA SessionOnStep ==
  ASSUME IInv, SessionOn, History
  PROVE  IInv' /\ [Updates!Next]_(Updates!uvars)
<1> DEFINE c == StateChanged(ec, prev_state)
           e == IF drm.current = NoFb THEN ScheduleRepaint(c, o) ELSE c
<1>1. /\ Running /\ shown' = shown /\ active' = TRUE /\ prev_state' = prev_state
      /\ gone' = gone
  BY DEF SessionOn
<1>2. /\ TypeOK /\ ec \in CompositorType
      /\ LoopOk(ec) /\ LifeOk(ec, shown) /\ ShownOk(ec, shown)
  BY <1>1 DEF IInv, TypeOK
<1>3. prev_state \in {"ACTIVE", "IDLE", "OFFSCREEN", "SLEEPING"}
  BY <1>2, Types
<1>4. ec' = DamageAll(e, {o})
  BY DEF SessionOn, StateChanged
<1>5. /\ c \in CompositorType /\ SameUpdates(ec, c) /\ c.output = ec.output
      /\ c.input_loop_source = ec.input_loop_source
  BY <1>2, <1>3, StateChangedFacts
<1> HIDE DEF c, e
<1>6. /\ c.output[o] = ec.output[o] /\ c.surface = ec.surface
  BY <1>5 DEF SameUpdates
<1>7. e \in CompositorType /\ SameUpdates(c, e) /\ SameFrame(c, e, o)
      /\ (LoopRequested(c, e, o) \/ SameLoop(c, e, o))
      /\ e.output[o].damage = c.output[o].damage
  <2>1. CASE drm.current = NoFb
    BY <1>5, <2>1, OneOutput, ScheduleRepaintFacts DEF LoopAsked, e
  <2>2. CASE drm.current # NoFb
    BY <1>5, <2>2 DEF SameUpdates, SameFrame, SameLoop, e
  <2> QED BY <2>1, <2>2
<1>8. ec' \in CompositorType /\ Damaged(e, ec', o)
  BY <1>4, <1>7, OneOutput, DamageAllFacts
<1>9. LoopOk(c)
  <2>1. SameFrame(ec, c, o) /\ SameLoop(ec, c, o)
    BY <1>5 DEF SameFrame, SameLoop
  <2> QED BY <1>2, <1>5, <2>1, LoopKept
<1>10. LoopOk(e)
  BY <1>5, <1>7, <1>9, LoopKept
<1>11. LoopOk(ec')
  BY <1>7, <1>8, <1>10, LoopKept DEF Damaged, LoopAsked
<1>12. PICK new \in SUBSET e.surface[o].content :
         ec'.output[o].damage = e.output[o].damage \cup new
  BY <1>8 DEF Damaged
<1>13. /\ SameUpdates(ec, ec') /\ e.surface = ec.surface
       /\ ec'.output[o].feedback_list = ec.output[o].feedback_list
       /\ ec'.output[o].backend = ec.output[o].backend
       /\ e.output[o].damage = ec.output[o].damage
  BY <1>5, <1>7, <1>8 DEF SameUpdates, SameFrame, Damaged
<1>14. /\ ec'.surface = ec.surface /\ ec'.commits = ec.commits
       /\ ec'.presented = ec.presented
  BY <1>13 DEF SameUpdates
<1>15. LifeOk(ec', shown)
  BY <1>2, <1>12, <1>13, <1>14 DEF LifeOk
<1>16. ShownOk(ec', shown)
  BY <1>2, <1>12, <1>13, <1>14 DEF ShownOk
<1>17. Backend(ec').failed = Backend(ec).failed
  BY <1>13 DEF Backend
<1>18. active' \in BOOLEAN /\ prev_state' \in {"ACTIVE", "IDLE", "OFFSCREEN", "SLEEPING"}
  BY <1>1, <1>3
<1> QED BY <1>1, <1>8, <1>11, <1>13, <1>15, <1>16, <1>17, <1>18, QuietDone
-----------------------------------------------------------------------------
LEMMA NewCompositorFacts ==
  LET c == NewCompositor
  IN /\ c \in CompositorType /\ c.output[o] = NewOutput /\ c.surface[o] = NewSurface
     /\ c.commits = 0 /\ c.presented = {} /\ c.discarded = {} /\ c.state = "ACTIVE"
     /\ c.assertFailed = FALSE
<1>1. NewOutput \in OutputType
  <2> DEFINE b == [current |-> NoFb, next |-> NoFb, rendered |-> {},
                   page_flip_pending |-> FALSE, vblank_pending |-> FALSE,
                   destroy_pending |-> FALSE,
                   sprite_current |-> FALSE, sprite_next |-> FALSE,
                   flip |-> "none", vblank |-> FALSE,
                   failed |-> FALSE, unanswered |-> FALSE]
  <2>1. b \in BackendRec
    BY DEF BackendRec, NoFb
  <2>2. NewOutput = [repaint_needed |-> FALSE, repaint_scheduled |-> FALSE,
                     idle_repaints |-> 0, repaint_timer |-> FALSE, destroying |-> FALSE,
                     feedback_list |-> {}, damage |-> {}, backend |-> b]
    BY DEF NewOutput
  <2>3. OutputType =
          [repaint_needed : BOOLEAN, repaint_scheduled : BOOLEAN,
           idle_repaints : Nat, repaint_timer : BOOLEAN, destroying : BOOLEAN,
           feedback_list : SUBSET Commits, damage : SUBSET Commits,
           backend : BackendRec]
    BY DEF OutputType, BackendRec, Commits
  <2> HIDE DEF b
  <2> QED BY <2>1, <2>2, <2>3
<1>2. NewSurface \in SurfaceType
  BY DEF NewSurface, SurfaceType
<1>3. 0 \in 0 .. MaxCommits
  BY DrmOutputAssumption
<1>4. NewCompositor \in CompositorType
  BY <1>1, <1>2, <1>3 DEF NewCompositor, CompositorType
<1> QED BY <1>4, OneOutput DEF NewCompositor

\* The output as it is created
LEMMA InitFacts ==
  ASSUME Init
  PROVE  /\ ec \in CompositorType /\ LoopAsked(NewCompositor, ec, o)
         /\ SameUpdates(NewCompositor, ec) /\ SameFrame(NewCompositor, ec, o)
         /\ ec.surface[o] = NewSurface /\ ec.commits = 0 /\ ec.presented = {}
         /\ ec.discarded = {} /\ ec.assertFailed = FALSE
         /\ out.feedback_list = {} /\ out.damage = {} /\ shown = {}
         /\ drm = NewOutput.backend /\ ~out.destroying /\ ~out.repaint_timer
         /\ out.idle_repaints = 1 /\ out.repaint_scheduled
<1>1. /\ ec \in CompositorType /\ Damaged(NewCompositor, ec, o)
      /\ LoopAsked(NewCompositor, ec, o)
  BY NewCompositorFacts, OneOutput, DamageAllFacts DEF Init
<1>2. /\ SameUpdates(NewCompositor, ec) /\ SameFrame(NewCompositor, ec, o)
      /\ \E new \in SUBSET NewCompositor.surface[o].content :
           ec.output[o].damage = NewCompositor.output[o].damage \cup new
  BY <1>1 DEF Damaged
<1>3. /\ NewSurface.content = {} /\ NewOutput.damage = {} /\ NewOutput.feedback_list = {}
      /\ ~NewOutput.destroying /\ ~NewOutput.repaint_timer
      /\ NewOutput.idle_repaints = 0 /\ ~NewOutput.repaint_scheduled
  BY DEF NewSurface, NewOutput
<1>4. /\ ec.surface[o] = NewSurface /\ ec.commits = 0 /\ ec.presented = {}
      /\ ec.discarded = {} /\ ec.assertFailed = FALSE
  BY <1>2, NewCompositorFacts DEF SameUpdates
<1>5. /\ out.feedback_list = {} /\ drm = NewOutput.backend
      /\ ~out.destroying /\ ~out.repaint_timer
  BY <1>2, <1>3, NewCompositorFacts DEF SameFrame, out, drm
<1>6. out.damage = {}
  BY <1>2, <1>3, NewCompositorFacts DEF out
<1>7. out.idle_repaints = 1 /\ out.repaint_scheduled
  BY <1>1, <1>3, NewCompositorFacts DEF LoopAsked, LoopRequested, Awake, out
<1> QED BY <1>1, <1>2, <1>4, <1>5, <1>6, <1>7 DEF Init

LEMMA InitInv == Init => IInv
<1> SUFFICES ASSUME Init PROVE IInv
  OBVIOUS
<1>1. /\ drm.flip = "none" /\ ~drm.vblank /\ ~drm.vblank_pending
      /\ ~drm.page_flip_pending /\ ~drm.destroy_pending
      /\ drm.next = {} /\ drm.rendered = {}
  BY InitFacts DEF NewOutput, NoFb
<1>2. NewSurface.content = {} /\ NewSurface.damage = {}
      /\ NewSurface.frame_callback_list = {} /\ NewSurface.feedback_list = {}
  BY DEF NewSurface
<1>3. LoopOk(ec)
  <2>1. FlagsOk(ec)
    BY <1>1, InitFacts DEF FlagsOk, Backend, drm, out
  <2>2. Continuations(ec) = 1
    BY <1>1, InitFacts DEF Continuations, Backend, drm, out
  <2> QED BY <2>1, <2>2, InitFacts DEF LoopOk, out
<1>4. LifeOk(ec, shown)
  BY <1>1, <1>2, InitFacts DEF LifeOk, Content, drm, out
<1>5. ShownOk(ec, shown)
  BY <1>1, <1>2, InitFacts DEF ShownOk, Content, drm, out
<1>6. TypeOK
  BY InitFacts DEF TypeOK, Init
<1> QED BY <1>1, <1>3, <1>4, <1>5, <1>6, InitFacts DEF IInv

\* Every step keeps the invariant and is a step of UpdateLife or stutters
LEMMA NextStep ==
  IInv /\ [Next]_vars => IInv' /\ [Updates!Next]_(Updates!uvars)
<1> SUFFICES ASSUME IInv, [Next]_vars
             PROVE  IInv' /\ [Updates!Next]_(Updates!uvars)
  OBVIOUS
<1>1. CASE Handlers /\ History
  <2>1. CASE ClientCommit
    BY <1>1, <2>1, ClientCommitStep DEF Updates!Next
  <2>2. CASE RepaintTimer
    BY <1>1, <2>2, RepaintTimerStep
  <2>3. CASE IdleRepaint
    BY <1>1, <2>3, IdleRepaintStep
  <2>4. CASE PageFlipEvent
    BY <1>1, <2>4, PageFlipEventStep
  <2>5. CASE VblankEvent
    BY <1>1, <2>5, VblankEventStep
  <2>6. CASE Unplug
    BY <1>1, <2>6, UnplugStep
  <2>7. CASE SessionOff
    BY <1>1, <2>7, SessionOffStep
  <2>8. CASE SessionOn
    BY <1>1, <2>8, SessionOnStep
  <2>9. CASE Power
    BY <1>1, <2>9, PowerStep
  <2> QED
    BY <1>1, <2>1, <2>2, <2>3, <2>4, <2>5, <2>6, <2>7, <2>8, <2>9, Zenon DEF Handlers
<1>2. CASE UNCHANGED vars
  <2>1. /\ ec' = ec /\ shown' = shown /\ active' = active /\ prev_state' = prev_state
        /\ gone' = gone /\ slept' = slept
    BY <1>2 DEF vars
  <2>2. TypeOK'
    BY <2>1, Zenon DEF IInv, TypeOK
  <2>3. LifeOk(ec', shown') /\ (Running' => LoopOk(ec') /\ ShownOk(ec', shown'))
    BY <2>1, Zenon DEF IInv, Running
  <2>4. /\ ~drm'.failed => ec'.presented \subseteq shown' /\ ~ec'.assertFailed
        /\ gone' => drm'.flip # "frame"
    BY <2>1 DEF IInv, drm, out
  <2>5. UNCHANGED Updates!uvars
    BY <2>1 DEF Updates!uvars, out
  <2> QED BY <2>2, <2>3, <2>4, <2>5 DEF IInv
<1> QED BY <1>1, <1>2, Zenon DEF Next, Stopped

\* The invariant holds at the start and is kept
THEOREM Invariance == Spec => []IInv
<1>1. Init => IInv
  BY InitInv
<1>2. IInv /\ [Next]_vars => IInv'
  BY NextStep
<1> QED BY <1>1, <1>2, PTL DEF Spec

\* Whatever repaint fails, sleeps or is overtaken by a VT switch, exactly one
\* continuation of the loop exists while it is scheduled, and no flip of a frame
\* is under way when the output is freed
THEOREM LoopIsOne == Spec => []OneLoop
<1>1. IInv => OneLoop
  <2> SUFFICES ASSUME IInv PROVE OneLoop
    OBVIOUS
  <2>1. TypeOK /\ FrameFlipLandsFirst
    BY DEF IInv, FrameFlipLandsFirst
  <2>2. ASSUME Running PROVE FlagsOk(ec) /\ LoopOk(ec)
    BY <2>2 DEF IInv, LoopOk
  <2>3. PendingFlagsTrue
    BY <2>2 DEF PendingFlagsTrue, FlagsOk, Backend, drm, out
  <2>4. OneContinuation
    <3> SUFFICES ASSUME Running, ~drm.unanswered
                 PROVE  Tokens = (IF out.repaint_scheduled THEN 1 ELSE 0)
      BY DEF OneContinuation
    <3>1. FlagsOk(ec) /\ LoopOk(ec) /\ Backend(ec) = drm
      BY <2>2 DEF Backend, drm, out
    <3>2. drm.vblank <=> drm.vblank_pending
      BY <3>1 DEF FlagsOk
    <3>3. Tokens = Continuations(ec)
      BY <3>1, <3>2 DEF Tokens, Continuations, out
    <3> QED BY <3>1, <3>3 DEF LoopOk, out
  <2> QED BY <2>1, <2>3, <2>4 DEF OneLoop
<1> QED BY <1>1, Invariance, PTL

\* As long as no repaint fails, what a client is told was presented was on the
\* screen, and the compositor's assertion on presenting holds
THEOREM PresentedIsShown == Spec => []PresentedWasDisplayed
<1>1. IInv => PresentedWasDisplayed
  BY DEF IInv, PresentedWasDisplayed, PresentAssertion
<1> QED BY <1>1, Invariance, PTL

\* The frame callbacks, feedback and pictures of the output live as UpdateLife
\* says, through failed repaints, VT switches and the output's end, for any
\* number of commits
THEOREM Refinement == Spec => ImplementsUpdates
<1>1. Init => Updates!Init
  <2>1. NewSurface.frame_callback_list = {} /\ NewSurface.feedback_list = {}
    BY DEF NewSurface
  <2> QED BY <2>1, InitFacts DEF Updates!Init
<1>2. IInv /\ [Next]_vars => [Updates!Next]_(Updates!uvars)
  BY NextStep
<1> QED BY <1>1, <1>2, Invariance, PTL DEF Spec, ImplementsUpdates, Updates!Spec
=============================================================================
