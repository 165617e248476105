----------------------------- MODULE RepaintLemmas -----------------------------
(***************************************************************************)
(* What each function of RepaintCore does to the compositor record, field  *)
(* by field, for any outputs and any backend.                              *)
(***************************************************************************)
EXTENDS RepaintCore, TLAPS

\* d and c agree on the updates of all outputs, as their clients see them.
SameUpdates(c, d) ==
  /\ d.surface = c.surface /\ d.commits = c.commits
  /\ d.called = c.called /\ d.presented = c.presented
  /\ d.discarded = c.discarded /\ d.assertFailed = c.assertFailed

\* d and c agree on the frame under way on the output.
SameFrame(c, d, o) ==
  /\ d.output[o].feedback_list = c.output[o].feedback_list
  /\ d.output[o].backend = c.output[o].backend
  /\ d.output[o].destroying = c.output[o].destroying
  /\ d.output[o].repaint_timer = c.output[o].repaint_timer

\* d and c agree on the repaint loop of the output.
SameLoop(c, d, o) ==
  /\ d.output[o].repaint_needed = c.output[o].repaint_needed
  /\ d.output[o].repaint_scheduled = c.output[o].repaint_scheduled
  /\ d.output[o].idle_repaints = c.output[o].idle_repaints
  /\ d.input_loop_source = c.input_loop_source

\* d comes from c by asking the loop of the output for a repaint.
LoopRequested(c, d, o) ==
  /\ d.output[o].repaint_needed /\ d.output[o].repaint_scheduled
  /\ IF c.output[o].repaint_scheduled
     THEN /\ d.output[o].idle_repaints = c.output[o].idle_repaints
          /\ d.input_loop_source = c.input_loop_source
     ELSE /\ d.output[o].idle_repaints = c.output[o].idle_repaints + 1
          /\ ~d.input_loop_source

\* The same, if repaints may be scheduled.
LoopAsked(c, d, o) ==
  IF Awake(c) THEN LoopRequested(c, d, o) ELSE SameLoop(c, d, o)

\* The parts of a compositor record
LEMMA CompositorFields ==
  ASSUME NEW c \in CompositorType, NEW o \in Outputs
  PROVE  /\ c.output[o] \in OutputType /\ c.surface[o] \in SurfaceType
         /\ c.output \in [Outputs -> OutputType] /\ c.surface \in [Outputs -> SurfaceType]
         /\ c.commits \in 0 .. MaxCommits
         /\ c.called \in SUBSET Commits /\ c.presented \in SUBSET Commits
         /\ c.discarded \in SUBSET Commits
         /\ c.state \in {"ACTIVE", "IDLE", "OFFSCREEN", "SLEEPING"}
         /\ c.input_loop_source \in BOOLEAN /\ c.idle_source \in BOOLEAN
         /\ c.assertFailed \in BOOLEAN
BY DEF CompositorType

\* The parts of an output record
LEMMA OutputFields ==
  ASSUME NEW x \in OutputType
  PROVE  /\ x.repaint_needed \in BOOLEAN /\ x.repaint_scheduled \in BOOLEAN
         /\ x.idle_repaints \in Nat /\ x.repaint_timer \in BOOLEAN
         /\ x.destroying \in BOOLEAN /\ x.feedback_list \in SUBSET Commits
         /\ x.damage \in SUBSET Commits /\ x.backend \in BackendType
BY DEF OutputType

\* The parts of a surface record
LEMMA SurfaceFields ==
  ASSUME NEW s \in SurfaceType
  PROVE  /\ s.content \in SUBSET Commits /\ s.damage \in SUBSET Commits
         /\ s.frame_callback_list \in SUBSET Commits
         /\ s.feedback_list \in SUBSET Commits
BY DEF SurfaceType

\* The compositor with x for its output o
WithOutput(c, o, x) == [c EXCEPT !.output[o] = x]

LEMMA WithOutputFacts ==
  ASSUME NEW c \in CompositorType, NEW o \in Outputs, NEW x \in OutputType
  PROVE  LET d == WithOutput(c, o, x)
         IN /\ d \in CompositorType /\ d.output[o] = x
            /\ SameUpdates(c, d) /\ d.input_loop_source = c.input_loop_source
            /\ d.state = c.state /\ d.idle_source = c.idle_source
<1> DEFINE d == WithOutput(c, o, x)
<1>1. d \in CompositorType
  BY Zenon DEF CompositorType, WithOutput
<1>2. d.output[o] = x /\ d.input_loop_source = c.input_loop_source
  BY DEF CompositorType, WithOutput
<1>3. SameUpdates(c, d) /\ d.state = c.state /\ d.idle_source = c.idle_source
  BY DEF CompositorType, SameUpdates, WithOutput
<1> QED BY <1>1, <1>2, <1>3

\* The same, the input source added
InputAdded(c, o, x) == [c EXCEPT !.output[o] = x, !.input_loop_source = TRUE]

LEMMA InputAddedFacts ==
  ASSUME NEW c \in CompositorType, NEW o \in Outputs, NEW x \in OutputType
  PROVE  LET d == InputAdded(c, o, x)
         IN /\ d \in CompositorType /\ d.output[o] = x
            /\ SameUpdates(c, d) /\ d.input_loop_source = TRUE
            /\ d.state = c.state /\ d.idle_source = c.idle_source
<1> DEFINE d == InputAdded(c, o, x)
<1>1. d \in CompositorType
  BY Zenon DEF CompositorType, InputAdded
<1>2. d.output[o] = x /\ d.input_loop_source = TRUE
  BY DEF CompositorType, InputAdded
<1>3. SameUpdates(c, d) /\ d.state = c.state /\ d.idle_source = c.idle_source
  BY DEF CompositorType, SameUpdates, InputAdded
<1> QED BY <1>1, <1>2, <1>3

\* The same, the input source removed
InputRemoved(c, o, x) == [c EXCEPT !.output[o] = x, !.input_loop_source = FALSE]

\* weston_output_schedule_repaint
LEMMA ScheduleRepaintFacts ==
  ASSUME NEW c \in CompositorType, NEW o \in Outputs
  PROVE  LET d == ScheduleRepaint(c, o)
         IN /\ d \in CompositorType
            /\ SameUpdates(c, d) /\ SameFrame(c, d, o) /\ LoopAsked(c, d, o)
            /\ d.output[o].damage = c.output[o].damage
            /\ d.state = c.state /\ d.idle_source = c.idle_source
<1> DEFINE x == c.output[o]
           d == ScheduleRepaint(c, o)
<1>1. x \in OutputType /\ x.idle_repaints + 1 \in Nat
  BY CompositorFields, OutputFields
<1>2. CASE ~Awake(c)
  BY <1>2 DEF ScheduleRepaint, SameUpdates, SameFrame, LoopAsked, LoopRequested, SameLoop
<1>3. CASE Awake(c) /\ x.repaint_scheduled
  <2> DEFINE y == [x EXCEPT !.repaint_needed = TRUE]
  <2>1. d = WithOutput(c, o, y)
    BY <1>3 DEF ScheduleRepaint, WithOutput
  <2>2. y \in OutputType
    BY <1>1, Zenon DEF OutputType
  <2>3. /\ y.repaint_needed /\ y.repaint_scheduled = x.repaint_scheduled
        /\ y.idle_repaints = x.idle_repaints /\ y.repaint_timer = x.repaint_timer
        /\ y.destroying = x.destroying /\ y.feedback_list = x.feedback_list
        /\ y.damage = x.damage /\ y.backend = x.backend
    BY <1>1 DEF OutputType
  <2> HIDE DEF d, y
  <2>4. /\ d \in CompositorType /\ d.output[o] = y /\ SameUpdates(c, d)
        /\ d.input_loop_source = c.input_loop_source
        /\ d.state = c.state /\ d.idle_source = c.idle_source
    BY <2>1, <2>2, WithOutputFacts
  <2> QED BY <1>3, <2>3, <2>4 DEF SameFrame, LoopAsked, LoopRequested, d
<1>4. CASE Awake(c) /\ ~x.repaint_scheduled
  <2> DEFINE y == Requested(x)
  <2>1. d = InputRemoved(c, o, y)
    BY <1>4 DEF ScheduleRepaint, InputRemoved
  <2>2. y \in OutputType
    BY <1>1, Zenon DEF OutputType, Requested
  <2>3. /\ y.repaint_needed /\ y.repaint_scheduled
        /\ y.idle_repaints = x.idle_repaints + 1 /\ y.repaint_timer = x.repaint_timer
        /\ y.destroying = x.destroying /\ y.feedback_list = x.feedback_list
        /\ y.damage = x.damage /\ y.backend = x.backend
    BY <1>1 DEF OutputType, Requested
  <2> HIDE DEF d, y
  <2>4. d \in CompositorType
    BY <2>1, <2>2, Zenon DEF CompositorType, InputRemoved
  <2>5. d.output[o] = y /\ d.input_loop_source = FALSE
    BY <2>1 DEF CompositorType, InputRemoved
  <2>6. SameUpdates(c, d) /\ d.state = c.state /\ d.idle_source = c.idle_source
    BY <2>1 DEF CompositorType, SameUpdates, InputRemoved
  <2> QED BY <1>4, <2>3, <2>4, <2>5, <2>6 DEF SameFrame, LoopAsked, LoopRequested, d
<1> QED BY <1>2, <1>3, <1>4

\* weston_output_schedule_repaint_reset
LEMMA ScheduleResetFacts ==
  ASSUME NEW c \in CompositorType, NEW o \in Outputs
  PROVE  LET d == ScheduleReset(c, o)
         IN /\ d \in CompositorType
            /\ SameUpdates(c, d) /\ SameFrame(c, d, o)
            /\ d.output[o].repaint_scheduled = FALSE
            /\ d.input_loop_source = TRUE
            /\ d.output[o].repaint_needed = c.output[o].repaint_needed
            /\ d.output[o].idle_repaints = c.output[o].idle_repaints
            /\ d.output[o].damage = c.output[o].damage
            /\ d.state = c.state /\ d.idle_source = c.idle_source
<1> DEFINE x == c.output[o]
           y == [x EXCEPT !.repaint_scheduled = FALSE]
           d == ScheduleReset(c, o)
<1>1. x \in OutputType
  BY CompositorFields
<1>2. d = InputAdded(c, o, y)
  BY DEF ScheduleReset, InputAdded
<1>3. y \in OutputType
  BY <1>1, Zenon DEF OutputType
<1>4. /\ y.repaint_scheduled = FALSE
      /\ y.repaint_needed = x.repaint_needed
      /\ y.idle_repaints = x.idle_repaints /\ y.repaint_timer = x.repaint_timer
      /\ y.destroying = x.destroying /\ y.feedback_list = x.feedback_list
      /\ y.damage = x.damage /\ y.backend = x.backend
  BY <1>1 DEF OutputType
<1> HIDE DEF d, y
<1>5. /\ d \in CompositorType /\ d.output[o] = y /\ SameUpdates(c, d)
      /\ d.input_loop_source = TRUE
      /\ d.state = c.state /\ d.idle_source = c.idle_source
  BY <1>2, <1>3, InputAddedFacts
<1> QED BY <1>4, <1>5 DEF SameFrame, d

\* The compositor after a commit whose surface is s
Committed(c, o, n, discarded, s) ==
  [c EXCEPT !.commits = n, !.discarded = discarded, !.surface[o] = s]

LEMMA CommittedFacts ==
  ASSUME NEW c \in CompositorType, NEW o \in Outputs, NEW n \in 0 .. MaxCommits,
         NEW q \in SUBSET Commits, NEW s \in SurfaceType
  PROVE  LET d == Committed(c, o, n, q, s)
         IN /\ d \in CompositorType
            /\ d.commits = n /\ d.discarded = q /\ d.surface[o] = s
            /\ d.output = c.output /\ d.called = c.called
            /\ d.presented = c.presented /\ d.assertFailed = c.assertFailed
            /\ d.input_loop_source = c.input_loop_source
            /\ d.state = c.state /\ d.idle_source = c.idle_source
<1> DEFINE d == Committed(c, o, n, q, s)
<1>1. d \in CompositorType
  BY Zenon DEF CompositorType, Committed
<1>2. d.commits = n /\ d.discarded = q /\ d.surface[o] = s
  BY DEF CompositorType, Committed
<1>3. /\ d.output = c.output /\ d.called = c.called
      /\ d.presented = c.presented /\ d.assertFailed = c.assertFailed
      /\ d.input_loop_source = c.input_loop_source
      /\ d.state = c.state /\ d.idle_source = c.idle_source
  BY DEF CompositorType, Committed
<1> QED BY <1>1, <1>2, <1>3

\* weston_surface_commit
LEMMA CommitFacts ==
  ASSUME NEW c \in CompositorType, NEW o \in Outputs, NEW newBuffer \in BOOLEAN,
         MaxCommits \in Nat, c.commits < MaxCommits
  PROVE  LET d == Commit(c, o, newBuffer)
             n == c.commits + 1
             s == c.surface[o]
             t == d.surface[o]
         IN /\ d \in CompositorType /\ d.commits = n
            /\ \E dropped \in {{}, s.feedback_list} :
                 /\ d.discarded = c.discarded \cup dropped
                 /\ t.feedback_list = (s.feedback_list \ dropped) \cup {n}
            /\ t.frame_callback_list = s.frame_callback_list \cup {n}
            /\ t.damage = s.damage \cup {n} /\ t.content = s.content \cup {n}
            /\ d.called = c.called /\ d.presented = c.presented
            /\ d.assertFailed = c.assertFailed
            /\ SameFrame(c, d, o) /\ LoopAsked(c, d, o)
            /\ d.output[o].damage = c.output[o].damage
            /\ d.state = c.state /\ d.idle_source = c.idle_source
<1> DEFINE s == c.surface[o]
           n == c.commits + 1
           dropped == IF newBuffer THEN s.feedback_list ELSE {}
           q == c.discarded \cup dropped
           t == Updated(s, n, dropped)
           e == Committed(c, o, n, q, t)
           d == Commit(c, o, newBuffer)
<1>1. s \in SurfaceType
  BY CompositorFields
<1>2. n \in 0 .. MaxCommits /\ n \in Commits
  BY CompositorFields DEF Commits
<1>3. dropped \in {{}, s.feedback_list} /\ dropped \in SUBSET Commits
  BY <1>1, SurfaceFields
<1>4. q \in SUBSET Commits
  BY <1>3, CompositorFields
<1>5. t \in SurfaceType
  BY <1>1, <1>2, SurfaceFields DEF Updated, SurfaceType
<1>6. /\ t.feedback_list = (s.feedback_list \ dropped) \cup {n}
      /\ t.frame_callback_list = s.frame_callback_list \cup {n}
      /\ t.damage = s.damage \cup {n} /\ t.content = s.content \cup {n}
  BY DEF Updated
<1>7. d = ScheduleRepaint(e, o)
  BY DEF Commit, Committed
<1> HIDE DEF s, n, dropped, q, t, e, d
<1>8. /\ e \in CompositorType
      /\ e.commits = n /\ e.discarded = q /\ e.surface[o] = t
      /\ e.output = c.output /\ e.called = c.called
      /\ e.presented = c.presented /\ e.assertFailed = c.assertFailed
      /\ e.input_loop_source = c.input_loop_source
      /\ e.state = c.state /\ e.idle_source = c.idle_source
  BY <1>2, <1>4, <1>5, CommittedFacts DEF e
<1>9. /\ d \in CompositorType
      /\ SameUpdates(e, d) /\ SameFrame(e, d, o) /\ LoopAsked(e, d, o)
      /\ d.output[o].damage = e.output[o].damage
      /\ d.state = e.state /\ d.idle_source = e.idle_source
  BY <1>7, <1>8, ScheduleRepaintFacts
<1>10. SameFrame(c, d, o) /\ LoopAsked(c, d, o)
  BY <1>8, <1>9 DEF SameFrame, LoopAsked, LoopRequested, SameLoop, Awake
<1> QED
  BY <1>3, <1>6, <1>8, <1>9, <1>10 DEF SameUpdates, d, n, s, q

\* The compositor after the output took what the surface holds
Taken(c, o, x, s) == [c EXCEPT !.surface[o] = s, !.output[o] = x]

LEMMA TakenFacts ==
  ASSUME NEW c \in CompositorType, NEW o \in Outputs,
         NEW x \in OutputType, NEW s \in SurfaceType
  PROVE  LET d == Taken(c, o, x, s)
         IN /\ d \in CompositorType /\ d.output[o] = x /\ d.surface[o] = s
            /\ d.commits = c.commits /\ d.discarded = c.discarded
            /\ d.called = c.called
            /\ d.presented = c.presented /\ d.assertFailed = c.assertFailed
            /\ d.input_loop_source = c.input_loop_source
            /\ d.state = c.state /\ d.idle_source = c.idle_source
<1> DEFINE d == Taken(c, o, x, s)
<1>1. d \in CompositorType
  BY Zenon DEF CompositorType, Taken
<1>2. d.output[o] = x /\ d.surface[o] = s
  BY DEF CompositorType, Taken
<1>3. /\ d.commits = c.commits /\ d.discarded = c.discarded
      /\ d.called = c.called
      /\ d.presented = c.presented /\ d.assertFailed = c.assertFailed
      /\ d.input_loop_source = c.input_loop_source
      /\ d.state = c.state /\ d.idle_source = c.idle_source
  BY DEF CompositorType, Taken
<1> QED BY <1>1, <1>2, <1>3

\* The compositor after frame callbacks were answered
CallbacksCalled(c, o, x, q) == [c EXCEPT !.output[o] = x, !.called = q]

LEMMA CallbacksCalledFacts ==
  ASSUME NEW c \in CompositorType, NEW o \in Outputs,
         NEW x \in OutputType, NEW q \in SUBSET Commits
  PROVE  LET d == CallbacksCalled(c, o, x, q)
         IN /\ d \in CompositorType /\ d.output[o] = x /\ d.called = q
            /\ d.surface = c.surface
            /\ d.commits = c.commits /\ d.discarded = c.discarded
            /\ d.presented = c.presented /\ d.assertFailed = c.assertFailed
            /\ d.input_loop_source = c.input_loop_source
            /\ d.state = c.state /\ d.idle_source = c.idle_source
<1> DEFINE d == CallbacksCalled(c, o, x, q)
<1>1. d \in CompositorType
  BY Zenon DEF CompositorType, CallbacksCalled
<1>2. d.output[o] = x /\ d.called = q
  BY DEF CompositorType, CallbacksCalled
<1>3. /\ d.surface = c.surface
      /\ d.commits = c.commits /\ d.discarded = c.discarded
      /\ d.presented = c.presented /\ d.assertFailed = c.assertFailed
      /\ d.input_loop_source = c.input_loop_source
      /\ d.state = c.state /\ d.idle_source = c.idle_source
  BY DEF CompositorType, CallbacksCalled
<1> QED BY <1>1, <1>2, <1>3

\* weston_compositor_sleep
LEMMA SleepFacts ==
  ASSUME NEW c \in CompositorType
  PROVE  LET d == Sleep(c)
         IN /\ d \in CompositorType
            /\ SameUpdates(c, d) /\ d.output = c.output
            /\ d.input_loop_source = c.input_loop_source
            /\ d.state = "SLEEPING" /\ ~Awake(d)
<1> DEFINE d == Sleep(c)
<1>1. d \in CompositorType
  BY Zenon DEF Sleep, CompositorType
<1>2. /\ SameUpdates(c, d) /\ d.output = c.output
      /\ d.input_loop_source = c.input_loop_source
      /\ d.state = "SLEEPING"
  BY DEF Sleep, CompositorType, SameUpdates
<1> QED BY <1>1, <1>2 DEF Awake

\* weston_compositor_offscreen
LEMMA OffscreenFacts ==
  ASSUME NEW c \in CompositorType
  PROVE  LET d == Offscreen(c)
         IN /\ d \in CompositorType
            /\ SameUpdates(c, d) /\ d.output = c.output
            /\ d.input_loop_source = c.input_loop_source
            /\ d.state = "OFFSCREEN" /\ ~Awake(d)
<1> DEFINE d == Offscreen(c)
<1>1. d \in CompositorType
  BY Zenon DEF Offscreen, CompositorType
<1>2. /\ SameUpdates(c, d) /\ d.output = c.output
      /\ d.input_loop_source = c.input_loop_source
      /\ d.state = "OFFSCREEN"
  BY DEF Offscreen, CompositorType, SameUpdates
<1> QED BY <1>1, <1>2 DEF Awake

\* weston_output_repaint up to output->repaint
LEMMA TakeFrameFacts ==
  ASSUME NEW c \in CompositorType, NEW o \in Outputs
  PROVE  LET d == TakeFrame(c, o)
             s == c.surface[o]
             t == d.surface[o]
             x == c.output[o]
             y == d.output[o]
         IN /\ d \in CompositorType /\ SameLoop(c, d, o)
            /\ t.content = s.content /\ t.damage = {}
            /\ t.frame_callback_list = {} /\ t.feedback_list = {}
            /\ y.feedback_list = x.feedback_list \cup s.feedback_list
            /\ y.damage = x.damage \cup s.damage
            /\ y.backend = x.backend /\ y.destroying = x.destroying
            /\ y.repaint_timer = x.repaint_timer
            /\ d.commits = c.commits /\ d.discarded = c.discarded
            /\ d.called = c.called
            /\ d.presented = c.presented /\ d.assertFailed = c.assertFailed
            /\ d.state = c.state /\ d.idle_source = c.idle_source
<1> DEFINE s == c.surface[o]
           x == c.output[o]
           t == [NewSurface EXCEPT !.content = s.content]
           y == Spliced(x, s)
           d == TakeFrame(c, o)
<1>1. s \in SurfaceType /\ x \in OutputType
  BY CompositorFields
<1>2. s.content \in SUBSET Commits
  BY <1>1, SurfaceFields
<1>3. /\ x.feedback_list \cup s.feedback_list \in SUBSET Commits
      /\ x.damage \cup s.damage \in SUBSET Commits
  BY <1>1, SurfaceFields, OutputFields
<1>4. t = [content |-> s.content, damage |-> {}, frame_callback_list |-> {},
           feedback_list |-> {}]
  BY DEF NewSurface
<1>5. t \in SurfaceType
  BY <1>2, <1>4 DEF SurfaceType
<1>6. y \in OutputType
  BY <1>1, <1>3, Zenon DEF OutputType, Spliced
<1>7. /\ y.feedback_list = x.feedback_list \cup s.feedback_list
      /\ y.damage = x.damage \cup s.damage
      /\ y.backend = x.backend /\ y.destroying = x.destroying
      /\ y.repaint_timer = x.repaint_timer
      /\ y.repaint_needed = x.repaint_needed
      /\ y.repaint_scheduled = x.repaint_scheduled
      /\ y.idle_repaints = x.idle_repaints
  BY <1>1 DEF OutputType, Spliced
<1>8. d = Taken(c, o, y, t)
  BY DEF TakeFrame, Taken
<1>9. /\ t.content = s.content /\ t.damage = {}
      /\ t.frame_callback_list = {} /\ t.feedback_list = {}
  BY <1>4
<1> HIDE DEF d, y, t
<1>10. /\ d \in CompositorType /\ d.output[o] = y /\ d.surface[o] = t
       /\ d.commits = c.commits /\ d.discarded = c.discarded
       /\ d.called = c.called
       /\ d.presented = c.presented /\ d.assertFailed = c.assertFailed
       /\ d.input_loop_source = c.input_loop_source
       /\ d.state = c.state /\ d.idle_source = c.idle_source
  BY <1>5, <1>6, <1>8, TakenFacts
<1> QED BY <1>7, <1>9, <1>10 DEF SameLoop, d

\* What the end of a repaint does to the loop
LoopEnded(c, d, o) ==
  LET x == c.output[o]
      y == d.output[o]
  IN /\ y.idle_repaints \in {x.idle_repaints, x.idle_repaints + 1}
     /\ x.repaint_scheduled =>
          y.repaint_scheduled /\ y.idle_repaints = x.idle_repaints
     /\ y.idle_repaints # x.idle_repaints => Awake(d)
     /\ y.repaint_scheduled =>
          x.repaint_scheduled \/ y.idle_repaints = x.idle_repaints + 1
     /\ c.input_loop_source \/ x.repaint_scheduled =>
          d.input_loop_source \/ y.repaint_scheduled

\* weston_output_repaint after output->repaint
LEMMA EndRepaintFacts ==
  ASSUME NEW c \in CompositorType, NEW o \in Outputs,
         NEW callbacks \in SUBSET Commits, NEW then \in Then
  PROVE  LET d == EndRepaint(c, o, callbacks, then)
         IN /\ d \in CompositorType
            /\ d.surface = c.surface /\ d.commits = c.commits
            /\ d.called = c.called \cup callbacks
            /\ d.presented = c.presented /\ d.discarded = c.discarded
            /\ d.assertFailed = c.assertFailed
            /\ SameFrame(c, d, o) /\ d.output[o].damage = c.output[o].damage
            /\ LoopEnded(c, d, o)
<1> DEFINE x == c.output[o]
           z == [x EXCEPT !.repaint_needed = FALSE]
           q == c.called \cup callbacks
           e == CallbacksCalled(c, o, z, q)
           d == EndRepaint(c, o, callbacks, then)
<1>1. x \in OutputType /\ q \in SUBSET Commits
  BY CompositorFields
<1>2. z \in OutputType
  BY <1>1, Zenon DEF OutputType
<1>3. /\ z.repaint_scheduled = x.repaint_scheduled
      /\ z.idle_repaints = x.idle_repaints /\ z.repaint_timer = x.repaint_timer
      /\ z.destroying = x.destroying /\ z.feedback_list = x.feedback_list
      /\ z.damage = x.damage /\ z.backend = x.backend
  BY <1>1 DEF OutputType
<1>4. d = CASE then = "nothing" -> e
            [] then = "schedule" -> ScheduleRepaint(e, o)
            [] then = "sleep" -> Sleep(e)
  BY DEF EndRepaint, CallbacksCalled
<1>5. x.idle_repaints \in Nat
  BY <1>1, OutputFields
<1> HIDE DEF d, z, q, e
<1>6. /\ e \in CompositorType /\ e.output[o] = z /\ e.called = q
      /\ e.surface = c.surface
      /\ e.commits = c.commits /\ e.discarded = c.discarded
      /\ e.presented = c.presented /\ e.assertFailed = c.assertFailed
      /\ e.input_loop_source = c.input_loop_source
      /\ e.state = c.state /\ e.idle_source = c.idle_source
  BY <1>1, <1>2, CallbacksCalledFacts DEF e
<1>7. CASE then = "nothing"
  <2>1. d = e
    BY <1>4, <1>7
  <2> QED BY <1>3, <1>5, <1>6, <2>1 DEF SameFrame, LoopEnded, d, q
<1>8. CASE then = "schedule"
  <2>1. d = ScheduleRepaint(e, o)
    BY <1>4, <1>8
  <2>2. /\ d \in CompositorType
        /\ SameUpdates(e, d) /\ SameFrame(e, d, o) /\ LoopAsked(e, d, o)
        /\ d.output[o].damage = e.output[o].damage
        /\ d.state = e.state /\ d.idle_source = e.idle_source
    BY <1>6, <2>1, ScheduleRepaintFacts
  <2>3. SameFrame(c, d, o)
    BY <1>3, <1>6, <2>2 DEF SameFrame
  <2>4. LoopEnded(c, d, o)
    BY <1>3, <1>5, <1>6, <2>2 DEF LoopEnded, LoopAsked, LoopRequested, SameLoop, Awake
  <2> QED BY <1>3, <1>6, <2>2, <2>3, <2>4 DEF SameUpdates, d, q
<1>9. CASE then = "sleep"
  <2>1. d = Sleep(e)
    BY <1>4, <1>9
  <2>2. /\ d \in CompositorType
        /\ SameUpdates(e, d) /\ d.output = e.output
        /\ d.input_loop_source = e.input_loop_source
    BY <1>6, <2>1, SleepFacts
  <2> QED BY <1>3, <1>5, <1>6, <2>2 DEF SameUpdates, SameFrame, LoopEnded, d, q
<1> QED BY <1>7, <1>8, <1>9 DEF Then

\* What a backend's repaint may answer
RepaintResult == [ok : BOOLEAN, damage : SUBSET Commits, backend : BackendType]

\* The output is repainted when its timer fires.
Repaints(c, o) ==
  c.output[o].repaint_needed /\ Awake(c) /\ ~c.output[o].destroying

\* d comes from c by the repaint of an output
Repainted(c, d, o, r) ==
  LET s == c.surface[o]
      t == d.surface[o]
  IN /\ t.content = s.content /\ t.damage = {}
     /\ t.frame_callback_list = {} /\ t.feedback_list = {}
     /\ d.output[o].feedback_list = c.output[o].feedback_list \cup s.feedback_list
     /\ d.output[o].damage = r.damage /\ d.output[o].backend = r.backend
     /\ d.called = c.called \cup s.frame_callback_list

\* d comes from c without one
NotRepainted(c, d, o) ==
  /\ d.surface = c.surface
  /\ d.output[o].feedback_list = c.output[o].feedback_list
  /\ d.output[o].damage = c.output[o].damage
  /\ d.output[o].backend = c.output[o].backend
  /\ d.called = c.called

\* What the handler of the repaint timer does to the loop
LoopTurned(c, d, o, r) ==
  LET x == c.output[o]
      y == d.output[o]
  IN /\ y.idle_repaints \in {x.idle_repaints, x.idle_repaints + 1}
     /\ x.repaint_scheduled => y.idle_repaints = x.idle_repaints
     /\ y.idle_repaints # x.idle_repaints => Awake(d)
     /\ y.repaint_scheduled =>
          x.repaint_scheduled \/ y.idle_repaints = x.idle_repaints + 1
     /\ c.input_loop_source \/ x.repaint_scheduled =>
          d.input_loop_source \/ y.repaint_scheduled
     /\ Repaints(c, o) /\ x.repaint_scheduled /\ r.ok => y.repaint_scheduled
     /\ Repaints(c, o) /\ ~r.ok => ~y.repaint_scheduled
     /\ ~(x.repaint_needed /\ Awake(c)) => ~y.repaint_scheduled

\* The part of an output that no repaint changes
SameLife(c, d, o) ==
  /\ d.output[o].destroying = c.output[o].destroying
  /\ d.output[o].repaint_timer = c.output[o].repaint_timer
  /\ d.commits = c.commits /\ d.presented = c.presented
  /\ d.discarded = c.discarded /\ d.assertFailed = c.assertFailed

\* output_repaint_timer_handler
LEMMA TimerHandlerFacts ==
  ASSUME NEW c \in CompositorType, NEW o \in Outputs,
         NEW r \in RepaintResult, NEW then \in Then
  PROVE  LET d == TimerHandler(c, o, r, then)
         IN /\ d \in CompositorType /\ SameLife(c, d, o) /\ LoopTurned(c, d, o, r)
            /\ IF Repaints(c, o) THEN Repainted(c, d, o, r)
                                 ELSE NotRepainted(c, d, o)
<1> DEFINE d == TimerHandler(c, o, r, then)
           x == c.output[o]
<1>1. x \in OutputType /\ c.surface[o] \in SurfaceType
  BY CompositorFields
<1>2. x.idle_repaints \in Nat /\ c.surface[o].frame_callback_list \in SUBSET Commits
  BY <1>1, OutputFields, SurfaceFields
<1>3. CASE x.repaint_needed /\ Awake(c) /\ x.destroying
  <2>1. d = c
    BY <1>3 DEF TimerHandler
  <2> HIDE DEF d
  <2> QED
    BY <1>2, <1>3, <2>1 DEF LoopTurned, SameLife, Repaints, NotRepainted, d
<1>4. CASE ~(x.repaint_needed /\ Awake(c))
  <2>1. d = ScheduleReset(c, o)
    BY <1>4 DEF TimerHandler
  <2> HIDE DEF d
  <2>2. /\ d \in CompositorType
        /\ SameUpdates(c, d) /\ SameFrame(c, d, o)
        /\ d.output[o].repaint_scheduled = FALSE
        /\ d.input_loop_source = TRUE
        /\ d.output[o].idle_repaints = c.output[o].idle_repaints
        /\ d.output[o].damage = c.output[o].damage
    BY <2>1, ScheduleResetFacts
  <2>3. LoopTurned(c, d, o, r)
    BY <1>2, <1>4, <2>2 DEF LoopTurned, Repaints
  <2> QED
    BY <1>4, <2>2, <2>3
    DEF SameLife, Repaints, NotRepainted, SameUpdates, SameFrame, d
<1>5. CASE Repaints(c, o)
  <2> DEFINE callbacks == c.surface[o].frame_callback_list
             f == TakeFrame(c, o)
             y == [f.output[o] EXCEPT !.damage = r.damage, !.backend = r.backend]
             p == WithOutput(f, o, y)
             e == EndRepaint(p, o, callbacks, then)
  <2>1. d = IF r.ok THEN e ELSE ScheduleReset(e, o)
    BY <1>5 DEF TimerHandler, WithOutput, Repaints
  <2> HIDE DEF d, f
  <2>2. /\ f \in CompositorType /\ SameLoop(c, f, o) /\ f.state = c.state
        /\ f.output[o].feedback_list
             = x.feedback_list \cup c.surface[o].feedback_list
        /\ f.output[o].destroying = x.destroying
        /\ f.output[o].repaint_timer = x.repaint_timer
        /\ f.commits = c.commits /\ f.discarded = c.discarded
        /\ f.called = c.called
        /\ f.presented = c.presented /\ f.assertFailed = c.assertFailed
    BY TakeFrameFacts DEF f
  <2>3. LET t == f.surface[o]
        IN /\ t.content = c.surface[o].content /\ t.damage = {}
           /\ t.frame_callback_list = {} /\ t.feedback_list = {}
    BY TakeFrameFacts DEF f
  <2>4. f.output[o] \in OutputType
    BY <2>2, CompositorFields
  <2>0. callbacks \in SUBSET Commits
    BY <1>2
  <2>5. r.damage \in SUBSET Commits /\ r.backend \in BackendType /\ r.ok \in BOOLEAN
    BY DEF RepaintResult
  <2>6. y \in OutputType
    BY <2>4, <2>5, Zenon DEF OutputType
  <2>7. /\ y.damage = r.damage /\ y.backend = r.backend
        /\ y.repaint_scheduled = f.output[o].repaint_scheduled
        /\ y.idle_repaints = f.output[o].idle_repaints
        /\ y.repaint_timer = f.output[o].repaint_timer
        /\ y.destroying = f.output[o].destroying
        /\ y.feedback_list = f.output[o].feedback_list
    BY <2>4 DEF OutputType
  <2> HIDE DEF y, p, e, callbacks
  <2>8. /\ p \in CompositorType /\ p.output[o] = y
        /\ SameUpdates(f, p) /\ p.input_loop_source = f.input_loop_source
        /\ p.state = f.state
    BY <2>2, <2>6, WithOutputFacts DEF p
  <2>9. /\ e \in CompositorType
        /\ e.surface = p.surface /\ e.commits = p.commits
        /\ e.called = p.called \cup callbacks
        /\ e.presented = p.presented /\ e.discarded = p.discarded
        /\ e.assertFailed = p.assertFailed
        /\ SameFrame(p, e, o) /\ e.output[o].damage = p.output[o].damage
    BY <2>0, <2>8, EndRepaintFacts DEF e
  <2>10. LoopEnded(c, e, o)
    <3>1. /\ p.output[o].repaint_scheduled = x.repaint_scheduled
          /\ p.output[o].idle_repaints = x.idle_repaints
          /\ p.input_loop_source = c.input_loop_source
      BY <2>2, <2>7, <2>8 DEF SameLoop
    <3>2. LoopEnded(p, e, o)
      BY <2>0, <2>8, EndRepaintFacts DEF e
    <3> QED BY <3>1, <3>2 DEF LoopEnded
  <2>11. SameLife(c, e, o) /\ Repainted(c, e, o, r)
    BY <2>2, <2>3, <2>7, <2>8, <2>9
    DEF SameLife, Repainted, SameUpdates, SameFrame, callbacks
  <2>12. CASE r.ok
    <3>1. d = e
      BY <2>1, <2>12
    <3>2. LoopTurned(c, d, o, r)
      BY <1>5, <2>10, <2>12, <3>1 DEF LoopTurned, LoopEnded, Repaints
    <3> QED BY <1>5, <2>9, <2>11, <3>1, <3>2 DEF d
  <2>13. CASE ~r.ok
    <3>1. d = ScheduleReset(e, o)
      BY <2>1, <2>13
    <3>2. /\ d \in CompositorType
          /\ SameUpdates(e, d) /\ SameFrame(e, d, o)
          /\ d.output[o].repaint_scheduled = FALSE
          /\ d.input_loop_source = TRUE
          /\ d.output[o].idle_repaints = e.output[o].idle_repaints
          /\ d.output[o].damage = e.output[o].damage
          /\ d.state = e.state
      BY <2>9, <3>1, ScheduleResetFacts
    <3>3. LoopTurned(c, d, o, r)
      BY <1>5, <2>10, <2>13, <3>2 DEF LoopTurned, LoopEnded, Repaints, Awake
    <3>4. SameLife(c, d, o) /\ Repainted(c, d, o, r)
      BY <2>11, <3>2 DEF SameLife, Repainted, SameUpdates, SameFrame
    <3> QED BY <1>5, <3>2, <3>3, <3>4 DEF d
  <2> QED BY <2>5, <2>12, <2>13
<1> QED BY <1>3, <1>4, <1>5 DEF Repaints

\* The compositor after the feedback of a frame was answered
FramePresented(c, o, x, q) == [c EXCEPT !.output[o] = x, !.presented = q]

LEMMA FramePresentedFacts ==
  ASSUME NEW c \in CompositorType, NEW o \in Outputs,
         NEW x \in OutputType, NEW q \in SUBSET Commits
  PROVE  LET d == FramePresented(c, o, x, q)
         IN /\ d \in CompositorType /\ d.output[o] = x /\ d.presented = q
            /\ d.surface = c.surface
            /\ d.commits = c.commits /\ d.discarded = c.discarded
            /\ d.called = c.called /\ d.assertFailed = c.assertFailed
            /\ d.input_loop_source = c.input_loop_source
            /\ d.state = c.state /\ d.idle_source = c.idle_source
<1> DEFINE d == FramePresented(c, o, x, q)
<1>1. d \in CompositorType
  BY Zenon DEF CompositorType, FramePresented
<1>2. d.output[o] = x /\ d.presented = q
  BY DEF CompositorType, FramePresented
<1>3. /\ d.surface = c.surface
      /\ d.commits = c.commits /\ d.discarded = c.discarded
      /\ d.called = c.called /\ d.assertFailed = c.assertFailed
      /\ d.input_loop_source = c.input_loop_source
      /\ d.state = c.state /\ d.idle_source = c.idle_source
  BY DEF CompositorType, FramePresented
<1> QED BY <1>1, <1>2, <1>3

\* d comes from c by presenting feedback of the output that must not be
AssertionFailed(c, d) ==
  /\ d.assertFailed = TRUE
  /\ d.output = c.output /\ d.surface = c.surface /\ d.commits = c.commits
  /\ d.called = c.called /\ d.presented = c.presented
  /\ d.discarded = c.discarded /\ d.input_loop_source = c.input_loop_source
  /\ d.state = c.state

\* d comes from c by the end of a frame, with its feedback answered
FrameEnded(c, d, o) ==
  /\ d.presented = c.presented \cup c.output[o].feedback_list
  /\ d.commits = c.commits /\ d.discarded = c.discarded
  /\ d.assertFailed = c.assertFailed
  /\ d.output[o].destroying = c.output[o].destroying

\* d comes from c by the end of a frame and the repaint that follows
NextRepainted(c, d, o, r) ==
  LET s == c.surface[o]
      t == d.surface[o]
  IN /\ t.content = s.content /\ t.damage = {}
     /\ t.frame_callback_list = {} /\ t.feedback_list = {}
     /\ d.output[o].feedback_list = s.feedback_list
     /\ d.output[o].damage = r.damage /\ d.output[o].backend = r.backend
     /\ d.called = c.called \cup s.frame_callback_list

\* d comes from c by the end of a frame which no repaint follows
NoneRepainted(c, d, o) ==
  /\ d.surface = c.surface /\ d.called = c.called
  /\ d.output[o].feedback_list = {}
  /\ d.output[o].damage = c.output[o].damage
  /\ d.output[o].backend = c.output[o].backend

\* d comes from c by weston_output_finish_frame
Finished(c, d, o, invalid, msec, r) ==
  IF invalid /\ c.output[o].feedback_list # {} THEN AssertionFailed(c, d)
  ELSE /\ FrameEnded(c, d, o)
       /\ IF msec < 1
          THEN /\ LoopTurned(c, d, o, r)
               /\ d.output[o].repaint_timer = c.output[o].repaint_timer
               /\ IF Repaints(c, o) THEN NextRepainted(c, d, o, r)
                                    ELSE NoneRepainted(c, d, o)
          ELSE /\ SameLoop(c, d, o) /\ d.output[o].repaint_timer = TRUE
               /\ NoneRepainted(c, d, o) /\ d.state = c.state

\* weston_output_finish_frame
LEMMA FinishFrameFacts ==
  ASSUME NEW c \in CompositorType, NEW o \in Outputs,
         NEW invalid \in BOOLEAN, NEW msec \in Int,
         NEW r \in RepaintResult, NEW then \in Then
  PROVE  LET d == FinishFrame(c, o, invalid, msec, r, then)
         IN d \in CompositorType /\ Finished(c, d, o, invalid, msec, r)
<1> DEFINE d == FinishFrame(c, o, invalid, msec, r, then)
           fails == invalid /\ c.output[o].feedback_list # {}
           x == c.output[o]
           y == [x EXCEPT !.feedback_list = {}]
           z == [y EXCEPT !.repaint_timer = TRUE]
           q == c.presented \cup x.feedback_list
           e == FramePresented(c, o, y, q)
<1>1. x \in OutputType /\ x.feedback_list \in SUBSET Commits /\ q \in SUBSET Commits
  BY CompositorFields, OutputFields
<1>2. y \in OutputType
  BY <1>1, Zenon DEF OutputType
<1>3. z \in OutputType
  BY <1>2, Zenon DEF OutputType
<1>4. /\ y.feedback_list = {} /\ y.repaint_needed = x.repaint_needed
      /\ y.repaint_scheduled = x.repaint_scheduled
      /\ y.idle_repaints = x.idle_repaints /\ y.repaint_timer = x.repaint_timer
      /\ y.destroying = x.destroying /\ y.damage = x.damage
      /\ y.backend = x.backend
  BY <1>1 DEF OutputType
<1>5. /\ z.feedback_list = {} /\ z.repaint_needed = x.repaint_needed
      /\ z.repaint_scheduled = x.repaint_scheduled
      /\ z.idle_repaints = x.idle_repaints /\ z.repaint_timer = TRUE
      /\ z.destroying = x.destroying /\ z.damage = x.damage
      /\ z.backend = x.backend
  BY <1>1, <1>2 DEF OutputType
<1>6. CASE fails
  <2>1. d = [c EXCEPT !.assertFailed = TRUE]
    BY <1>6 DEF FinishFrame
  <2>2. [c EXCEPT !.assertFailed = TRUE] \in CompositorType
    BY Zenon DEF CompositorType
  <2>3. AssertionFailed(c, [c EXCEPT !.assertFailed = TRUE])
    BY DEF AssertionFailed, CompositorType
  <2> HIDE DEF d
  <2> QED BY <1>6, <2>1, <2>2, <2>3 DEF d, Finished
<1> HIDE DEF y, z, q, e
<1>7. /\ e \in CompositorType /\ e.output[o] = y /\ e.presented = q
      /\ e.surface = c.surface
      /\ e.commits = c.commits /\ e.discarded = c.discarded
      /\ e.called = c.called /\ e.assertFailed = c.assertFailed
      /\ e.input_loop_source = c.input_loop_source
      /\ e.state = c.state
  BY <1>1, <1>2, FramePresentedFacts DEF e
<1>8. CASE ~fails /\ msec < 1
  <2>1. d = TimerHandler(e, o, r, then)
    BY <1>8 DEF FinishFrame, e, y, q, FramePresented
  <2> HIDE DEF d
  <2>2. /\ d \in CompositorType /\ SameLife(e, d, o) /\ LoopTurned(e, d, o, r)
        /\ IF Repaints(e, o) THEN Repainted(e, d, o, r)
                             ELSE NotRepainted(e, d, o)
    BY <1>7, <2>1, TimerHandlerFacts
  <2>3. Repaints(e, o) <=> Repaints(c, o)
    BY <1>4, <1>7 DEF Repaints, Awake
  <2>4. LoopTurned(c, d, o, r)
    BY <1>4, <1>7, <2>2, <2>3 DEF LoopTurned, Awake
  <2>5. FrameEnded(c, d, o) /\ d.output[o].repaint_timer = x.repaint_timer
    BY <1>4, <1>7, <2>2 DEF SameLife, FrameEnded, q
  <2>6. ASSUME Repaints(c, o) PROVE NextRepainted(c, d, o, r)
    <3>1. Repainted(e, d, o, r)
      BY <2>2, <2>3, <2>6
    <3>2. {} \cup c.surface[o].feedback_list = c.surface[o].feedback_list
      OBVIOUS
    <3> QED BY <1>4, <1>7, <3>1, <3>2 DEF Repainted, NextRepainted
  <2>7. ASSUME ~Repaints(c, o) PROVE NoneRepainted(c, d, o)
    BY <1>4, <1>7, <2>2, <2>3, <2>7 DEF NotRepainted, NoneRepainted
  <2> QED BY <1>8, <2>2, <2>4, <2>5, <2>6, <2>7 DEF d, Finished
<1>9. CASE ~fails /\ ~(msec < 1)
  <2>1. d = WithOutput(e, o, [e.output[o] EXCEPT !.repaint_timer = TRUE])
    BY <1>9 DEF FinishFrame, WithOutput, e, y, q, FramePresented
  <2>2. d = WithOutput(e, o, z)
    BY <1>7, <2>1 DEF z
  <2> HIDE DEF d
  <2>3. /\ d \in CompositorType /\ d.output[o] = z
        /\ SameUpdates(e, d) /\ d.input_loop_source = e.input_loop_source
        /\ d.state = e.state
    BY <1>3, <1>7, <2>2, WithOutputFacts
  <2> QED
    BY <1>5, <1>7, <1>9, <2>3
    DEF Finished, SameUpdates, FrameEnded, SameLoop, NoneRepainted, d, q
<1> QED BY <1>6, <1>8, <1>9

\* d comes from c by damaging some outputs, o perhaps among them
Damaged(c, d, o) ==
  /\ SameUpdates(c, d) /\ SameFrame(c, d, o)
  /\ LoopAsked(c, d, o) \/ SameLoop(c, d, o)
  /\ \E new \in SUBSET c.surface[o].content :
       d.output[o].damage = c.output[o].damage \cup new
  /\ d.state = c.state

\* weston_output_damage
LEMMA OutputDamageFacts ==
  ASSUME NEW c \in CompositorType, NEW o \in Outputs
  PROVE  LET d == OutputDamage(c, o)
         IN d \in CompositorType /\ Damaged(c, d, o) /\ LoopAsked(c, d, o)
<1> DEFINE x == c.output[o]
           new == c.surface[o].content
           y == [x EXCEPT !.damage = @ \cup new]
           e == WithOutput(c, o, y)
           d == OutputDamage(c, o)
<1>1. x \in OutputType /\ new \in SUBSET Commits /\ x.damage \in SUBSET Commits
  BY CompositorFields, OutputFields, SurfaceFields
<1>2. x.damage \cup new \in SUBSET Commits
  BY <1>1
<1>3. y \in OutputType
  BY <1>1, <1>2, Zenon DEF OutputType
<1>4. /\ y.damage = x.damage \cup new /\ y.repaint_needed = x.repaint_needed
      /\ y.repaint_scheduled = x.repaint_scheduled
      /\ y.idle_repaints = x.idle_repaints /\ y.repaint_timer = x.repaint_timer
      /\ y.destroying = x.destroying /\ y.feedback_list = x.feedback_list
      /\ y.backend = x.backend
  BY <1>1 DEF OutputType
<1>5. d = ScheduleRepaint(e, o)
  BY DEF OutputDamage, WithOutput
<1> HIDE DEF d, y, e
<1>6. /\ e \in CompositorType /\ e.output[o] = y
      /\ SameUpdates(c, e) /\ e.input_loop_source = c.input_loop_source
      /\ e.state = c.state
  BY <1>3, WithOutputFacts DEF e
<1>7. /\ d \in CompositorType
      /\ SameUpdates(e, d) /\ SameFrame(e, d, o) /\ LoopAsked(e, d, o)
      /\ d.output[o].damage = e.output[o].damage
      /\ d.state = e.state
  BY <1>5, <1>6, ScheduleRepaintFacts
<1>8. SameUpdates(c, d) /\ SameFrame(c, d, o)
  BY <1>4, <1>6, <1>7 DEF SameUpdates, SameFrame
<1>9. LoopAsked(c, d, o)
  BY <1>4, <1>6, <1>7 DEF LoopAsked, LoopRequested, SameLoop, Awake
<1>10. \E n \in SUBSET c.surface[o].content :
         d.output[o].damage = c.output[o].damage \cup n
  BY <1>4, <1>6, <1>7
<1> QED BY <1>6, <1>7, <1>8, <1>9, <1>10 DEF Damaged, d

\* The compositor with other outputs and another state of the input source
Redone(c, f, b) == [c EXCEPT !.output = f, !.input_loop_source = b]

LEMMA RedoneFacts ==
  ASSUME NEW c \in CompositorType, NEW f \in [Outputs -> OutputType],
         NEW b \in BOOLEAN
  PROVE  LET d == Redone(c, f, b)
         IN /\ d \in CompositorType /\ d.output = f /\ d.input_loop_source = b
            /\ SameUpdates(c, d)
            /\ d.state = c.state /\ d.idle_source = c.idle_source
<1> DEFINE d == Redone(c, f, b)
<1>1. d \in CompositorType
  BY Zenon DEF CompositorType, Redone
<1>2. d.output = f /\ d.input_loop_source = b
  BY Zenon DEF CompositorType, Redone
<1>3. SameUpdates(c, d) /\ d.state = c.state /\ d.idle_source = c.idle_source
  BY DEF CompositorType, SameUpdates, Redone
<1> QED BY <1>1, <1>2, <1>3

\* weston_output_damage of every output of a set, when there is one output
LEMMA DamageAllFacts ==
  ASSUME NEW c \in CompositorType, NEW o \in Outputs, Outputs = {o},
         NEW outputs \in SUBSET Outputs
  PROVE  LET d == DamageAll(c, outputs)
         IN /\ d \in CompositorType /\ Damaged(c, d, o)
            /\ o \in outputs => LoopAsked(c, d, o)
<1> DEFINE d == DamageAll(c, outputs)
           e == OutputDamage(c, o)
           f == [p \in Outputs |-> IF p \in outputs THEN OutputDamage(c, p).output[p]
                                                    ELSE c.output[p]]
           b == c.input_loop_source /\ \A p \in outputs : OutputDamage(c, p).input_loop_source
<1>1. d = Redone(c, f, b)
  BY DEF DamageAll, Redone
<1>2. e \in CompositorType /\ Damaged(c, e, o) /\ LoopAsked(c, e, o)
  BY OutputDamageFacts
<1>3. e.output[o] \in OutputType /\ c.output[o] \in OutputType
  BY <1>2, CompositorFields
<1>4. f \in [Outputs -> OutputType]
  BY <1>3
<1>5. b \in BOOLEAN
  BY Zenon
<1>6. f[o] = IF o \in outputs THEN e.output[o] ELSE c.output[o]
  OBVIOUS
<1>7. b <=> c.input_loop_source /\ (o \in outputs => e.input_loop_source)
  OBVIOUS
<1> HIDE DEF d, e, f, b
<1>8. /\ d \in CompositorType /\ d.output = f /\ d.input_loop_source = b
      /\ SameUpdates(c, d) /\ d.state = c.state
  BY <1>1, <1>4, <1>5, RedoneFacts
<1>9. c.input_loop_source \in BOOLEAN /\ e.input_loop_source \in BOOLEAN
  BY <1>2, CompositorFields
<1>10. CASE o \in outputs
  <2>1. d.output[o] = e.output[o]
    BY <1>6, <1>8, <1>10
  <2>2. e.input_loop_source => c.input_loop_source
    BY <1>2 DEF LoopAsked, LoopRequested, SameLoop
  <2>3. d.input_loop_source = e.input_loop_source
    BY <1>5, <1>7, <1>8, <1>9, <1>10, <2>2
  <2>4. SameFrame(c, d, o)
    BY <1>2, <2>1 DEF Damaged, SameFrame
  <2>5. LoopAsked(c, d, o)
    BY <1>2, <2>1, <2>3 DEF LoopAsked, LoopRequested, SameLoop
  <2>6. \E new \in SUBSET c.surface[o].content :
          d.output[o].damage = c.output[o].damage \cup new
    BY <1>2, <2>1 DEF Damaged
  <2> QED BY <1>8, <1>10, <2>4, <2>5, <2>6 DEF Damaged, d
<1>11. CASE o \notin outputs
  <2>1. d.output[o] = c.output[o]
    BY <1>6, <1>8, <1>11
  <2>2. d.input_loop_source = c.input_loop_source
    BY <1>5, <1>7, <1>8, <1>9, <1>11
  <2>3. SameFrame(c, d, o) /\ SameLoop(c, d, o)
    BY <2>1, <2>2 DEF SameFrame, SameLoop
  <2>4. c.output[o].damage = c.output[o].damage \cup {}
    OBVIOUS
  <2>5. \E new \in SUBSET c.surface[o].content :
          d.output[o].damage = c.output[o].damage \cup new
    BY <2>1, <2>4
  <2> QED BY <1>8, <1>11, <2>3, <2>5 DEF Damaged, d
<1> QED BY <1>10, <1>11

\* d comes from c by a change of the power state, which may damage the output
Powered(c, d, o) ==
  /\ SameUpdates(c, d) /\ SameFrame(c, d, o)
  /\ LoopRequested(c, d, o) \/ SameLoop(c, d, o)
  /\ \E new \in SUBSET c.surface[o].content :
       d.output[o].damage = c.output[o].damage \cup new

\* The compositor in another power state
InState(c, state, b) == [c EXCEPT !.state = state, !.idle_source = b]

LEMMA InStateFacts ==
  ASSUME NEW c \in CompositorType,
         NEW state \in {"ACTIVE", "IDLE", "OFFSCREEN", "SLEEPING"}, NEW b \in BOOLEAN
  PROVE  LET d == InState(c, state, b)
         IN /\ d \in CompositorType /\ d.state = state
            /\ SameUpdates(c, d) /\ d.output = c.output
            /\ d.input_loop_source = c.input_loop_source
<1> DEFINE d == InState(c, state, b)
<1>1. d \in CompositorType
  BY Zenon DEF CompositorType, InState
<1>2. d.state = state
  BY Zenon DEF CompositorType, InState
<1>3. /\ SameUpdates(c, d) /\ d.output = c.output
      /\ d.input_loop_source = c.input_loop_source
  BY DEF CompositorType, SameUpdates, InState
<1> QED BY <1>1, <1>2, <1>3

\* A change of state alone
LEMMA SleepPowers ==
  ASSUME NEW c \in CompositorType, NEW o \in Outputs, NEW d,
         d = Sleep(c) \/ d = Offscreen(c)
  PROVE  d \in CompositorType /\ Powered(c, d, o)
<1>1. /\ d \in CompositorType
      /\ SameUpdates(c, d) /\ d.output = c.output
      /\ d.input_loop_source = c.input_loop_source
  BY SleepFacts, OffscreenFacts
<1>2. c.output[o].damage = c.output[o].damage \cup {}
  OBVIOUS
<1>3. \E new \in SUBSET c.surface[o].content :
        d.output[o].damage = c.output[o].damage \cup new
  BY <1>1, <1>2
<1> QED BY <1>1, <1>3 DEF Powered, SameFrame, SameLoop

\* Damage in another power state
LEMMA DamagePowers ==
  ASSUME NEW c \in CompositorType, NEW o \in Outputs, Outputs = {o},
         NEW outputs \in SUBSET Outputs, NEW e \in CompositorType,
         SameUpdates(c, e), e.output = c.output,
         e.input_loop_source = c.input_loop_source
  PROVE  LET d == DamageAll(e, outputs)
         IN d \in CompositorType /\ Powered(c, d, o)
<1> DEFINE d == DamageAll(e, outputs)
<1>2. d \in CompositorType /\ Damaged(e, d, o)
  BY DamageAllFacts
<1> HIDE DEF d
<1>3. /\ SameUpdates(c, d) /\ SameFrame(c, d, o)
      /\ LoopRequested(c, d, o) \/ SameLoop(c, d, o)
  BY <1>2 DEF Damaged, SameUpdates, SameFrame, SameLoop, LoopRequested, LoopAsked
<1>4. \E new \in SUBSET c.surface[o].content :
        d.output[o].damage = c.output[o].damage \cup new
  BY <1>2 DEF Damaged, SameUpdates
<1> QED BY <1>2, <1>3, <1>4 DEF Powered, d

\* weston_compositor_wake
LEMMA WakePowers ==
  ASSUME NEW c \in CompositorType, NEW o \in Outputs, Outputs = {o},
         NEW outputs \in SUBSET Outputs
  PROVE  LET d == Wake(c, outputs) IN d \in CompositorType /\ Powered(c, d, o)
<1> DEFINE d == Wake(c, outputs)
           e == InState(c, "ACTIVE", TRUE)
<1>1. d = IF c.state = "ACTIVE" THEN e ELSE DamageAll(e, outputs)
  BY DEF Wake, InState
<1> HIDE DEF d, e
<1>2. /\ e \in CompositorType
      /\ SameUpdates(c, e) /\ e.output = c.output
      /\ e.input_loop_source = c.input_loop_source
  BY InStateFacts DEF e
<1>3. DamageAll(e, outputs) \in CompositorType /\ Powered(c, DamageAll(e, outputs), o)
  BY <1>2, DamagePowers
<1>4. c.output[o].damage = c.output[o].damage \cup {}
  OBVIOUS
<1>5. \E new \in SUBSET c.surface[o].content :
        e.output[o].damage = c.output[o].damage \cup new
  BY <1>2, <1>4
<1>6. Powered(c, e, o)
  BY <1>2, <1>5 DEF Powered, SameFrame, SameLoop
<1> QED BY <1>1, <1>2, <1>3, <1>6 DEF d

\* idle_handler
LEMMA IdleHandlerPowers ==
  ASSUME NEW c \in CompositorType, NEW o \in Outputs, Outputs = {o},
         NEW inhibited \in BOOLEAN, NEW outputs \in SUBSET Outputs
  PROVE  LET d == IdleHandler(c, inhibited, outputs)
         IN d \in CompositorType /\ Powered(c, d, o)
<1> DEFINE d == IdleHandler(c, inhibited, outputs)
           e == InState(c, c.state, FALSE)
           f == InState(c, "IDLE", FALSE)
<1>1. [c EXCEPT !.idle_source = FALSE] = e
  BY Zenon DEF InState, CompositorType
<1>2. [[c EXCEPT !.idle_source = FALSE] EXCEPT !.state = "IDLE"] = f
  BY Zenon DEF InState, CompositorType
<1>3. d = IF inhibited THEN e ELSE DamageAll(f, outputs)
  BY <1>1, <1>2 DEF IdleHandler
<1> HIDE DEF d, e, f
<1>4. /\ f \in CompositorType
       /\ SameUpdates(c, f) /\ f.output = c.output
       /\ f.input_loop_source = c.input_loop_source
  BY InStateFacts DEF f
<1>5. DamageAll(f, outputs) \in CompositorType /\ Powered(c, DamageAll(f, outputs), o)
  BY <1>4, DamagePowers
<1>6. c.state \in {"ACTIVE", "IDLE", "OFFSCREEN", "SLEEPING"}
  BY CompositorFields
<1>7. /\ e \in CompositorType
      /\ SameUpdates(c, e) /\ e.output = c.output
      /\ e.input_loop_source = c.input_loop_source
  BY <1>6, InStateFacts DEF e
<1>8. c.output[o].damage = c.output[o].damage \cup {}
  OBVIOUS
<1>9. \E new \in SUBSET c.surface[o].content :
        e.output[o].damage = c.output[o].damage \cup new
  BY <1>7, <1>8
<1>10. Powered(c, e, o)
  BY <1>7, <1>9 DEF Powered, SameFrame, SameLoop
<1> QED BY <1>3, <1>5, <1>7, <1>10 DEF d
=============================================================================
