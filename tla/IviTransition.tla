---------------------------- MODULE IviTransition ----------------------------
(***************************************************************************)
(* The animations of the IVI shell (src/ivi-shell/ivi-layout-transition.c  *)
(* and the commit of ivi-layout.c that starts them), for one surface on    *)
(* one layer of the screen.  A controller sets properties and a kind of    *)
(* transition and commits; from then on a timer edits the same pending     *)
(* properties, and commits, until the transition is done.                  *)
(*                                                                         *)
(* A rectangle is one number, an opacity a step of 0 .. Full, and a moment *)
(* between a transition's ends gives any value between its ends.  Between  *)
(* commits every property but the rectangle is as committed, and no event  *)
(* is unsent, so neither has a variable.  A duration of zero is left out   *)
(* (but for that of a layer's fade, which the code computes).              *)
(***************************************************************************)
EXTENDS Integers, SequencesExt

CONSTANTS
  Places,    \* destination rectangles, and positions of the layer: 0 .. n
  Full,      \* the opacity of what is opaque
  Asked,     \* the opacities the controller asks for
  Duration,  \* of a transition, in frames of the timer
  MaxCalls,  \* bound: commits of the controller while something is animated
  MaxMoves,  \* bound: moves of the layer at a time
  NULL

Opacities == 0 .. Full
New == 0 - 1  \* the age of a transition before its first frame (time_start 0)

\* What the transitions of each kind may be
Moves == [start : Places, end : Places, age : New .. Duration - 1]
Fades == [on : BOOLEAN, alpha : Opacities, start : Opacities, end : Opacities,
          age : New .. Duration - 1]
LayerFades == [in : BOOLEAN, start : Opacities, end : Opacities, age : New .. Duration - 1,
               duration : 0 .. Duration]

\* A place between two is a place; the setters refuse what is no opacity.
ASSUME TransitionAssumption ==
  /\ Duration \in Nat \ {0} /\ Full \in Nat \ {0}
  /\ Places \subseteq Nat /\ 0 \in Places /\ \A i, j \in Places : i .. j \subseteq Places
  /\ Asked \subseteq Opacities
  /\ NULL \notin Moves \cup Fades \cup LayerFades

VARIABLES
  prop,     \* committed properties of the surface
  pending,  \* its pending rectangle (dest), and the one set before it (start)
  layer,    \* committed properties of the layer
  move,     \* the surface's VIEW_MOVE_RESIZE transition
  fade,     \* its VIEW_FADE transition
  layerMoves,  \* the layer's LAYER_MOVE transitions, latest first
  layerFade,   \* its LAYER_FADE transition
  armed,    \* the timer of the transitions is set
  view,     \* what the view was last told to show
  told,     \* what the surface's listener was last told
  jumped,   \* history: the committed rectangle changed with no event to send
  want,     \* history: what the surface is to be when all is done
  layerWant,  \* history: and the layer
  noTime,   \* history: the layer's fade was given no time at all
  animated, \* bound: what the controller animates, "surface" or "layer"; if
             \* the layer, it leaves the surface's opacity alone
  calls     \* the controller's commits while something is animated

surfaceVars == <<prop, pending, move, fade, jumped, want>>
layerVars == <<layer, layerMoves, layerFade, layerWant, noTime>>
transitionVars == <<surfaceVars, layerVars, armed, view, told, animated, calls>>

Moving(m, f, lm, lf) == m # NULL \/ f # NULL \/ lm # <<>> \/ lf # NULL
Busy == Moving(move, fade, layerMoves, layerFade)

TransitionInit ==
  /\ prop = [visible |-> FALSE, opacity |-> Full, dest |-> 0]
  /\ pending = [dest |-> 0, start |-> 0]
  /\ layer = [visible |-> TRUE, opacity |-> Full, position |-> 0]
  /\ move = NULL /\ fade = NULL /\ layerMoves = <<>> /\ layerFade = NULL
  /\ armed = FALSE /\ jumped = FALSE /\ want = prop /\ layerWant = layer /\ noTime = FALSE
  /\ view = [alpha |-> <<Full, Full>>, place |-> <<0, 0>>]
  /\ told = prop /\ animated \in {"surface", "layer"} /\ calls = 0
-----------------------------------------------------------------------------
\* The end of a commit

\* commit_changes and update_prop: a visible surface of a visible layer, if
\* either of them has an event to send
UpdateProp(p, l, changed, layerChanged) ==
  view' = IF p.visible /\ l.visible /\ (changed \/ layerChanged)
          THEN [alpha |-> <<l.opacity, p.opacity>>, place |-> <<l.position, p.dest>>]
          ELSE view

\* Mutation: a hidden surface's listener is not told.
SendProp_IfVisible(p, changed) == told' = IF changed /\ p.visible THEN p ELSE told

\* send_prop: the listener hears all the properties, if any has an event.
SendProp(p, changed) == told' = IF changed THEN p ELSE told

\* commit_transition
CommitTransition(registered) == armed' = (armed \/ registered)

\* The setters mark what is set to something else than what is committed.
Differs(p, set) == \E name \in set : p[name] # prop[name]
LayerDiffers(l) == l # layer

ControllerCommit ==
  /\ calls < MaxCalls /\ calls' = (IF Busy THEN calls + 1 ELSE 0) /\ UNCHANGED animated
-----------------------------------------------------------------------------
\* The transitions of the surface

\* ivi_layout_transition_move_resize_view, which also takes over a move that
\* is running
MoveResizeView(from, to) == [start |-> from, end |-> to, age |-> New]

\* Mutation: what a fade in does at its end stays as it was.
Visibility_KeepsEnd(visible) ==
  IF fade # NULL
  THEN [fade EXCEPT !.start = prop.opacity, !.age = New,
                    !.end = IF visible THEN fade.alpha ELSE 0]
  ELSE IF visible /\ prop.visible THEN NULL
  ELSE [on |-> visible, alpha |-> prop.opacity, age |-> New,
        start |-> IF visible THEN 0 ELSE prop.opacity,
        end |-> IF visible THEN prop.opacity ELSE 0]

\* ivi_layout_transition_visibility_on and _off: take over the fade that is
\* running, or begin one, which remembers the opacity to come back to.
Visibility(visible) ==
  IF fade # NULL
  THEN [fade EXCEPT !.on = visible, !.start = prop.opacity, !.age = New,
                    !.end = IF visible THEN fade.alpha ELSE 0]
  ELSE IF visible /\ prop.visible THEN NULL
  ELSE [on |-> visible, alpha |-> prop.opacity, age |-> New,
        start |-> IF visible THEN 0 ELSE prop.opacity,
        end |-> IF visible THEN prop.opacity ELSE 0]

\* commit_surface_list, after ivi_layout_surface_set_*
CommitSurfaceList(type, visible, opacity, dest) ==
  LET moves == type \in {"DEFAULT", "DEST_RECT_ONLY"}
      fades == type \in {"DEFAULT", "FADE_ONLY"}
      set == IF dest = NULL THEN pending ELSE [dest |-> dest, start |-> pending.dest]
      asked == [visible |-> visible, opacity |-> opacity, dest |-> set.dest]
      changed == Differs(asked, {"visible", "opacity"} \cup
                                (IF dest = NULL THEN {} ELSE {"dest"}))
      newProp == IF moves THEN [asked EXCEPT !.dest = prop.dest] ELSE asked
      newMove == IF moves THEN MoveResizeView(set.start, set.dest) ELSE move
      newFade == IF fades THEN Visibility(visible) ELSE fade
  IN /\ jumped' = (~changed /\ (jumped \/ newProp.dest # prop.dest))
     /\ pending' = set /\ prop' = newProp /\ move' = newMove /\ fade' = newFade
     /\ UpdateProp(newProp, layer, changed, FALSE) /\ SendProp(newProp, changed)
     /\ CommitTransition((move = NULL /\ newMove # NULL) \/ (fade = NULL /\ newFade # NULL))
     /\ want' = [dest |-> IF moves \/ move = NULL THEN set.dest ELSE want.dest,
                 visible |-> IF fades \/ fade = NULL THEN visible ELSE want.visible,
                 opacity |-> IF newFade = NULL THEN opacity ELSE want.opacity]

\* The controller sets some of a surface's properties and a transition, and
\* commits.
SurfaceCommit ==
  /\ ControllerCommit
  /\ \E type \in {"NONE", "DEFAULT", "DEST_RECT_ONLY", "FADE_ONLY"},
        visible \in BOOLEAN, opacity \in Asked, dest \in Places \cup {NULL} :
       /\ type # "NONE" \/ opacity # prop.opacity => animated = "surface"
       /\ CommitSurfaceList(type, visible, opacity, dest)
  /\ UNCHANGED layerVars
-----------------------------------------------------------------------------
\* The transitions of the layer

\* ivi_layout_transition_fade_layer; a fade that is turned round has the time
\* that is left to it.
FadeLayer(in) ==
  IF layerFade # NULL
  THEN [layerFade EXCEPT !.in = in, !.start = layer.opacity, !.end = IF in THEN Full ELSE 0,
          !.age = New,
          !.duration = (Duration * (IF in THEN Full - layer.opacity ELSE layer.opacity)) \div Full]
  ELSE [in |-> in, start |-> IF in THEN 0 ELSE Full, end |-> IF in THEN Full ELSE 0,
        age |-> New, duration |-> Duration]

\* The last part of a commit that is about the layer; of the surface it
\* commits the rectangle that a move is to end with.
CommitLayer(l, registered) ==
  /\ layer' = l
  /\ jumped' = (jumped \/ pending.dest # prop.dest)
  /\ UpdateProp([prop EXCEPT !.dest = pending.dest], l, FALSE, LayerDiffers(l))
  /\ prop' = [prop EXCEPT !.dest = pending.dest]
  /\ CommitTransition(registered)
  /\ UNCHANGED <<pending, move, fade, want, told>>

\* hmi_controller_fade_run, and a commit
LayerFadeCommit ==
  /\ ControllerCommit /\ animated = "layer"
  /\ \E in \in BOOLEAN :
       /\ layerFade' = FadeLayer(in)
       /\ layerWant' = [layerWant EXCEPT !.visible = in,
                                         !.opacity = IF in THEN Full ELSE 0]
  /\ noTime' = (layerFade'.duration = 0)
  /\ CommitLayer(layer, layerFade = NULL)
  /\ UNCHANGED layerMoves

\* move_workspace_grab_end: the new position is committed at once, and the
\* move starts from the old one.
LayerMoveCommit ==
  /\ ControllerCommit /\ animated = "layer" /\ Len(layerMoves) < MaxMoves
  /\ \E to \in Places :
       /\ layerMoves' = <<[start |-> layer.position, end |-> to, age |-> New]>> \o layerMoves
       /\ layerWant' = [layerWant EXCEPT !.position = to]
       /\ CommitLayer([layer EXCEPT !.position = to], TRUE)
  /\ UNCHANGED <<layerFade, noTime>>

\* ivi_layout_transition_move_layer_cancel, when a drag of the workspace
\* begins, and the drag, which moves the layer itself.  Only the latest move
\* is cancelled: another one goes on.
LayerDrag ==
  /\ ControllerCommit
  /\ \E to \in Places :
       /\ layerMoves' = SubSeq(layerMoves, 2, Len(layerMoves))
       /\ layerWant' = [layerWant EXCEPT !.position =
            IF layerMoves' = <<>> THEN to ELSE Head(layerMoves').end]
       /\ CommitLayer([layer EXCEPT !.position = to], FALSE)
  /\ UNCHANGED <<layerFade, noTime>>

LayerSetVisibility ==
  /\ ControllerCommit
  /\ \E visible \in BOOLEAN :
       /\ layerWant' = [layerWant EXCEPT !.visible = IF layerFade = NULL THEN visible ELSE @]
       /\ CommitLayer([layer EXCEPT !.visible = visible], FALSE)
  /\ UNCHANGED <<layerMoves, layerFade, noTime>>
-----------------------------------------------------------------------------
\* The timer

\* tick_transition: the age of t after a frame, dt after the last one
Tick(t, duration, dt) ==
  Min({IF t.age = New THEN 0 ELSE t.age + dt, duration})

\* The values a transition may have at an age.  Of a transition that takes no
\* time, start + (end - start) * sin(0 / 0) is converted to 0.
Values(t, duration, age) ==
  IF duration = 0 THEN {0}
  ELSE IF age = 0 THEN {t.start}
  ELSE IF age = duration THEN {t.end}
  ELSE Min({t.start, t.end}) .. Max({t.start, t.end})

Aged(t, duration, age) == IF age = duration THEN NULL ELSE [t EXCEPT !.age = age]

\* The surface's transitions in a frame: the frame functions set the pending
\* properties, and at the end of a fade out its destroy function hides the
\* surface and gives it its opacity back.
SurfaceFrame(dt) ==
  /\ IF move = NULL THEN UNCHANGED <<move, pending>>
     ELSE LET age == Tick(move, Duration, dt)
          IN /\ move' = Aged(move, Duration, age)
             /\ \E dest \in Values(move, Duration, age) :
                  pending' = [dest |-> dest, start |-> pending.dest]
  /\ IF fade = NULL
     THEN fade' = NULL /\ prop' = [prop EXCEPT !.dest = pending'.dest]
     ELSE LET age == Tick(fade, Duration, dt)
              hides == age = Duration /\ ~fade.on
          IN /\ fade' = Aged(fade, Duration, age)
             /\ \E opacity \in Values(fade, Duration, age) :
                  prop' = [visible |-> ~hides, dest |-> pending'.dest,
                           opacity |-> IF hides THEN fade.alpha ELSE opacity]

\* The layer's moves: those that are done are the oldest, for all are as long.
Ages(dt) == [i \in 1 .. Len(layerMoves) |-> Tick(layerMoves[i], Duration, dt)]

LayerMovesFrame(dt) ==
  \E n \in 0 .. Len(layerMoves) :
    /\ \A i \in 1 .. Len(layerMoves) : Ages(dt)[i] = Duration <=> i > n
    /\ layerMoves' = SubSeq([i \in 1 .. Len(layerMoves) |->
                               [layerMoves[i] EXCEPT !.age = Ages(dt)[i]]], 1, n)

\* Where they may put the layer: of two the older one comes last and decides.
LayerPositions(dt) ==
  IF layerMoves = <<>> THEN {layer.position}
  ELSE Values(layerMoves[Len(layerMoves)], Duration, Ages(dt)[Len(layerMoves)])

\* The layer's transitions in a frame.  If two moves are done in one, the
\* older one's end is where the layer stays.
LayerFrame(dt) ==
  /\ LayerMovesFrame(dt)
  /\ \E position \in LayerPositions(dt) :
       IF layerFade = NULL
       THEN layerFade' = NULL /\ layer' = [layer EXCEPT !.position = position]
       ELSE LET age == Tick(layerFade, layerFade.duration, dt)
            IN /\ layerFade' = Aged(layerFade, layerFade.duration, age)
               /\ \E opacity \in Values(layerFade, layerFade.duration, age) :
                    layer' = [position |-> position, opacity |-> opacity,
                              visible |-> layerFade.in \/ age < layerFade.duration]
  /\ layerWant' = IF Len(layerMoves) > 1 /\ layerMoves' = <<>>
                  THEN [layerWant EXCEPT !.position = layer'.position] ELSE layerWant

\* Mutation: the timer is set again only by the next transition.
Rearm_Never == armed' = FALSE

Rearm == armed' = TRUE

\* layout_transition_frame, with a list that is not empty, and its commit
Frame ==
  /\ armed /\ Busy
  /\ Rearm
  /\ \E dt \in 1 .. Duration : SurfaceFrame(dt) /\ LayerFrame(dt)
  /\ LET changed == (move # NULL /\ prop'.dest # prop.dest)
                    \/ Differs(prop', {"visible", "opacity"})
     IN /\ jumped' = (jumped /\ ~changed)
        /\ UpdateProp(prop', layer', changed, LayerDiffers(layer'))
        /\ SendProp(prop', changed)
  /\ calls' = IF Moving(move', fade', layerMoves', layerFade') THEN calls ELSE 0
  /\ UNCHANGED <<want, noTime, animated>>

\* The same with an empty list
LastFrame ==
  /\ armed /\ ~Busy /\ armed' = FALSE
  /\ UNCHANGED <<surfaceVars, layerVars, view, told, animated, calls>>

TransitionNext ==
  \/ SurfaceCommit \/ LayerFadeCommit \/ LayerMoveCommit \/ LayerDrag
  \/ LayerSetVisibility \/ Frame \/ LastFrame

\* The event loop comes back to a timer that is set.
TransitionSpec ==
  /\ TransitionInit /\ [][TransitionNext]_transitionVars
  /\ WF_transitionVars(Frame) /\ WF_transitionVars(LastFrame)
-----------------------------------------------------------------------------
TransitionTypeOK ==
  /\ prop \in [visible : BOOLEAN, opacity : Opacities, dest : Places]
  /\ pending \in [dest : Places, start : Places]
  /\ layer \in [visible : BOOLEAN, opacity : Opacities, position : Places]
  /\ move \in Moves \cup {NULL} /\ fade \in Fades \cup {NULL}
  /\ layerMoves \in Seq(Moves) /\ layerFade \in LayerFades \cup {NULL}
  /\ layerFade # NULL => layerFade.age < layerFade.duration \/ layerFade.age = New
  /\ armed \in BOOLEAN

\* While anything is animated the timer is set.
TimerRuns == Busy => armed

\* Wherever a surface's transitions were turned round, cut into or combined,
\* when they are over it is where, and shows or hides, as the last request that
\* could be honoured said, with the opacity it had before it was faded.
Lands == move = NULL /\ fade = NULL => prop = want

\* So is the layer, but for the fade that was turned round with nothing left of
\* it, whose opacity is what 0 / 0 gives.
LayerLands ==
  /\ layerFade = NULL => layer.visible = layerWant.visible
                         /\ (layer.opacity = layerWant.opacity \/ noTime)
  /\ layerMoves = <<>> => layer.position = layerWant.position

\* What is on the screen is what is committed, in every frame of a transition
\* as well, whatever was set while surface or layer were hidden.
DrawnRight ==
  ~jumped /\ prop.visible /\ layer.visible =>
    view = [alpha |-> <<layer.opacity, prop.opacity>>,
            place |-> <<layer.position, prop.dest>>]

\* And so is what the surface's listener was told.
ToldAll == ~jumped => told = prop

\* Whatever is animated comes to its end.
TransitionsEnd == Busy ~> ~Busy

\* Wherever they were turned round or cut into, transitions have a timer while
\* they run and leave surface and layer as asked when they are over.
LandsAsAsked == TransitionTypeOK /\ TimerRuns /\ Lands /\ LayerLands

\* The user and the surface's client are shown and told what is committed.
SeenAndTold == DrawnRight /\ ToldAll
=============================================================================
