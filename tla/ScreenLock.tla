------------------------------ MODULE ScreenLock ------------------------------
(***************************************************************************)
(* Lock, idle and fade of the desktop shell (src/desktop-shell/shell.c),   *)
(* its input panels (src/desktop-shell/input-panel.c), the power states of *)
(* the compositor (src/src/compositor.c) and the helper client that shows  *)
(* the unlock dialog (src/clients/desktop-shell.c), which may die and be   *)
(* started again at any time.                                              *)
(*                                                                         *)
(* One seat, one workspace, one output that stays: shell_fade without an   *)
(* output, and the helper's death within 30 seconds of the start, end the  *)
(* compositor and are left out.  The switch between OFFSCREEN and the      *)
(* other power states is in DrmOutput.  Locking is not disabled in the     *)
(* helper's configuration.                                                 *)
(*                                                                         *)
(* Windows are opened and closed, locked or not, and the window switcher   *)
(* runs, locked or not: of the bindings it is the one that gives a window  *)
(* the keyboard.  A switcher whose last window goes keeps a pointer to it  *)
(* (SeatInput) and is left out, and so are close animations, minimized and *)
(* fullscreen windows, the exposay and the cursor over a busy window.      *)
(***************************************************************************)
EXTENDS Integers, Sequences, FiniteSets

CONSTANTS
  Windows,    \* toplevels of the workspace
  MaxDeaths,  \* bound: deaths of the helper client
  None        \* the NULL pointer

\* The layers lock() and resume_desktop() move; panel and fullscreen layer are
\* one, as they are always handled together.
Layers == {"panel", "workspace", "input_panel", "lock"}

ASSUME LockAssumption ==
  /\ ({None, "dialog", "background"} \cup Layers) \cap Windows = {}
  /\ None \notin {"dialog", "input_panel", "background"}
  /\ MaxDeaths \in Nat

VARIABLES
  shell,    \* a record:
            \*   power         compositor->state
            \*   locked, showing   shell->locked, shell->showing_input_panels
            \*   attached      the layers in compositor->layer_list
            \*   corrupt       a layer was inserted twice or removed while absent
            \*   fade          .view, .animation, .type of shell->fade
            \*   startup       the startup timer, or its idle callback
            \*   bound         shell->child.desktop_shell is set
            \*   prepareSent   shell->prepare_event_sent
            \*   lockSurface   shell->lock_surface: none, set or mapped
            \*   frame         a repaint of the output is scheduled
            \*   kfocus, saved the keyboard's focus; focus_state.keyboard_focus
            \*   away          seat->saved_kbd_focus
            \*   open          the windows in the workspace's layer
            \*   painted       the layers and windows that are in view_list
            \*   super         the binding modifier is held
            \*   switching, current   the switcher has the keyboard; its choice
  pointer,  \* .focus: whose view; .held: the number of buttons is not zero
  helper,   \* .phase, .dialog of the desktop-shell client
  events,   \* prepare_lock_surface events it has not read
  requests, \* its requests the compositor has not read
  deaths,   \* how often it died
  repainted,\* history: the screen was repainted since it is locked
  given,    \* history: a window was given the keyboard since the screen is locked
  revived,  \* history: a fade-in was started while idle
  unasked   \* history: a lock surface went away from a locked screen

vars == <<shell, pointer, helper, events, requests, deaths,
          repainted, given, revived, unasked>>

Foci == Windows \cup {"dialog", "input_panel", "background"}

Init ==
  /\ \E fades \in BOOLEAN : \* startup_animation_type: FADE or NONE
       shell = [power |-> "active", locked |-> FALSE, showing |-> FALSE,
                attached |-> {"panel", "workspace"}, corrupt |-> FALSE,
                fade |-> [view |-> fades, animation |-> FALSE, type |-> "in"],
                startup |-> IF fades THEN "timer" ELSE "off",
                bound |-> FALSE, prepareSent |-> FALSE, lockSurface |-> "none",
                frame |-> TRUE, kfocus |-> None, saved |-> None, away |-> None,
                open |-> {}, painted |-> {"panel", "workspace"},
                super |-> FALSE, switching |-> FALSE, current |-> None]
  /\ pointer = [focus |-> "background", held |-> FALSE]
  /\ helper = [phase |-> "starting", dialog |-> FALSE]
  /\ events = 0 /\ requests = <<>> /\ deaths = 0
  /\ repainted = FALSE /\ given = FALSE /\ revived = FALSE /\ unasked = FALSE
-----------------------------------------------------------------------------
(* Layers, fade, lock: functions on the record, as the code nests them.    *)

Insert(s, ls) == [s EXCEPT !.attached = @ \cup ls,
                           !.corrupt = @ \/ ls \cap s.attached # {}]

Detach(s, ls) == [s EXCEPT !.attached = @ \ ls,
                           !.corrupt = @ \/ ~(ls \subseteq s.attached)]

\* weston_compositor_build_view_list
BuildViewList(s) ==
  [s EXCEPT !.painted = s.attached \cup
                        IF "workspace" \in s.attached THEN s.open ELSE {}]

\* weston_output_schedule_repaint: nothing is scheduled for a sleeping output.
ScheduleRepaint(s) == [s EXCEPT !.frame = @ \/ s.power # "sleeping"]

\* Mutation: a running animation keeps its direction.
ShellFade_KeepsType(s, type) ==
  IF s.fade.animation THEN s
  ELSE ScheduleRepaint([s EXCEPT !.fade = [view |-> TRUE, animation |-> TRUE,
                                           type |-> type]])

\* shell_fade: a running animation is only given another target, a new one
\* schedules its first frame.
ShellFade(s, type) ==
  IF s.fade.animation THEN [s EXCEPT !.fade.type = type]
  ELSE ScheduleRepaint([s EXCEPT !.fade = [view |-> TRUE, animation |-> TRUE,
                                           type |-> type]])

InputPanels(s) == IF s.showing THEN {"input_panel"} ELSE {}

\* Mutation: the keyboard's focus stays where it is.
Lock_KeepsFocus(s) ==
  IF s.locked THEN [s EXCEPT !.power = "sleeping"]
  ELSE [Insert(Detach(s, {"panel", "workspace"} \cup InputPanels(s)), {"lock"})
          EXCEPT !.locked = TRUE, !.power = "sleeping"]

\* lock
Lock(s) ==
  IF s.locked THEN [s EXCEPT !.power = "sleeping"]
  ELSE [Insert(Detach(s, {"panel", "workspace"} \cup InputPanels(s)), {"lock"})
          EXCEPT !.locked = TRUE, !.power = "sleeping", !.kfocus = None]

\* resume_desktop, with weston_compositor_damage_all
ResumeDesktop(s) ==
  LET shown == Insert(Detach(s, {"lock"}),
                      {"panel", "workspace"} \cup InputPanels(s))
  IN ScheduleRepaint(
       ShellFade([shown EXCEPT !.locked = FALSE, !.kfocus = s.saved], "in"))

\* unlock
Unlock(s) ==
  IF ~s.locked \/ s.lockSurface # "none" THEN ShellFade(s, "in")
  ELSE IF ~s.bound THEN ResumeDesktop(s)
  ELSE [s EXCEPT !.prepareSent = TRUE]

\* weston_compositor_wake, with wake_handler
Wake(s) ==
  IF s.power = "active" THEN s ELSE Unlock([s EXCEPT !.power = "active"])

\* shell_fade_done.  Destroying the view rebuilds the list of views.
ShellFadeDone(s) ==
  LET t == ScheduleRepaint([s EXCEPT !.fade.animation = FALSE])
  IN IF s.fade.type = "in" THEN BuildViewList([t EXCEPT !.fade.view = FALSE])
     ELSE Lock(t)

\* shell_fade_startup
ShellFadeStartup(s) ==
  IF s.startup = "timer" THEN [s EXCEPT !.startup = "idle"] ELSE s

\* activate(), as far as the keyboard is concerned: it asks nothing of the lock.
Activate(s, w) == [s EXCEPT !.kfocus = w, !.saved = w]
-----------------------------------------------------------------------------
(* The histories after a step of the compositor.                           *)

HistoryAfter(gives) ==
  /\ given' = (shell'.locked /\ (given \/ gives))
  /\ revived' = /\ shell'.power = "idle"
                /\ revived \/ shell'.fade.type = "in"

RecordedIf(gives) ==
  /\ repainted' = (repainted /\ shell'.locked)
  /\ HistoryAfter(gives)

Recorded == RecordedIf(FALSE)

\* The view that weston_compositor_pick_view may find.
Pickable(s) ==
  {"background"} \cup (s.painted \cap (Windows \cup {"input_panel"}))
  \cup (IF "lock" \in s.painted /\ s.lockSurface = "mapped" THEN {"dialog"}
        ELSE {})

\* default_grab_pointer_focus: a button held keeps the focus.
Repick(s) ==
  IF pointer.held THEN UNCHANGED pointer
  ELSE \E v \in Pickable(s) : pointer' = [pointer EXCEPT !.focus = v]

HelperWaits == UNCHANGED <<helper, events, requests, deaths>>

\* The event prepare_lock_surface is sent when the flag is set.
Sends(s, t) == events' = events + IF ~s.prepareSent /\ t.prepareSent THEN 1 ELSE 0
-----------------------------------------------------------------------------
(* The user.                                                               *)

\* notify_motion: weston_compositor_wake, then the grab picks from view_list.
Motion ==
  /\ shell' = Wake(shell) /\ Sends(shell, Wake(shell))
  /\ Repick(shell') /\ Recorded
  /\ UNCHANGED <<helper, requests, deaths, unasked>>

\* notify_button, the press: weston_compositor_idle_inhibit, click_to_activate.
\* With the modifier held a press moves or resizes (SeatInput).
Press ==
  LET s == Wake(shell)
      hit == pointer.focus \in Windows /\ pointer.focus # s.saved
  IN /\ ~pointer.held /\ ~shell.super
     /\ pointer' = [pointer EXCEPT !.held = TRUE]
     /\ shell' = IF hit THEN Activate(s, pointer.focus) ELSE s
     /\ Sends(shell, s) /\ RecordedIf(hit)
     /\ UNCHANGED <<helper, requests, deaths, unasked>>

\* notify_button, the release: the dialog's button makes the helper unlock.
Release ==
  /\ pointer.held
  /\ shell' = Wake(shell) /\ Sends(shell, Wake(shell))
  /\ \E v \in Pickable(shell') : pointer' = [focus |-> v, held |-> FALSE]
  /\ IF pointer.focus = "dialog" /\ helper.dialog
     THEN /\ helper' = [helper EXCEPT !.dialog = FALSE] \* unlock_dialog_finish
          /\ requests' = requests \o <<"unlock", "destroy">>
     ELSE UNCHANGED <<helper, requests>>
  /\ Recorded /\ UNCHANGED <<deaths, unasked>>

\* notify_key, the modifier: weston_compositor_idle_inhibit.  Other keys only
\* wake, as the pointer's motion does.
PressSuper ==
  LET s == Wake(shell)
  IN /\ ~shell.super /\ shell.away = None
     /\ shell' = [s EXCEPT !.super = TRUE]
     /\ Sends(shell, s) /\ Recorded
     /\ UNCHANGED <<pointer, helper, requests, deaths, unasked>>

\* The tab key: switcher_binding, then switcher_next.
PressTab ==
  LET s == Wake(shell)
      t == IF s.switching THEN s
           ELSE [s EXCEPT !.switching = TRUE, !.kfocus = None]
  IN /\ shell.super
     /\ \E w \in (IF s.open = {} THEN {None} ELSE s.open) :
          shell' = [t EXCEPT !.current = w]
     /\ Sends(shell, s) /\ Recorded
     /\ UNCHANGED <<pointer, helper, requests, deaths, unasked>>

\* notify_key, the modifier again: switcher_modifier, switcher_destroy.
SwitcherDestroy(s) ==
  LET t == IF s.current = None THEN s ELSE Activate(s, s.current)
  IN [t EXCEPT !.switching = FALSE, !.current = None]

ReleaseSuper ==
  LET s == Wake(shell)
  IN /\ shell.super
     /\ shell' = [SwitcherDestroy(s) EXCEPT !.super = FALSE]
     /\ Sends(shell, s) /\ RecordedIf(s.current # None)
     /\ UNCHANGED <<pointer, helper, requests, deaths, unasked>>

\* notify_keyboard_focus_out, of a compositor nested in another: no key is held.
KeyboardFocusOut ==
  /\ shell.kfocus # None /\ shell.away = None /\ ~shell.super
  /\ shell' = [shell EXCEPT !.away = shell.kfocus, !.kfocus = None]
  /\ Recorded /\ UNCHANGED <<pointer, unasked>> /\ HelperWaits

\* notify_keyboard_focus_in
KeyboardFocusIn ==
  /\ shell.away # None
  /\ shell' = [shell EXCEPT !.kfocus = shell.away, !.away = None]
  /\ RecordedIf(TRUE) /\ UNCHANGED <<pointer, unasked>> /\ HelperWaits

\* idle_handler of the compositor, then that of the shell
IdleTimeout ==
  /\ shell.power = "active" /\ ~pointer.held /\ ~shell.super
  /\ shell' = ShellFade([shell EXCEPT !.power = "idle"], "out")
  /\ Recorded /\ UNCHANGED <<pointer, unasked>> /\ HelperWaits

\* show_input_panels
ShowInputPanels ==
  /\ ~shell.showing
  /\ LET s == ScheduleRepaint([shell EXCEPT !.showing = TRUE])
     IN shell' = IF s.locked THEN s ELSE Insert(s, {"input_panel"})
  /\ Recorded /\ UNCHANGED <<pointer, unasked>> /\ HelperWaits

\* hide_input_panels.  The panels' views are unmapped: they lose the pointer.
HideInputPanels ==
  /\ shell.showing
  /\ LET s == [shell EXCEPT !.showing = FALSE, !.painted = @ \ {"input_panel"}]
     IN shell' = IF s.locked THEN s ELSE Detach(s, {"input_panel"})
  /\ pointer' = IF pointer.focus = "input_panel"
                THEN [pointer EXCEPT !.focus = "background"] ELSE pointer
  /\ Recorded /\ UNCHANGED unasked /\ HelperWaits
-----------------------------------------------------------------------------
(* Windows.                                                                *)

\* map(), for a toplevel: it is not activated on a locked screen.
MapWindow(w) ==
  LET s == ScheduleRepaint([shell EXCEPT !.open = @ \cup {w}])
  IN /\ w \notin shell.open
     /\ shell' = IF s.locked THEN s ELSE Activate(s, w)
     /\ Recorded /\ UNCHANGED <<pointer, unasked>> /\ HelperWaits

Instead(w, v, u) == IF v = w THEN u ELSE v

\* What is left of the window w when its surface is destroyed: the next one has
\* the focus the shell keeps, and the keyboard with it, locked or not
\* (focus_state_surface_destroy); another is the switcher's choice
\* (switcher_handle_surface_destroy).
WindowGone(s, w, next, other) ==
  LET t == [s EXCEPT !.open = @ \ {w},
                     !.kfocus = Instead(w, @, None), !.away = Instead(w, @, None),
                     !.current = Instead(w, @, other)]
      u == IF s.saved # w THEN t
           ELSE IF next = None THEN [t EXCEPT !.saved = None]
           ELSE Activate(t, next)
  IN ScheduleRepaint(BuildViewList(u))

DestroyWindow(w) ==
  LET others == shell.open \ {w}
      left == IF others = {} THEN {None} ELSE others
  IN /\ w \in shell.open
     /\ shell.current = w => others # {}
     /\ \E next \in left, other \in left :
          /\ shell' = WindowGone(shell, w, next, other)
          /\ RecordedIf(shell.saved = w /\ next # None)
     /\ pointer' = IF pointer.focus = w
                   THEN [pointer EXCEPT !.focus = "background"] ELSE pointer
     /\ UNCHANGED unasked /\ HelperWaits
-----------------------------------------------------------------------------
(* The compositor's own events.                                            *)

\* weston_output_repaint: the list of views, the pointer, the fade's frame,
\* which schedules the next one unless the animation is done.
Repaint(done) ==
  /\ shell.frame /\ shell.power # "sleeping"
  /\ done => shell.fade.animation
  /\ \E more \in {shell.fade.animation, TRUE} :
     LET s == [BuildViewList(shell) EXCEPT !.frame = more]
     IN /\ Repick(s)
        /\ shell' = IF done THEN ShellFadeDone(s) ELSE s
  /\ repainted' = (shell.locked /\ shell'.locked)
  /\ HistoryAfter(FALSE) /\ UNCHANGED unasked /\ HelperWaits

\* A client commits damage, or the shell damages what it restacks.
ClientDamage ==
  /\ shell.power # "sleeping" /\ ~shell.frame
  /\ shell' = ScheduleRepaint(shell)
  /\ Recorded /\ UNCHANGED <<pointer, unasked>> /\ HelperWaits

\* weston_output_schedule_repaint_reset: the loop ends on a sleeping output.
LoopEnds ==
  /\ shell.power = "sleeping" /\ shell.frame
  /\ shell' = [shell EXCEPT !.frame = FALSE]
  /\ Recorded /\ UNCHANGED <<pointer, unasked>> /\ HelperWaits

\* fade_startup_timeout
StartupTimeout ==
  /\ shell.startup = "timer"
  /\ shell' = ShellFadeStartup(shell)
  /\ Recorded /\ UNCHANGED <<pointer, unasked>> /\ HelperWaits

\* do_shell_fade_startup
StartupIdle ==
  /\ shell.startup = "idle"
  /\ shell' = ShellFade([shell EXCEPT !.startup = "off"], "in")
  /\ Recorded /\ UNCHANGED <<pointer, unasked>> /\ HelperWaits
-----------------------------------------------------------------------------
(* The helper client and its requests.                                     *)

\* launch_desktop_shell_process has started it; bind_desktop_shell
Bind ==
  /\ helper.phase = "starting"
  /\ helper' = [helper EXCEPT !.phase = "bound"]
  /\ shell' = [shell EXCEPT !.bound = TRUE]
  /\ Recorded /\ UNCHANGED <<pointer, events, requests, deaths, unasked>>

\* desktop_shell_desktop_ready, once panels and backgrounds are drawn: it does
\* nothing but this.
DesktopReady ==
  /\ helper.phase = "bound" /\ shell.startup = "timer"
  /\ shell' = ShellFadeStartup(shell)
  /\ Recorded /\ UNCHANGED <<pointer, unasked>> /\ HelperWaits

\* desktop_shell_prepare_lock_surface in the client: one dialog at a time.
PrepareLockSurface ==
  /\ events > 0
  /\ events' = events - 1
  /\ helper' = [helper EXCEPT !.dialog = TRUE]
  /\ requests' = IF helper.dialog THEN requests
                 ELSE requests \o <<"set_lock_surface", "commit">>
  /\ UNCHANGED <<shell, pointer, deaths, repainted, given, revived, unasked>>

\* Mutation: the flag is cleared only when the screen is locked no more.
SetLockSurface_KeepsFlag(s) ==
  IF s.locked THEN [s EXCEPT !.lockSurface = "set"]
  ELSE [s EXCEPT !.prepareSent = FALSE]

\* desktop_shell_set_lock_surface
SetLockSurface(s) ==
  LET t == [s EXCEPT !.prepareSent = FALSE]
  IN IF s.locked THEN [t EXCEPT !.lockSurface = "set"] ELSE t

\* lock_surface_configure, for the first buffer
LockSurfaceConfigure(s) ==
  IF s.lockSurface = "set"
  THEN ScheduleRepaint(ShellFade([s EXCEPT !.lockSurface = "mapped"], "in"))
  ELSE s

\* desktop_shell_unlock
DesktopShellUnlock(s) ==
  LET t == [s EXCEPT !.prepareSent = FALSE]
  IN IF s.locked THEN ResumeDesktop(t) ELSE t

\* handle_lock_surface_destroy; a mapped view leaves the list of views.
LockSurfaceDestroy(s) ==
  LET t == [s EXCEPT !.lockSurface = "none"]
  IN IF s.lockSurface = "mapped" THEN ScheduleRepaint(BuildViewList(t)) ELSE t

\* The handler of one request.
Handled(s, r) ==
  CASE r = "set_lock_surface" -> SetLockSurface(s)
    [] r = "commit" -> LockSurfaceConfigure(s)
    [] r = "unlock" -> DesktopShellUnlock(s)
    [] r = "destroy" -> LockSurfaceDestroy(s)

\* The dialog's view takes the pointer's focus with it.
DialogGone(gone) ==
  pointer' = IF gone /\ pointer.focus = "dialog"
             THEN [pointer EXCEPT !.focus = "background"] ELSE pointer

HandleRequest ==
  /\ requests # <<>>
  /\ shell' = Handled(shell, Head(requests))
  /\ requests' = Tail(requests)
  /\ DialogGone(Head(requests) = "destroy")
  /\ unasked' = (shell'.locked /\ (unasked \/ Head(requests) = "destroy"))
  /\ Recorded /\ UNCHANGED <<helper, events, deaths>>

\* Mutation: the screen stays locked when the helper dies.
Unbind_StaysLocked(s) == [s EXCEPT !.bound = FALSE, !.prepareSent = FALSE]

\* unbind_desktop_shell
Unbind(s) ==
  [(IF s.locked THEN ResumeDesktop(s) ELSE s) EXCEPT
     !.bound = FALSE, !.prepareSent = FALSE]

\* respawn_desktop_shell_process: it is started again unless it died too often
\* or cannot be started.
RespawnOutcomes == {"starting", "gone"}

\* The helper dies: desktop_shell_client_destroy, which respawns it, then its resources, the lock surface among them.
HelperDies ==
  /\ helper.phase = "bound" /\ deaths < MaxDeaths
  /\ deaths' = deaths + 1
  /\ shell' = LockSurfaceDestroy(Unbind(ShellFadeStartup(shell)))
  /\ \E phase \in RespawnOutcomes :
       helper' = [phase |-> phase, dialog |-> FALSE]
  /\ events' = 0 /\ requests' = <<>>
  /\ DialogGone(TRUE)
  /\ unasked' = FALSE
  /\ Recorded
-----------------------------------------------------------------------------
Next ==
  \/ \E w \in Windows : MapWindow(w) \/ DestroyWindow(w)
  \/ Motion \/ Press \/ Release \/ PressSuper \/ PressTab \/ ReleaseSuper
  \/ KeyboardFocusOut \/ KeyboardFocusIn \/ IdleTimeout
  \/ ShowInputPanels \/ HideInputPanels
  \/ \E done \in BOOLEAN : Repaint(done)
  \/ ClientDamage \/ LoopEnds \/ StartupTimeout \/ StartupIdle
  \/ Bind \/ DesktopReady \/ PrepareLockSurface \/ HandleRequest \/ HelperDies

\* The startup timer and idle callbacks are dispatched; a running animation's
\* spring settles, so long as the output is repainted; the helper reads its
\* events, and the compositor the helper's requests.  Nothing is asked of the
\* user, nor of the helper's start.
Fairness ==
  /\ WF_vars(StartupTimeout) /\ WF_vars(StartupIdle)
  /\ SF_vars(Repaint(TRUE))
  /\ WF_vars(PrepareLockSurface) /\ WF_vars(HandleRequest)

Spec == Init /\ [][Next]_vars /\ Fairness
-----------------------------------------------------------------------------
(* Properties.                                                             *)

TypeOK ==
  /\ shell.power \in {"active", "idle", "sleeping"}
  /\ {shell.locked, shell.showing, shell.frame, shell.corrupt, shell.bound,
      shell.prepareSent, shell.fade.view, shell.fade.animation,
      shell.super, shell.switching} \subseteq BOOLEAN
  /\ shell.attached \subseteq Layers /\ shell.open \subseteq Windows
  /\ shell.painted \subseteq Layers \cup Windows
  /\ shell.fade.type \in {"in", "out"}
  /\ shell.startup \in {"timer", "idle", "off"}
  /\ shell.lockSurface \in {"none", "set", "mapped"}
  /\ pointer \in [focus : Foci, held : BOOLEAN]
  /\ helper \in [phase : {"starting", "bound", "gone"}, dialog : BOOLEAN]
  /\ events \in Nat /\ deaths \in 0..MaxDeaths
  /\ requests \in Seq({"set_lock_surface", "commit", "unlock", "destroy"})
  /\ {repainted, given, revived, unasked} \subseteq BOOLEAN

\* Whatever comes between lock() and resume_desktop() - panels shown or hidden,
\* the helper's death - the layers they move are in the compositor's list
\* exactly when they should be, and none is removed or inserted twice, which
\* would corrupt the list (shell.c:5238-5243, 4531-4545, input-panel.c:114, 140).
LayersTrue ==
  /\ ~shell.corrupt
  /\ shell.attached = IF shell.locked THEN {"lock"}
                      ELSE {"panel", "workspace"} \cup InputPanels(shell)

\* Nothing behind a locked screen gets input, however lock, wake-up, repaint and
\* the windows' coming and going interleave.  No window has the keyboard, and
\* the one of a window mapped while locked waits - but for the four ways the
\* code leaves: a click between the wake-up and the next repaint, the switcher
\* (bindings are not disabled, shell.c:5253), the end of the window that had the
\* focus, which activates the next one (shell.c:839), and a keyboard given back
\* to a nested compositor (input.c:1730).  Once the screen was repainted the
\* pointer, unless held, is not over a window.
HiddenGetNoInput ==
  shell.locked =>
    /\ ~given => shell.kfocus = None
    /\ (~pointer.held /\ repainted) =>
         pointer.focus \notin Windows \cup {"input_panel"}

\* What the comment in lock() says: nothing else can receive input events while
\* the screen is locked (shell.c:5234-5236).  It is not so, and no run lists it.
NothingElseGetsInput == shell.locked => shell.kfocus = None

\* Whoever goes, while locked or while a switch is on, no focus is left to a
\* window that is gone: not the one restored at the next unlock (shell.c:935-937,
\* 839), nor the switcher's choice, nor the one a nested compositor gives back, nor
\* the pointer's.
FociLive ==
  /\ {shell.kfocus, shell.saved, shell.away, shell.current}
       \subseteq shell.open \cup {None}
  /\ pointer.focus \in Windows => pointer.focus \in shell.open

\* The helper is asked for a lock surface once: of the event, its dialog's
\* request and the flag there are as many as prepare_event_sent says, and the
\* dialog it shows is the lock surface the shell knows (shell.c:4507, 5274).
OneDialog ==
  LET asked == Cardinality({i \in 1..Len(requests) :
                              requests[i] = "set_lock_surface"})
  IN /\ events + asked = IF shell.prepareSent THEN 1 ELSE 0
     /\ helper.dialog /\ asked = 0 => shell.lockSurface # "none"

\* A fade has the view it fades (fade.view is dereferenced when it is done,
\* shell.c:5291) and the startup's black view waits for its timer or callback.
FadeHasView ==
  /\ shell.fade.animation => shell.fade.view
  /\ shell.fade.view /\ ~shell.fade.animation =>
       shell.startup # "off" \/ shell.locked

\* The screen is locked only at the end of a fade the user did not interrupt:
\* never once a wake-up was handled (shell.c:5289-5296, 5468).
LocksWhenIdle == [][~shell.locked /\ shell'.locked => shell.power = "idle"]_vars

\* What the user sees: the desktop, or the dialog, and no black view.
Visible ==
  /\ ~shell.fade.view
  /\ shell.locked => shell.lockSurface = "mapped"

\* A fade runs on repaints only, and one that was begun while asleep has none
\* scheduled: the wake-up only gives it another target (shell.c:5366).
Stalled == /\ shell.fade.animation /\ ~shell.frame
           /\ shell.power # "sleeping"

\* The shell's state is whole at every moment of a lock: its layers in their
\* list once, one lock surface asked for, no fade without its view.
LockSound == TypeOK /\ LayersTrue /\ OneDialog /\ FadeHasView /\ FociLive

\* Who is awake gets to see the desktop or a dialog, and an idle compositor goes to
\* sleep or is woken, however often the user comes and goes meanwhile and however
\* lock, fade, startup and the helper's death interleave - unless the lock surface
\* was destroyed under a locked screen: unlock() is not called again before the
\* next wake-up (shell.c:4498, 5263); or a fade-in (the startup's, the lock
\* surface's, a resumption's) replaced the fade-out of an idle compositor: then
\* nothing arms the idle timer (compositor.c:3984, shell.c:5366).
Unserved ==
  /\ ~Stalled
  /\ \/ shell.power = "active" /\ ~Visible /\ ~unasked
     \/ shell.power = "idle" /\ ~revived

\* Nobody is left with a black screen, the user who is there or the one who went.
ScreenServed == []<>~Unserved
=============================================================================
