------------------------------- MODULE SeatInput ------------------------------
(***************************************************************************)
(* Input from a SPICE client: the mouse and keyboard interfaces            *)
(* (src/src/spice/weston_input_interfaces.c), the seat with its grabs and  *)
(* foci (src/src/input.c), the bindings (src/src/bindings.c), and what the *)
(* desktop shell (src/desktop-shell/shell.c) and a drag and drop           *)
(* (src/src/data-device.c) do to them.                                     *)
(*                                                                         *)
(* A key is what push_scan_frag makes of a scan code.  A window is a       *)
(* toplevel of a client of its own, which has a wl_pointer.  Where the     *)
(* pointer is over what is left open: pick_view finds any mapped window or *)
(* none.  One workspace, one seat, no touch, no lock screen, nothing       *)
(* minimized or full screen, and every client answers in time.  The        *)
(* shell's helper client has set its grab surface once it has bound.       *)
(***************************************************************************)
EXTENDS Integers, FiniteSets, SequencesExt

CONSTANTS
  Windows,    \* toplevel surfaces
  MaxButtons, \* of the mouse: the left, the middle and the right one
  MaxOdd,     \* bound: presses of a key already pressed and releases of one not
  None        \* the NULL pointer

ASSUME SeatAssumption ==
  /\ None \notin Windows /\ "dangling" \notin Windows
  /\ MaxButtons \in Nat /\ MaxOdd \in Nat

\* Freed memory that a pointer still points to.
Dangling == "dangling"

\* The buttons, in the order weston_mouse_button_notify looks at them.
Buttons == 1 .. MaxButtons
Middle == 2

\* The modifier of the bindings, the key of the switcher and that of a binding
\* whose handler leaves the keyboard alone.
Keys == {"Super", "Tab", "F9"}

VARIABLE
  seat  \* a record:
        \*   keys, super       keyboard->keys; modifier_state has the modifier
        \*   kgrab, key        the keyboard's grab; the key of a binding grab
        \*   kfocus, entered   keyboard->focus; whose wl_keyboard is in its list
        \*   believes, stale   keys that client believes pressed; whether a grab
        \*                     kept a key from it since it was entered
        \*   bound             windows whose client has a wl_keyboard
        \*   buttons           mouse->buttons_state
        \*   button_count, pgrab, pfocus   of the pointer
        \*   pressed           buttons the focused client believes pressed
        \*   kept              history: buttons whose last event a shell grab kept
        \*                     from that client, since it was entered
        \*   helper            shell->child.desktop_shell is set
        \*   grabbed, moving   windows with shsurf->grabbed; grab->shsurf
        \*   idle_inhibit, repeats, strays the compositor's count; odd key events
        \*   window, layer     each window's phase; the workspace, top first
        \*   keyboard_focus    the shell's focus_state
        \*   letGo             the focus was taken away and not given on
        \*   current           the switcher's choice
        \*   assertFailed      activate() was called without a shell surface

Phases == {"none", "unmapped", "mapped", "closing"}

Init ==
  seat = [keys |-> {}, super |-> FALSE, kgrab |-> "default", key |-> "none",
          kfocus |-> None, entered |-> None, believes |-> {}, stale |-> FALSE,
          bound |-> {},
          buttons |-> {}, button_count |-> 0, pgrab |-> "default",
          pfocus |-> None, pressed |-> {}, kept |-> {},
          helper |-> FALSE, grabbed |-> {}, moving |-> None,
          idle_inhibit |-> 0, repeats |-> 0, strays |-> 0,
          window |-> [w \in Windows |-> "none"], layer |-> <<>>,
          keyboard_focus |-> None, letGo |-> FALSE, current |-> None,
          assertFailed |-> FALSE]
-----------------------------------------------------------------------------
\* weston_keyboard_set_focus: leave, then enter with all the keys pressed.
SetKeyboardFocus(c, w) ==
  LET enters == w \in c.bound /\ c.window[w] # "closing"
  IN IF c.kfocus = w THEN c
     ELSE [c EXCEPT !.kfocus = w, !.entered = IF enters THEN w ELSE None,
                    !.believes = IF enters THEN c.keys ELSE {},
                    !.stale = FALSE]

\* weston_pointer_set_focus: the left client forgets its buttons.  A window that
\* has moved under the pointer is left and entered again.
PointerEnters(c, picked) ==
  IF c.pfocus = picked.view /\ ~picked.elsewhere THEN c
  ELSE [c EXCEPT !.pfocus = picked.view, !.pressed = {}, !.kept = {}]

ClearPointerFocus(c) == PointerEnters(c, [view |-> None, elsewhere |-> FALSE])

\* pointer->grab->interface->focus: default_grab_pointer_focus keeps the focus
\* while a button is held; the other grabs leave it alone.
GrabFocus(c, picked) ==
  IF c.pgrab = "default" /\ c.button_count = 0
  THEN PointerEnters(c, picked) ELSE c

\* Mutation: the drag's grab of the keyboard is not ended with it.
EndDrag_KeepsKeyboard(c, picked) ==
  GrabFocus([c EXCEPT !.pgrab = "default"], picked)

\* data_device_end_pointer_drag_grab, with its weston_pointer_end_grab
EndDrag(c, picked) ==
  [GrabFocus([c EXCEPT !.pgrab = "default"], picked) EXCEPT !.kgrab = "default"]

\* weston_layer_entry_remove: a window is in the workspace's list once.
Without(list, w) ==
  IF \E i \in DOMAIN list : list[i] = w
  THEN RemoveAt(list, CHOOSE i \in DOMAIN list : list[i] = w) ELSE list

\* activate(): the window gets the keyboard and comes to the top.
Activate(c, w) ==
  IF w \notin Windows THEN [c EXCEPT !.assertFailed = TRUE]
  ELSE [SetKeyboardFocus(c, w) EXCEPT
          !.keyboard_focus = w, !.letGo = FALSE,
          !.layer = <<w>> \o Without(@, w)]

\* activate_binding
ActivateBinding(c) ==
  IF c.pfocus # None /\ c.keyboard_focus # c.pfocus
  THEN Activate(c, c.pfocus) ELSE c

\* shell_grab_start: the helper's grab_surface gets the pointer, if there is a
\* helper.
ShellGrabStart(c) ==
  [IF c.helper THEN ClearPointerFocus(c) ELSE c EXCEPT
     !.pgrab = "shell", !.grabbed = @ \cup {c.pfocus}, !.moving = c.pfocus]

\* surface_move, or surface_resize from near an edge: not of what is grabbed
MoveOrResize(c) == IF c.pfocus \in c.grabbed THEN c ELSE ShellGrabStart(c)

\* shell_grab_end
ShellGrabEnd(c, picked) ==
  GrabFocus([c EXCEPT !.pgrab = "default", !.grabbed = @ \ {c.moving},
                      !.moving = None], picked)

\* weston_compositor_run_button_binding for a press: with the modifier
\* move_binding, rotate_binding or resize_binding, without
\* click_to_activate_binding.
RunButtonBinding(c, b) ==
  CASE c.super /\ c.pfocus # None ->
         IF b = Middle THEN ShellGrabStart(c) ELSE MoveOrResize(c)
    [] ~c.super /\ b # Middle /\ c.pgrab = "default" -> ActivateBinding(c)
    [] OTHER -> c

\* The button handlers of the pointer's grabs: the default one tells the client,
\* a shell grab does not, whose client it may be.
GrabButton(c, b, press, picked) ==
  LET last == ~press /\ c.button_count = 0
      told == IF c.pfocus = None THEN c
              ELSE [c EXCEPT !.pressed = IF press THEN @ \cup {b} ELSE @ \ {b},
                             !.kept = @ \ {b}]
      untold == IF c.pfocus = None THEN c ELSE [c EXCEPT !.kept = @ \cup {b}]
  IN CASE c.pgrab = "default" -> IF last THEN PointerEnters(told, picked) ELSE told
       [] c.pgrab = "shell" -> IF last THEN ShellGrabEnd(untold, picked) ELSE untold
       [] c.pgrab = "drag" -> IF last THEN EndDrag(c, picked) ELSE c

\* notify_button
NotifyButton(c, b, press, picked) ==
  LET n == IF press THEN 1 ELSE -1
      d == [c EXCEPT !.idle_inhibit = @ + n, !.button_count = @ + n]
  IN GrabButton(IF press THEN RunButtonBinding(d, b) ELSE d, b, press, picked)

\* DELIVER_NOTIFY_BUTTON
DeliverNotifyButton(c, b, buttons, state, picked) ==
  IF (b \in buttons) = (b \in state) THEN c
  ELSE NotifyButton(c, b, b \in state, picked)

\* weston_mouse_button_notify
MouseButtonNotify(c, state, picked) ==
  LET notified[b \in 0 .. MaxButtons] ==
        IF b = 0 THEN c
        ELSE DeliverNotifyButton(notified[b - 1], b, c.buttons, state, picked)
  IN [notified[MaxButtons] EXCEPT !.buttons = state]
-----------------------------------------------------------------------------
\* default_grab_keyboard_key
SendKey(c, k, press) ==
  IF c.entered = None THEN c
  ELSE [c EXCEPT !.believes = IF press THEN @ \cup {k} ELSE @ \ {k}]

\* The drag and the switcher do not pass the event on.
Swallow(c) == [c EXCEPT !.stale = @ \/ c.entered # None]

\* switcher_next: the window below the current one, else the top one.
SwitcherNext(c) ==
  LET below == {i \in DOMAIN c.layer : i > 1 /\ c.layer[i - 1] = c.current}
  IN IF c.layer = <<>> THEN c
     ELSE [c EXCEPT !.current =
             c.layer[IF below = {} THEN 1 ELSE CHOOSE i \in below : TRUE]]

\* switcher_binding
SwitcherBinding(c) ==
  SwitcherNext([SetKeyboardFocus(c, None) EXCEPT !.kgrab = "switcher",
                                                 !.current = None])

\* switcher_destroy
SwitcherDestroy(c) ==
  LET d == IF c.current # None THEN Activate(c, c.current) ELSE c
  IN [d EXCEPT !.kgrab = "default", !.current = None]

\* Mutation: the client is not told that the binding took a key.
InstallBindingGrab_Silent(c, k) == [c EXCEPT !.kgrab = "binding", !.key = k]

\* install_binding_grab: the focus leaves and enters again.
InstallBindingGrab(c, k) ==
  LET d == [c EXCEPT !.kgrab = "binding", !.key = k]
  IN SetKeyboardFocus(SetKeyboardFocus(d, None), c.kfocus)

\* weston_compositor_run_key_binding for a press
RunKeyBinding(c, k) ==
  CASE c.super /\ k = "Tab" -> SwitcherBinding(c)
    [] c.super /\ k = "F9" -> InstallBindingGrab(c, k)
    [] OTHER -> c

\* The key handlers of the keyboard's grabs.
GrabKey(c, k, press) ==
  CASE c.kgrab = "default" -> SendKey(c, k, press)
    [] c.kgrab = "binding" /\ k # c.key -> SendKey(c, k, press)
    [] c.kgrab = "binding" /\ k = c.key /\ ~press ->
         SendKey([c EXCEPT !.kgrab = "default", !.key = "none"], k, press)
    [] c.kgrab = "binding" /\ k = c.key /\ press -> c
    [] c.kgrab = "switcher" /\ k = "Tab" /\ press -> Swallow(SwitcherNext(c))
    [] OTHER -> Swallow(c)

\* update_modifier_state with notify_modifiers: switcher_modifier ends the
\* switcher when the modifier is gone.
UpdateModifierState(c) ==
  LET d == [c EXCEPT !.super = "Super" \in c.keys]
  IN IF d.super # c.super /\ d.kgrab = "switcher" /\ ~d.super
     THEN SwitcherDestroy(d) ELSE d

\* Mutation: a repeat is dropped before it is counted.
NotifyKey_CountsOnce(c, k, press) ==
  IF press /\ k \in c.keys THEN [c EXCEPT !.repeats = @ + 1]
  ELSE LET d == [c EXCEPT
                   !.idle_inhibit = IF press THEN @ + 1 ELSE @ - 1,
                   !.strays = IF press \/ k \in c.keys THEN @ ELSE @ + 1,
                   !.keys = IF press THEN @ \cup {k} ELSE @ \ {k}]
           e == IF press /\ d.kgrab = "default" THEN RunKeyBinding(d, k) ELSE d
       IN UpdateModifierState(GrabKey(e, k, press))

\* notify_key: a repeat is counted by weston_compositor_idle_inhibit before it
\* is found to be one and ignored.
NotifyKey(c, k, press) ==
  LET n == [c EXCEPT !.idle_inhibit = IF press THEN @ + 1 ELSE @ - 1]
      d == [n EXCEPT !.strays = IF press \/ k \in c.keys THEN @ ELSE @ + 1,
                     !.keys = IF press THEN @ \cup {k} ELSE @ \ {k}]
      e == IF press /\ d.kgrab = "default" THEN RunKeyBinding(d, k) ELSE d
  IN IF press /\ k \in c.keys THEN [n EXCEPT !.repeats = @ + 1]
     ELSE UpdateModifierState(GrabKey(e, k, press))
-----------------------------------------------------------------------------
Running == ~seat.assertFailed
Becomes(c) == Running /\ seat' = c

\* What pick_view may find, and whether the window with the pointer is elsewhere
\* under it than it was.
Pickable ==
  {p \in [view : {None} \cup {w \in Windows : seat.window[w] = "mapped"},
          elsewhere : BOOLEAN] : p.elsewhere => p.view = seat.pfocus}

\* weston_mouse_buttons, and the second half of weston_mouse_motion and
\* weston_mouse_position
Mouse(state, picked) ==
  state # seat.buttons /\ Becomes(MouseButtonNotify(seat, state, picked))

\* bind_desktop_shell and unbind_desktop_shell
HelperBinds == ~seat.helper /\ Becomes([seat EXCEPT !.helper = TRUE])
HelperGone == seat.helper /\ Becomes([seat EXCEPT !.helper = FALSE])

\* The motion of the first half, and weston_compositor_repick at the end of each
\* repaint
Repick(picked) == Becomes(GrabFocus(seat, picked))

\* weston_kbd_push_scan_frag: the codes of a key's press or release.  Repeats
\* come from the client; releases of keys not pressed from codes not told apart
\* (the 0xE1 prefix of Pause is taken for one).
PushScanFrag(k, press) ==
  /\ (press <=> k \in seat.keys) => seat.repeats + seat.strays < MaxOdd
  /\ Becomes(NotifyKey(seat, k, press))

\* seat_get_keyboard: a client that has the focus is entered at once.
SeatGetKeyboard(w) ==
  /\ w \notin seat.bound
  /\ LET c == [seat EXCEPT !.bound = @ \cup {w}]
     IN Becomes(IF c.kfocus = w /\ c.window[w] # "closing"
                THEN [c EXCEPT !.entered = w, !.believes = c.keys, !.stale = FALSE]
                ELSE c)

\* keyboard_release: unbind_resource
KeyboardRelease(w) ==
  /\ w \in seat.bound
  /\ LET c == [seat EXCEPT !.bound = @ \ {w}]
     IN Becomes(IF c.entered = w
                THEN [c EXCEPT !.entered = None, !.believes = {}, !.stale = FALSE]
                ELSE c)

\* map(): the shell activates a toplevel it maps.
Map(w) ==
  /\ seat.window[w] \in {"none", "unmapped"}
  /\ Becomes(Activate([seat EXCEPT !.window[w] = "mapped"], w))

\* weston_view_unmap of a window's last mapped view: out of the layer and the
\* foci.
LeaveFoci(c, w) ==
  LET d == IF c.kfocus = w THEN [SetKeyboardFocus(c, None) EXCEPT !.letGo = TRUE]
           ELSE c
  IN IF d.pfocus = w THEN ClearPointerFocus(d) ELSE d

\* A commit with a NULL buffer: weston_surface_unmap
Unmap(w) ==
  /\ seat.window[w] = "mapped"
  /\ Becomes([LeaveFoci(seat, w) EXCEPT !.window[w] = "unmapped",
                                        !.layer = Without(@, w)])

\* Mutation: the next window is focused without being activated.
FocusStateSurfaceDestroy_NoState(c, w) ==
  IF c.keyboard_focus # w THEN c
  ELSE IF c.layer = <<>> THEN [c EXCEPT !.keyboard_focus = None]
  ELSE SetKeyboardFocus([c EXCEPT !.keyboard_focus = None], Head(c.layer))

\* focus_state_surface_destroy: the top window is activated in its place.
FocusStateSurfaceDestroy(c, w) ==
  IF c.keyboard_focus # w THEN c
  ELSE LET d == [c EXCEPT !.keyboard_focus = None]
       IN IF c.layer = <<>> THEN d ELSE Activate(d, Head(c.layer))

\* switcher_handle_surface_destroy: with no window left the choice stays.
SwitcherSurfaceDestroy(c, w) ==
  IF c.current # w THEN c
  ELSE SwitcherNext([c EXCEPT !.current = Dangling])

\* weston_surface_destroy: shell_handle_surface_destroy, in which the grab
\* forgets it (destroy_shell_grab_shsurf), then the listeners of the focus state
\* and the switcher.
Free(c, w) ==
  LET d == [LeaveFoci(c, w) EXCEPT
              !.window[w] = "none", !.layer = Without(@, w),
              !.grabbed = @ \ {w}, !.moving = IF @ = w THEN None ELSE @]
  IN SwitcherSurfaceDestroy(FocusStateSurfaceDestroy(d, w), w)

\* The client destroys its wl_surface: the foci go with the resource
\* (keyboard_focus_resource_destroyed, pointer_focus_resource_destroyed); a
\* mapped window may fade out first (handle_resource_destroy).
Close(w, fades) ==
  /\ seat.window[w] \in {"mapped", "unmapped"}
  /\ LET c == LeaveFoci(seat, w)
     IN Becomes(IF fades /\ seat.window[w] = "mapped"
                THEN [c EXCEPT !.window[w] = "closing"] ELSE Free(c, w))

\* fade_out_done_idle_cb
FadeOutDone(w) == seat.window[w] = "closing" /\ Becomes(Free(seat, w))

\* wl_shell_surface.move: common_surface_move with the press's serial
ClientMove ==
  /\ seat.pfocus # None /\ seat.button_count > 0
  /\ Becomes(MoveOrResize(seat))

\* data_device_start_drag with a source: both grabs are replaced, and a shell
\* grab's window stays "grabbed".
StartDrag ==
  /\ seat.pfocus # None /\ seat.button_count = 1
  /\ LET c == SetKeyboardFocus(ClearPointerFocus(seat), None)
     IN Becomes([c EXCEPT !.pgrab = "drag", !.moving = None,
                          !.kgrab = "drag", !.key = "none",
                          !.current = None, !.letGo = TRUE])

\* destroy_pointer_data_device_source
DragSourceDestroyed(picked) ==
  seat.pgrab = "drag" /\ Becomes(EndDrag(seat, picked))

\* The assertion ended the process.
Aborted == ~Running /\ UNCHANGED seat

Next ==
  \/ \E state \in SUBSET Buttons, p \in Pickable : Mouse(state, p)
  \/ HelperBinds \/ HelperGone
  \/ \E p \in Pickable : Repick(p)
  \/ \E k \in Keys, press \in BOOLEAN : PushScanFrag(k, press)
  \/ \E w \in Windows : SeatGetKeyboard(w)
  \/ \E w \in Windows : KeyboardRelease(w)
  \/ \E w \in Windows : Map(w)
  \/ \E w \in Windows : Unmap(w)
  \/ \E w \in Windows, fades \in BOOLEAN : Close(w, fades)
  \/ \E w \in Windows : FadeOutDone(w)
  \/ ClientMove
  \/ StartDrag
  \/ \E p \in Pickable : DragSourceDestroyed(p)
  \/ Aborted

Spec == Init /\ [][Next]_seat
-----------------------------------------------------------------------------
TypeOK ==
  LET w == Windows \cup {None}
  IN seat \in
      [keys : SUBSET Keys, super : BOOLEAN,
       kgrab : {"default", "binding", "switcher", "drag"},
       key : Keys \cup {"none"}, kfocus : w, entered : w,
       believes : SUBSET Keys, stale : BOOLEAN, bound : SUBSET Windows,
       buttons : SUBSET Buttons, button_count : 0 .. Cardinality(Buttons),
       pgrab : {"default", "shell", "drag"}, pfocus : w,
       pressed : SUBSET Buttons, kept : SUBSET Buttons,
       helper : BOOLEAN, grabbed : SUBSET Windows, moving : w,
       idle_inhibit : Int, repeats : 0 .. MaxOdd, strays : 0 .. MaxOdd,
       window : [Windows -> Phases], layer : Seq(Windows),
       keyboard_focus : w, letGo : BOOLEAN, current : w \cup {Dangling},
       assertFailed : BOOLEAN]

\* What inhibits idling: the keys and buttons held now, and for ever each
\* repeat that was ignored and, the other way, each release of no key.
IdleInhibitExact ==
  seat.idle_inhibit =
    Cardinality(seat.keys) + Cardinality(seat.buttons)
      + seat.repeats - seat.strays

\* "When there has not been any user input for the idle timeout, Weston enters
\* an inactive mode." (man/weston.man:135): nothing held, nothing inhibited.
IdleWithoutInput ==
  seat.keys = {} /\ seat.buttons = {} => seat.idle_inhibit = 0

\* The client under the pointer knows exactly which buttons are held, whatever
\* grabs began and ended and windows came and went while they were: a press and
\* its release never go to different clients.  A shell grab begun while there is no
\* helper (at start-up, or after the helper's death) leaves the pointer with the
\* client and keeps the buttons from it: those it may have wrong until the next
\* event of the button or until it is entered again.
PointerClientTrue ==
  seat.pfocus # None =>
    /\ seat.pgrab # "drag" /\ seat.window[seat.pfocus] = "mapped"
    /\ seat.pgrab = "shell" => seat.moving = seat.pfocus
    /\ \A b \in Buttons \ seat.kept : b \in seat.pressed <=> b \in seat.buttons

\* The client with the keyboard "will know the exact state of the keyboard"
\* (bindings.c:270), unless it was given the focus under a grab that kept a key
\* event from it (a window mapped, or the focused one destroyed, during a switch
\* or a drag) and has not been entered again.
KeyboardClientTrue ==
  seat.entered # None =>
    /\ seat.entered = seat.kfocus
    /\ seat.stale \/ seat.believes = seat.keys

\* A grab lasts no longer than what holds it: no release is missed that would
\* leave the seat grabbed for good, and a drag's two grabs go together.
GrabsEnd ==
  /\ seat.kgrab = "switcher" => seat.super
  /\ seat.kgrab = "binding" => seat.key \in seat.keys
  /\ seat.kgrab = "drag" <=> seat.pgrab = "drag"
  /\ seat.pgrab # "default" => seat.buttons # {}

\* The window with the keyboard exists and is the one the shell holds for
\* activated: the click and the destruction of a window are judged by the latter.
FocusAgrees ==
  seat.kfocus # None => /\ seat.keyboard_focus = seat.kfocus
                        /\ seat.window[seat.kfocus] # "none"

\* While windows are mapped one of them has the keyboard, except during a switch
\* and after the focused one was unmapped, is fading out, or began a drag: then
\* the keyboard is without owner until another window is activated.
KeyboardHasOwner ==
  seat.kfocus = None /\ seat.kgrab # "switcher" /\ ~seat.letGo =>
    \A w \in Windows : seat.window[w] # "mapped"

\* Press and release reach the same client and no client is left with a wrong
\* idea of what is held, whatever grabs came between.
ClientsTold == PointerClientTrue /\ KeyboardClientTrue

\* However the focused window goes, seat and shell agree on who has the keyboard
\* and somebody has it.
FocusKept == TypeOK /\ FocusAgrees /\ KeyboardHasOwner

\* "assert(shsurf)" (shell.c:5107): activate() is called for a window that
\* exists.
ActivateAssert == ~seat.assertFailed
=============================================================================
