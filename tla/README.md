# A verification development for Weston with the SPICE backend

The repository is the Weston compositor (`src/src/`, `src/desktop-shell/`, ...)
extended by a backend (`src/src/spice/`) that serves the desktop to a SPICE
client through libspice-server. This directory holds TLA+ modules translated from
that source, the TLC configurations that check them on small instances, and
proofs, checked by TLAPS, of what holds for every instance. Paths below are as
in the sources, with `src/` for the repository's root.

## 1. The system

### Components, state, operations

| component | state it keeps | operations |
|---|---|---|
| SPICE command ring (`src/src/spice/weston_qxl_interface.c`, `weston_qxl_commands.c`) | `commands.vector`, `start`, `end`: plain ints shared by two threads | `push_command`, `weston_spice_get_command`, `weston_spice_release_resource`, the drain in `weston_spice_qxl_destroy` |
| SPICE server and output (`compositor-spice.c`) | the wake-up timer, the live frame buffer, the worker's attachment | `spice_backend_create`, `spice_output_start_repaint_loop`, `spice_output_repaint`, `on_wakeup`, destruction |
| SPICE input (`weston_input_interfaces.c`) | the buttons' last state, the scan-code prefix | `weston_mouse_motion`, `weston_mouse_buttons`, `weston_kbd_push_scan_frag` |
| SPICE event loop adapter (`weston_basic_event_loop.c`) | timers and watches libspice-server asked for | `timer_add/start/cancel/remove`, `watch_add/update/remove` |
| Repaint machinery (`src/src/compositor.c`) | per output: `repaint_needed`, `repaint_scheduled`, `repaint_timer`, feedback; per surface: callbacks, damage; the power state, `input_loop_source` | `weston_output_schedule_repaint`, `idle_repaint`, `output_repaint_timer_handler`, `weston_output_repaint`, `weston_output_finish_frame`, sleep, wake, off screen, idle |
| Surfaces and sub-surfaces (`compositor.c`) | pending, cached and current state; buffer references; the tree | attach, commit, `set_sync`, `set_desync`, `get_subsurface`, destruction of each object |
| DRM backend (`compositor-drm.c`) | `current`, `next`, pending flags, sprites, the session | repaint, page-flip and vblank events, unplugging, VT switches |
| Seats (`input.c`, `bindings.c`) | keys, buttons, grabs, foci, `idle_inhibit` | key, button and motion events, grabs, bindings |
| Desktop shell, windows (`src/desktop-shell/shell.c`) | layers, focus state, the switcher | map, activate, close, move, switch |
| Desktop shell, lock (`shell.c`, `input-panel.c`) | `locked`, layers, the fade, the lock surface, the helper client | idle, fade, lock, wake, unlock, start-up, the helper's death |
| Drag and drop (`data-device.c`) | the drag's grab, source and offers, their actions | `start_drag`, accept, set actions, drop, finish, cancel, every destruction |
| Selection and clipboard (`data-device.c`, `clipboard.c`) | `selection_data_source`, `selection_serial`, the clipboard's copy and its references | `set_selection`, focus changes, `receive`, both ends of the pipes |
| IVI shell (`src/ivi-shell/ivi-layout.c`, `ivi-layout-transition.c`) | committed and pending order of layers and surfaces, the list of views, the transitions and their timer | the controller's calls, `ivi_layout_commit_changes`, the transitions' frames, surfaces and layers that come and go |

Not part of this development and why: section 7 and, part by part, `components`
in `PROJECT.json`.

### How they interact

* The **compositor thread** runs `wl_event_loop_dispatch`: client requests, timers
  and libspice-server's watches, then the idle callbacks. All of Weston runs there,
  each handler to its end. A repaint of the SPICE output renders with pixman into a
  frame buffer and pushes a QXL command that refers to it.
* The **worker thread** of libspice-server polls `weston_spice_get_command`. It shares
  the ring with the compositor thread, with neither lock nor atomic, and the frame
  buffer its commands point to.
* Backends call `weston_output_finish_frame` when a frame is done; that repaints, or
  arms the timer that will, or ends the loop. Callbacks re-enter the core in the same
  handler (an input handler in a repaint may schedule another).
* The shell listens to the core's idle, wake and destroy signals and answers them by
  changing foci, grabs and power states. It asks a **helper client** for the unlock
  dialog, which answers with requests, later or never, and which is started again
  when it dies.
* The seat emits a signal when the selection changes; the clipboard, in its handler,
  may set the selection itself.
* A **controller module** of the IVI shell edits the pending scene and commits it;
  so do the transitions, from their timer, on the same pending state.

### What is hard, and what makes it correct

`hazards` in `PROJECT.json` lists each hazard at its line. By component:

* Ring: two threads, unsynchronised loads and stores, the wrap of both indices.
  Commands come in order, once; no slot in use is overwritten; no index leaves the array.
* Server: a start that fails at any step, a shutdown while the worker draws, a frame
  buffer read while it is rendered. Nothing freed is reached, every command is released
  once, and what the client sees catches up with what was committed.
* Repaint: the loop's next step is one of four things (idle callback, timer, backend
  event, nothing) and any of a failed repaint, sleep, a VT switch or a second commit may
  come between. Exactly one continuation per scheduled repaint; every committed update
  is shown and its callback answered; no feedback lost or answered twice.
* Surfaces: state waits in up to three places; whether a sub-surface is synchronized
  depends on its ancestors. Buffers are released exactly when unreferenced, synchronized
  state becomes current as one, the tree stays a tree.
* Input: windows come and go, and grabs replace each other, between a press and its release.
  A client knows what is pressed, a grab ends with what holds it, the keyboard has an owner.
  The shell's grabs lean on a surface of the helper client, which may not be there.
* Lock: the fade, the wake-up, the helper's answers and its death come in any order, and
  windows come and go meanwhile. The layers are where they belong, no focus is left to what is gone, nothing
  behind the lock gets input (but as section 5 says), the screen is
  locked only on a user who is away, and the user who is back sees something.
* Drag, selection: up to three clients and the compositor destroy what refers to each
  other. No reference but `drag->focus` dangles; both ends agree on the action; each is told the end once;
  as long as there is a copy there is something to paste.
* IVI scene: two orders of everything, one pending; a list of views rebuilt at each
  commit by its head only; animations that write the same pending properties as the
  controller. What was asked last is what is drawn and told in the end.

## 2. Modules

| module | models | composes |
|---|---|---|
| `SpiceQueue` | the ring, at the grain of single memory accesses | |
| `BoundedFifo` | what the ring promises | implemented by `SpiceQueue` (`ImplementsFifo`) |
| `SpiceServer` | start-up, worker, frame buffer, shutdown of the SPICE backend | |
| `RepaintCore` | the repaint functions and power states of `compositor.c`, as operators on a compositor record | instantiated by both outputs |
| `SpiceOutput` | the SPICE frame loop with timer, queue and worker | `RepaintCore` |
| `DrmOutput` | the DRM frame loop with kernel events, session, unplugging | `RepaintCore` |
| `UpdateLife` | what a client is promised of each commit | implemented by `SpiceOutput` and `DrmOutput` (`ImplementsUpdates`) |
| `SurfaceTree`, `MCSurfaceTree` | `wl_surface.commit` in a tree of sub-surfaces | |
| `SeatInput`, `MCSeatInput` | mouse and keyboard of a SPICE client, seat, bindings, shell focus | |
| `ScreenLock` | idle, fade, lock and unlock of the desktop shell, with its helper client and the windows behind it | |
| `DragAndDrop` | a drag, its negotiation, its drop and its end | |
| `Selection`, `MCSelection` | the selection and the clipboard, each calling the other | |
| `IviScene`, `MCIviScene` | the IVI shell's scene, commits, and list of views with its pointers | |
| `IviTransition` | the IVI shell's animations over its commits | |
| `DrmOutput_proofs`, `SurfaceTree_proofs`, `SeatInput_proofs`, `DragAndDrop_proofs` | theorems about the module of that name | extend it |
| `SpiceBackend_proofs` | theorems about `SpiceQueue`, `SpiceServer` and `SpiceOutput` | extends all three, hence `ServerSpec`, `OutputSpec`, `OutputWakeup`, ... in the latter two |
| `Shells_proofs` | theorems about `ScreenLock` and `IviTransition` | extends both, hence `TransitionSpec`, ... in the latter |
| `SelectionAndScene_proofs` | theorems about `Selection` and `IviScene` | extends both, hence `SceneSpec`, ... in the latter |
| `RepaintLemmas` | what each operator of `RepaintCore` changes | used by the proofs of both outputs |

`map` in `PROJECT.json` gives the source lines of every definition. A definition
`X_Y` under a comment "Mutation" is `X` with a plausible mistake; it is not part of
any specification, and each property of a passing run is violated when `X` is replaced
by such a variant.

### SpiceQueue

`ppc` and `cpc` are the two program counters, `regE`, `regS` and `cEnd` the values a thread
has loaded. Each step makes at most one access to a location the other thread writes.
`push_command` is `PushBegin` to `PushInc`; its loop condition may use the values of
the assertion before it or fresh ones, and the store and the increment may each load
`end` again (`PushReload`), since a build may do either with a plain int. Stores of one
thread are seen in program order, as on x86. `GetCount` to `GetAssert` are
`weston_spice_get_command`; `Release` frees a command; `VmStop`, `DrainStep` and `DrainDone`
are the shutdown. `raced` records that a push was under way while the worker was
reducing the indices: the window the code leaves open. Commands are numbered by the
order of their acceptance, and a slot holds such a number.

### SpiceServer

`pc` walks through `spice_backend_create`, each step of which may fail, the main loop
and the shutdown; `memory` is what is allocated. The worker is attached, given the primary
surface, started with the first repaint, takes a command, reads the frame buffer and
releases the command, at any time between two steps of the main thread. A frame has
two halves, rendered and read one after the other, so that the worker may see half of
the next frame: the code lets it, and `PictureCatchesUp` says that this is repaired by
the next command. Here the ring is a queue; its race and wrap are `SpiceQueue`'s.

### RepaintCore, SpiceOutput, DrmOutput, UpdateLife

The code composes the core's functions inside one event handler, so each is an operator
from a compositor record to a compositor record, and a backend's action is a
composition of them: `OutputWakeup` is `ScheduleRepaint(FinishFrame(...))`, and `FinishFrame`
contains `TimerHandler`, with what the backend's repaint did as an argument. Commits
are numbered; commit n brings damage n, callback n and feedback n, so that a list of
any of them is a set of numbers. `RepaintDelay` is the code's arithmetic with its
truncation; the SPICE mode's refresh of 6 mHz overflows 32 bits and the constant
`RefreshNsec` is what remains.

In `SpiceOutput` the ring is a queue of the length given (what `SpiceQueue` shows of
it, without the race), and `fired` limits the timer to one dispatch in a turn of the
event loop. In `DrmOutput` a frame buffer is the set of commits rendered into it, and
`flip` and `vblank` are the events the kernel owes. `Running` ends the model at a failed
assertion and when the output is freed, though the code goes on: see section 5.

`UpdateLife` forgets the loop, the timers and the kernel: a commit is made; a repaint
takes all waiting callbacks at once; feedback is then presented or discarded, once;
and only what was repainted is shown. Both outputs implement it with the same
refinement mapping in spirit: lists of the surface and of the output together are the
feedback that waits.

### SurfaceTree

Handlers compose operators on the pair of variables, as above. A surface has a `pending`
and a `cached` state and three buffer references, which are counted in
`buffer.busy_count` as the code does. A commit that takes the cached path applies the
damage to the surface's old buffer, as `weston_subsurface_commit_to_cache` does. The
recursion over the tree in `weston_subsurface_synchronized_commit` flushes every cache
below, in an order that does not matter to the state kept here.

### SeatInput

One record `seat` carries the seat, the shell's focus state and the windows. An action is
an event: a mouse message (which may report several of the buttons `1 .. MaxButtons`,
notified of in the order of their numbers), a scan code, a client's request, a repaint's repick. `pick_view` may find any mapped
window. A window is `none`, `unmapped`, `mapped` or `closing` (fading out after its client
destroyed it). `stale` says that a grab kept a key event from the client with the focus; `kept`
are the buttons of which a shell grab kept the last event from the client with the pointer.
`ShellGrabStart` moves the pointer to the helper's surface only if there is a helper (`helper`),
which comes and goes (`HelperBinds`, `HelperGone`); `grabbed` and `moving` are the shell
surfaces' `grabbed` and the grab's `shsurf`. What the pointer picks is a window and whether it has
moved under the pointer: then it is left and entered again, as `weston_pointer_set_focus` does when only the
coordinates change. Left out: the cursor over a busy window, a resize begun far from the edges (which
grabs nothing), and a helper that has bound but not yet set its grab surface, where
`weston_pointer_set_focus` fails its assertion on the coordinates of no view.

### ScreenLock

The record `shell` carries the shell's fields and the compositor's power state; `lock`,
`unlock`, `resume_desktop`, `shell_fade` and `weston_compositor_wake` are operators on it,
nested as the code nests them. A layer is in `compositor->layer_list` or not (`attached`),
and its views are in the list the pointer picks from once that was rebuilt (`painted`): the
two differ between a wake-up and the next repaint. `corrupt` records an insertion of a layer
that is in the list, or a removal of one that is not. `helper`, `events` and `requests` are
the helper client and what is under way in both directions, in order. Windows are mapped
and destroyed, locked or not: `WindowGone` is `focus_state_surface_destroy` with the switcher's listener and
the nested compositor's, and `BuildViewList` the rebuilding that comes with it. `switching` and
`current` are the switcher, `away` is `seat->saved_kbd_focus`, which `KeyboardFocusIn` gives
back. `activate` asks nothing of the lock, and neither do its callers here except `map`.
Four history variables name the situations the code does not handle (section 5).

### DragAndDrop, Selection

In both, one record is the state and the functions of `data-device.c` and `clipboard.c` are
operators on it. In `DragAndDrop` a source has heard a set of events, and an offer has its
own view of the action; `Odd` names what the code does not survive or answers wrongly, and
`seen` that it happened: the properties say what holds otherwise. `crashed` ends the
model at the dereference of a NULL pointer, or of a freed one. The view under the drag may be destroyed, which
nothing tells the drag: `focus` is then `Freed`, and the next `weston_drag_set_focus` follows it.
What it reads there is any of `Reads`: the surface it is compared with, another, or a crash.
`resource` is the client of `focus_resource`, which has a listener and goes with its device.

In `Selection` a claim is made with a serial that
may be stale, with the code's unsigned comparison on serials that wrap; the clipboard's
sources have the code's reference counts, and `failed` ends the model after a read that fails.
The focus moves in two ways: `Activate` sends the selection, `SetFocusOnly` does not. `got` is what the
client with the focus was sent since it has it, "unsent" if that is nothing, "unknown" where the code owes it nothing.
`DestroyOffer` is `destroy_data_offer`, by a client with or without the focus; of a source,
"misled" is one that heard "cancelled" and is the selection.

### IviScene, IviTransition

`IviScene` keeps `layout_layer.view_list` as the links of a `wl_list`, since the code empties
it by its head alone and unlinks views from wherever they point to: `stray` records that this
happened. A view goes with its `wl_surface` (`ViewDestroy`) or stays and leaves the list when
its surface is unmapped (`Unmap`), until a commit links it again. Everything else is sequences, committed and pending. `IviTransition` follows one
surface on one layer through moves, fades and layer moves; a rectangle is a number, an
opacity a step, and a moment between a transition's ends gives any value between its ends.
`want` and `layerWant` are what was asked for last, `view` and `told` what the renderer and the
listeners have; `jumped` records a rectangle that was committed without an event.

## 3. The runs

| run | instance | states | question |
|---|---|---|---|
| `queue_safety` | ring of 2 slots, 1 sleep, 6 frames | 169k | do all interleavings, absent the race, keep the ring a FIFO, and is every command taken |
| `queue_assert` | the same | | (section 5) |
| `spice_server` | 3 commits, ring of 3 | 55k | is nothing freed reached, whatever fails and whenever it ends; does the picture catch up |
| `spice_output` | 3 commits, queue of 2 | 28k | does the SPICE loop show every commit and answer every callback, losing nothing |
| `drm_output` | 2 commits | 122k | has the DRM loop exactly one continuation, and does it show and answer every commit |
| `surface_tree` | 3 surfaces, 2 buffers, 2 commits | 148k | buffers, callbacks, tree and atomicity |
| `seat_input` | 2 windows, 2 buttons, 3 keys, 1 repeat or stray release | 2.3M | what clients believe, grabs' ends, foci, with and without the helper |
| `screen_lock` | 2 windows, 1 death of the helper | 838k | are the lock's layers and foci whole, is it tight but for four ways, only on the absent, and never a black screen for who is there |
| `drag_and_drop` | 2 clients, 1 source, 2 offers, 1 loss | 1.0M | does a drag end once, as agreed, with nothing dangling but the drag's focus |
| `selection` | 2 clients, 2 sources, 2 copies, 5 serials, 1 paste | 1.3M | is the selection alive and known, and is the clipboard there when its owner is gone |
| `ivi_scene` | 2 surfaces, 2 layers, 2 calls between commits, 1 call about layers | 1.5M | is each surface in one place, and the drawn list the committed one |
| `ivi_transition` | 2 rectangles, 3 opacities, 2 frames, 2 commits | 523k | do animations end where the last request said, drawn and told |

A property whose name is a conjunction of named parts (`LockSound`, `TreeSound`,
`SourcesSound`, `DragSound`, `SceneSound`, ...) has the module's type invariant as one of them.

**Bounds.** With a ring of 2 slots and 6 frames both indices wrap at least twice, with
the ring empty, partly full and full at a wrap; 1 sleep suffices to be refused after
waiting. The proofs remove these bounds. For the outputs, with 3 commits one can be on the
screen, one in the queue and one still damage; with a queue of 2 the third is refused
or replaces the oldest. On DRM 2 commits put one in `current` and one in `next`, with the
loop started a second time between them. In `spice_server` a ring of 3 has one command with
the worker, one queued and one refused at the next repaint. 3 surfaces make a chain of two
sub-surfaces (nested synchronization) and let one be moved from one parent to the other; 2
buffers make an attach replace a different or the same one; 2 commits put one in the cache
and one above it. 2 windows and 2 buttons are the least with a release that is not the
last, and a focus to be lost to another window, and the second button is the middle one, whose
binding differs; a repeat and a stray release are counted one
by one, so that one of either shows its effect. One death of the helper comes at
any moment of a lock, and the lock that follows it has a helper again, or none. A drag needs a client to leave and one to
enter, hence 2 clients (the source's among them) and 2 offers; a selection needs an owner
and a claimant, the one copied and the one that replaces it. With 5 serials a claim is
newer, as old or older, the comparison wrapping in either direction. 2 IVI surfaces on 2 layers are the least where one layer's commit takes
a surface from the other. Every counter is bounded in a guard by a named constant
(`MaxFrames`, `MaxCommits`, `MaxOdd`, `MaxDeaths`, `MaxLost`, `MaxReads`, `MaxCalls`, ...), never by a constraint.

**Symmetry** is used in runs without liveness, on surfaces, buffers, windows of the seat, clients,
sources, layers. Buttons are not symmetric, because the backend notifies in a fixed order.

**Deadlock** is checked where a running program never stops: ring, outputs, surfaces,
seat and lock (with the end of a behaviour an explicit step: `Exited`, `Stopped`, `Aborted`). It
is not in `SpiceServer`, which exits, nor where the bounds exhaust what can happen:
`DragAndDrop` (each source is dragged once), `Selection` (nothing follows a failed read),
`IviScene` and `IviTransition` (a bounded number of calls).

**Fairness.** `SpiceQueue`: weak fairness of the worker's `get_command`, since
libspice-server polls it after each `spice_qxl_wakeup` and neither thread stops within
a call; none for the compositor. `SpiceServer`: weak fairness of both threads, strong
fairness of a repaint that queues a command; nobody need end the program. `SpiceOutput`: weak
fairness of a turn's end, of the armed timer and of the worker, as `wl_event_loop_dispatch`
dispatches due timers and then idle callbacks; strong fairness of a wake-up that queues a
command, that is, memory is not exhausted and the ring not full at every single frame.
`DrmOutput`: weak fairness of timer and idle callback, and of the events the kernel was
successfully asked for. `ScreenLock`: weak fairness of the start-up timer and callback, of the
helper's reading of events and the compositor's of requests, and strong fairness of the
repaint at which the fade's spring has settled. `DragAndDrop`: a client lets go of an
offer that is no longer under the drag. `IviTransition`: weak fairness of the timer that is set.
No fairness of users, power changes, VT switches, nor otherwise of clients. The
liveness properties name what excuses them; a behaviour where repaints or requests
fail is excused only in `DrmOutput`, where a failed vblank request really stops the loop.

## 4. What is proved

Every theorem is of the specification the runs check, for every value of the constants
the module's assumption allows (positive sizes, any number of commits, windows, sources).

**The ring** (`SpiceBackend_proofs`), with no assumption on the interleaving:

* `Invariance`: `Spec => []IInv`.
* `UnracedSafety`: until a push overlaps the wrap, `ASSERT_COMMANDS` holds, the worker
  reads the oldest command not yet taken (`ReadsOldestCommand`), and a push stores into a
  slot no waiting command occupies.
* `WorkerStaysInRing`: the worker's index stays in the array, raced or not.
* `Refinement`: `Spec => ImplementsFifo`. Each step of the two threads, as long as they
  have not raced, is a step of `BoundedFifo` or leaves it alone, when its `queue` is read
  from the ring's slots (`Waiting`).

None of the properties is inductive: that the ring is not overwritten depends on what
the producer has loaded, on where the consumer is in its three-step wrap, and on which
commands lie in which slots. `IInv` is `TypeOK /\ ControlInv /\ RingInv`. `ControlInv`
relates program counters and the VM's phase and bounds `start`; it holds in raced
behaviours too, which is why `WorkerInBounds` does. `RingInv`, while unraced and running,
is the conjunction of `IndicesInv` (which values the indices have inside the wrap),
`CountInv` (`Past - First`, the length as it really is inside a call, is `sent - got` and
at most the size), `ContentsInv` (the slots from `First` hold consecutive numbers from
`got + 1`) and `PushInv` (a loaded `end` is still `end`, a loaded `start` is at most `start`,
hence a ring found not full is not full). Remainders are dealt with once, in `SlotValue`.
The refinement rests on `WaitingNumbers` (the queue is `got + 1 .. sent`), `StepCounters`
(only `PushInc` and `GetRead` change those numbers) and `FunctionSequence`.

**The SPICE output** (`SpiceBackend_proofs`): `OutputInvariance`, `InputIsServed`,
`DamageIsKept` and `UpdatesRefinement` (`OutputSpec => ImplementsUpdates`). The invariant adds to the
types `LoopInv` (while the loop is scheduled there is an idle callback or the timer to
continue it, at most one callback more than the timer's reset explains, and the input
source is out of the main loop only while the loop is scheduled; the property alone does
not say who performs the repaint), `DamageInv` (each commit's damage is on the surface or the
plane) and `LifeInv` (a commit whose callback waits has been repainted nowhere: neither
in a queued command nor on the screen nor in the output's feedback). `LifeInv` is what makes each
step a step of `UpdateLife`.

**The DRM output** (`DrmOutput_proofs`): `Invariance`, `LoopIsOne` (`OneLoop`),
`PresentedIsShown` (`PresentedWasDisplayed`) and `Refinement`. The invariant has `FlagsOk`
(the pending flags against the events the kernel owes), `LoopOk` (the loop's one
continuation among idle callback, timer, flip and vblank, with the state that a VT
switch or a failed request leaves), `LifeOk` (as `LifeInv`, for `current`, `next` and the
sprite) and `ShownOk` (feedback that waits for an event is of commits on the screen or in
the buffer about to be flipped to, as long as no repaint failed). The types contain a
previous power state the model's start never reaches, since the proof needs no more.

Both rest on `RepaintLemmas`: one lemma for each operator of `RepaintCore` that says which
fields it changes and what stays typed; the operators are opaque after that.

**The SPICE server** (`SpiceBackend_proofs`): `ServerInvariance` and `NothingEverDangles`
(`NothingDangles`), through every failure and at any moment of a shutdown. Beside types,
`Shared` says that the ring and the worker share out the allocated commands, none twice;
`Placed` says what exists and what runs at each place of start-up and shutdown. That a
command can be allocated while the ring has room is a matter of cardinality (`FreeCmd`).

**The surface tree** (`SurfaceTree_proofs`), all its run checks, for any finite set of surfaces,
any buffers and any number of commits: `TreeTheorem` (`TreeSound`), `BuffersTheorem`
(`BuffersAccounted`), `CallbacksTheorem` (`CallbacksAccounted`) and `SyncTheorem` (`SyncKept`, two
action properties). `Sound` says that the counts are of the references (`Counted`), that a buffer
is free exactly when nothing refers to it (`Owned`, whose argument is the buffer of a commit just
requested, no longer the client's and not yet referred to) and what a surface may hold (`Fine`);
`Good` adds that no surface is above itself and the bound of commits. What is above a surface is the
least set closed under parents; that it can be reached by climbing as often as there are surfaces,
which is how `Ancestry` is written, is a pigeonhole argument (`AncestryIs`). A commit descends
through the caches by a fold over the synchronized children; the lemmas hold of every function that
satisfies the fold's equation, and so need no induction theorem. Trying to prove `SyncKept` showed
that `FlushedWhenDesync` had excused too little: with four surfaces, the destruction of a sub-surface
that is not itself synchronized, between a surface and what synchronizes it, leaves a cache too. The run's three
surfaces cannot show that; the property now excuses the end of any object above.

**The seat** (`SeatInput_proofs`), all its run checks, for any number of windows and
buttons: `FocusTheorem` (`FocusKept`), `IdleTheorem` (`IdleInhibitExact`), `ClientsTheorem`
(`ClientsTold`) and `GrabsTheorem` (`GrabsEnd`). No property is inductive alone: who gets the
keyboard when a window goes depends on the layer, which must have every mapped window
(`Layered`); that a key reaches the client depends on the grabs; the count, on what the button
handlers do in the middle of a message. The invariant is `Good(c, P, B, K)`, of a record
`c` in which the buttons `B` and keys `c.keys` are held, the pointer's client was told of `P`
and the keyboard's of `K`: between two events the three agree (`Whole`), inside a handler they do
not, and each operator's lemma says how it moves them. Equal they need be only outside `kept`, and
with a shell grab only while the pointer's client is the one whose window it moves. A mouse message notifies of the buttons one
after the other in a recursive function, and `MouseButtonNotifyFacts` is an induction on
how far it has come. Since the library's induction theorems cannot be used, `Induction` is
derived from the least element of a set of naturals, and `RunsExist` gives the function.

**The lock** (`Shells_proofs`), all its safety: `LockIsSound` (`LockSound`),
`HiddenIsDeaf` (`HiddenGetNoInput`) and `LocksOnlyIdle` (`LocksWhenIdle`, an action property),
from `Inductive`. The invariant is about the record (`Shaped`, `Whole`), the conversation with
the helper (`Talk`), the foci (`Living`: none is a window that is gone; `Lists`: the list of views and the
pointer have open windows only) and what is behind the lock (`Hidden`). `Whole` adds to `LayersTrue` and
`FadeHasView` that, unlocked and awake, a fade is one to the desktop: that is what a wake-up
must do for `LocksWhenIdle` to hold. `Talk` finds that the queue of requests is one of five
(nothing; a lock surface asked for, or half of it read; a click on the dialog's button, or
half of that read) and relates each to the flag, the event, the dialog and the lock surface;
without it `OneDialog`, a count, is not inductive. `Hidden` adds that the list of views of a locked and
repainted screen has the lock's layer only.

**The selection** (`SelectionAndScene_proofs`), all its run checks: `SourcesAreSound`
(`SourcesSound`), `CopyIsOffered` (`ClipboardTakesOver`) and `ClientsAreInformed`
(`ClientsInformed`). Of the properties, `SelectionAlive` alone is not inductive: that a paste's end
does not free the selected copy needs `OwnCopy` (a copy that is selected is the one the
clipboard holds, so that a reference remains) besides the counted references. The lemmas follow the calls: the
clipboard's answer (`RestoreFacts`) is proved of any record in which nothing is selected, and used
for the destruction of the selected source and for an X client's that is gone.

**A drag** (`DragAndDrop_proofs`), all its safety: `DragIsSound` (`DragSound`),
`SourceHearsTheTruth` (`SourceHearsTrue`) and `DropsAreConsented` (`DropConsented`, an action
property). `Full` has the types, the pointers (`Links`), where the drag is (`Place`) and what
each source knows of itself (`Life`, `Born`, `Agree`, `Calm`). Three of its parts say what the
code relies on without a test. An offer that has taken what its source counts as accepted is
the source's present one (`Life`). The present offer is of the client that has the drag's
`focus_resource`, whatever became of its window (`Place`). A second offer of a source is one left behind by a drop (`Agree`), so
that what both ends were told of the action is about the same offer. What ends a drag keeps
less than what goes on with one, hence `Core` without `Place` and `Calm`: `EndKeeps` shows that
`EndDrag` restores the whole from `Core`, wherever it is called.

**The IVI shell's transitions** (`Shells_proofs`), all their safety, for any places, opacities and
duration and any number of moves of the layer: `LandsTheorem` (`LandsAsAsked`) and `ShownTheorem`
(`SeenAndTold`). Where a surface is to land is said of the moment when nothing moves it; the
invariant says it of every moment before (`SurfaceHeads`, `LayerHeads`): a running move ends at
the place wanted, a running fade has the wanted visibility and remembers the wanted opacity,
and one to show ends with that. `OldestFirst`, that of two moves of the layer the older is never behind, is why
those that are done in a frame are the last of the list (`SomeMovesGoOn`). The proof corrected
the model twice, both for three moves at a time, which the run does not have: a drag of the layer
leaves the latest of the other moves to decide, not the oldest; and the older one's end stays
only if all that are left are done in one frame. It also showed that `DrawnRight` and
`ToldAll` need not be excused while the surface moves.

**The IVI shell's scene** (`SelectionAndScene_proofs`), all its run checks, for any finite sets of
surfaces and layers and any number of calls: `SceneTheorem` (`SceneSound`) and `ViewListTheorem`
(`ViewListSound`), from `SceneInductive`. `ListsKept` adds that no layer is on the screen twice and
that one out of the layout was destroyed at some time, which is why a layer made again in the same
memory is excused in `OnLayerTrue`. `SceneKept` is of the surfaces' and layers' records alone, so
that it can be said of a commit half done: one turn of `commit_layer_list` preserves it
(`TurnKeepsScene`), though the pending list takes surfaces from layers whose turn is over or is still to come,
and so does the loop. `LinksKept` says that the pointers are a ring
through the views: inserting in front keeps it (`InsertStacks`), a view that is in the list leaves it
whole (`UnlinkRing`), and one whose links are its own changes nothing (`UnlinkOutside`);
any other unlinked view sets `stray`. Lists are reasoned about by what is in them and what comes
before what; the recursive functions (`Keep`, `CommitLists`, `ViewsOf`, `LinkViews`) by `Induction`
along the list, after a lemma that a function with that equation exists.

**Only model-checked:** every liveness property (fairness and ENABLED are outside the
prover's logic). What a recursive operator yields
for every argument is out of the prover's reach; the lemmas above go around that where the
code's loop runs over numbers or is a fold over a set.

## 5. Disagreements found while modelling

`queue_assert` is the one kept as a run, with an entry under `findings`: the worker
reduces `start` and `end` in two stores; a push between them makes `ASSERT_COMMANDS` fail
(`weston_qxl_interface.c:145`). The others are in the models too, as what the properties
except or as definitions no configuration lists; each can be seen by adding the name given as an
INVARIANT of the run.

* Drain (`SpiceQueue`'s `DrainInBounds`): the drain at shutdown does not reduce its index
  and leaves the array when the waiting commands wrap (`weston_qxl_interface.c:353`).
* Presented (`SpiceOutput`'s `PresentedWasDisplayed`): a frame is reported as presented though
  the worker has not taken it, or it was refused (`compositor-spice.c:121`).
* Refused flip (`DrmOutput`'s `PresentAssertion`): feedback stays in the output's list, and
  the assertion in `weston_presentation_feedback_present_list` fails at the loop's restart
  (`compositor-drm.c:672`).
* Damage (`SurfaceTree`'s `DamageAfterAttach`): damage of a commit that goes to the
  cache is applied before its buffer is attached, contrary to the comment on
  `apply_damage_buffer` (`compositor.c:3164`).
* Idle (`SeatInput`'s `IdleWithoutInput`): a repeated press inhibits
  idling for good (`input.c:1635`).
* Lock (`ScreenLock`'s `NothingElseGetsInput`): `lock()` hides the layers so that "nothing else can
  show or receive input events while we are locked" (`shell.c:5234`), and a hidden window is given the
  keyboard all the same, in the four ways listed under Lock below; no click is needed (`shell.c:839`).
* Switcher (`SeatInput`'s `ActivateAssert`): the last window's destruction during a switch
  leaves the switcher with a freed surface, for which `activate` is then called (`shell.c:6025`).

What the properties except, and why:

* Server: a command that is refused leaks; so do the frame buffer's bits when the output is destroyed,
  and only because they do is it safe that the worker still reads them. A start that fails
  frees the backend of which libspice-server still has the interface.
* Lock: while locked a window is given the keyboard (`given`) by a click between the wake-up and the first
  repaint, which still finds it in the list of views; by the switcher, since bindings are not
  disabled (the TODO at `shell.c:5253`); by the end of the window whose focus the shell keeps,
  which activates the next (`shell.c:839`); and by a nested compositor's keyboard coming back
  (`input.c:1730`). A button held over the lock keeps the pointer where it was. A fade begun asleep has no repaint
  scheduled, and the screen stays black until other damage (`Stalled`; `shell.c:5366`). A lock
  surface destroyed under a locked, awake screen is not asked for again before the next
  wake-up (`unasked`). A fade to the desktop that replaces the one to black while idle leaves the
  compositor idle, never to lock (`revived`).
* Seat: without a helper client a shell grab leaves the pointer's focus on the window (`shell.c:394`) and
  keeps the buttons from it: its client is sent neither their release nor a leave, and believes
  them held until their next event, or until it is entered again (`kept`).
  A drag that replaces a shell grab leaves the window's `grabbed` set, so that it cannot be moved again.
* DRM: `destroy_pending` defers the end of the output for a flip of a frame only. A vblank, or the flip
  that starts the loop, still outstanding at an unplug is dispatched to freed memory (`compositor-drm.c:1320`);
  the model ends there, and `OneLoop` says nothing of it.
* Drag: a view destroyed under the drag stays its `focus`, and the next focus
  dereferences it (`data-device.c:499`): a use after free, named "window gone" in `Odd`, excepted
  by name in `Survives`; when it is read as the new view's surface, the new window gets no offer, and the old
  client's resource stays (`LinksTrue`). `start_drag` without a source, which the protocol allows, stores through the NULL
  source (`data-device.c:1055`), and a touch drag's keyboard grab has no interface; a drop after the target destroyed its offer
  dereferences `data_source->offer` (`:652`); "cancelled" is sent in mid-drag when the target
  destroys its offer after the pointer left, and twice after a refused drop; a target of the old
  protocol has `dnd_finished` sent for it without a drop; a source that never set actions cannot
  be dropped by pointer; a drop by touch tells the source nothing; a second button keeps a
  drag going after its drop; `drag_grab_keyboard_cancel` casts pointer and touch drags the
  wrong way round.
* Selection: a stale claim is refused and nobody is told. The selection is sent by `weston_surface_activate` only, not
  where the focus is given back: at an unlock and a workspace switch (`shell.c:937`), after a
  binding, to a nested compositor (`input.c:1730`); the client may go on offering what was
  replaced. The owner is sent "cancelled" and stays the selection when the reader destroys its
  offer (`data-device.c:277`), and when it claims anew the source that is selected. A read that fails takes away
  a reference that may be a paste's, frees the source though it may be the selection, and
  forgets the clipboard's source though it may be another. A data device bound after its
  client got the focus is sent no selection. A paste before the copy is complete is cut short.
* IVI scene: `commit_screen_list` empties the list of views by its head only
  (`ivi-layout.c:854`), so that a view that is not put in again corrupts it when removed.
  A layer that is destroyed stays the `on_layer` of its surfaces; a surface removed from a layer
  and added again before the commit stays removed; an `ivi_surface` made again for the
  same surface makes a second view.
* IVI transitions: a surface or layer destroyed under its transition is used by the next
  frame. The committed end value of a move or fade is drawn once before it starts; hiding
  what is hidden shows it and fades it out. A commit before a move's first frame takes over
  the end without an event. Opacity set in the same commit as a fade, or properties set during a
  transition, are lost. `surface_prop_changed` clears the event mask at the first listener. A
  layer's fade turned round at full opacity has no duration and divides by it, and the layer
  stays transparent (`ivi-layout-transition.c:845`). Moves of a layer do not replace one another.

## 6. What would come next

1. `X11Outputs`: several outputs with one `input_loop_source` (the X11 backend is the only one
   that uses it with more than one; the source follows the last loop to end,
   `compositor.c:2423`), and idle callbacks that outlive their output. Instantiates
   `RepaintCore` with two outputs; its operators already take the output as an argument.
2. Touch, text input's grabs and the popup grab of the shell as further grabs of `SeatInput`;
   full-screen and maximized windows over its windows.
3. Several screens in `IviScene`, where a layer may be asked onto two of them (the FIXME at
   `ivi-layout.c:869`), with its theorems' lists per screen.

## 7. Not modelled

The renderers, transformation matrices and regions are numerical code on which no state
machine depends. The launchers, D-Bus, libinput, logging, configuration, colour
management and dmabuf import are I/O; of sessions only the signal enters `DrmOutput`. The
windowed and software backends' frame loops are a timer or an event that ends in
`weston_output_finish_frame`, as `SpiceOutput`'s. The X window manager is driven by an X
server that is not part of the repository; text input and the full-screen shell are not used by a
SPICE session. Screen capture copies finished frames. The clients and their toolkit, and the
test framework, are programs of their own: the largest share of the repository's lines is
there, in drawing and in generated-looking protocol glue that has no state to get wrong. Of the
components that are modelled in part, `components` in `PROJECT.json` names what is left out.
