------------------------------ MODULE Selection -------------------------------
(***************************************************************************)
(* Copy and paste on one seat: the selection and who is told of it         *)
(* (src/src/data-device.c), and the clipboard that keeps a copy of it and  *)
(* offers that copy when the client that owned it is gone                  *)
(* (src/src/clipboard.c).  Each calls the other back: a change of the      *)
(* selection emits a signal the clipboard listens to, in which it sets the *)
(* selection itself.                                                       *)
(*                                                                         *)
(* A source is a wl_data_source of some client or the clipboard's own; of  *)
(* the data only matters whether it is all there.  Every client has one    *)
(* keyboard focus surface and at most one wl_data_device.  Memory does not *)
(* run out.                                                                *)
(***************************************************************************)
EXTENDS Integers, FiniteSets

CONSTANTS
  Clients,
  Sources,  \* data sources of clients ever created
  Clips,    \* bound: sources of the clipboard alive at a time
  Serials,  \* the serials are 0..Serials-1 and wrap around (2^32)
  MaxReads, \* bound: pastes from one source of the clipboard under way
  None      \* the NULL pointer

ASSUME SelectionAssumption ==
  /\ None \notin Clients \cup Sources \cup Clips /\ Sources \cap Clips = {}
  /\ Serials \in Nat \ {0} /\ MaxReads \in Nat

VARIABLE
  k  \* a record:
     \*   source     weston_data_source of the clients: "unborn", "gone", or what
     \*              became of its claim: "none", "owns", "cancelled", "refused"
     \*              for a stale serial, of which nothing is said, or "misled":
     \*              it heard "cancelled" and is the selection
     \*   clip       clipboard_source: its refcount, whether it still reads the
     \*              pipe, its serial, the pastes under way
     \*   selection, listener, serial  seat->selection_data_source, the source
     \*              that tells the seat when it is destroyed, selection_serial
     \*   clipboard  clipboard->source
     \*   offer      for each source the client that has its current offer
     \*   focus      the client with the keyboard focus
     \*   device     the clients that have a wl_data_device
     \*   got        history: what the client with the focus was last sent since it
     \*              has it; "unsent": nothing; "unknown": nothing is owed to it
     \*   failed     the source of the clipboard whose read failed

AnySource == Sources \cup Clips
NoClip == [refs |-> 0, reading |-> FALSE, serial |-> 0, pastes |-> 0]

Init ==
  k = [source |-> [s \in Sources |-> "unborn"],
       clip |-> [c \in Clips |-> NoClip],
       selection |-> None, listener |-> None, serial |-> 0, clipboard |-> None,
       offer |-> [s \in AnySource |-> None], focus |-> None,
       device |-> {}, got |-> "unknown", failed |-> None]
-----------------------------------------------------------------------------
Live(c, s) == IF s \in Clips THEN c.clip[s].refs > 0 ELSE c.source[s] \notin {"unborn", "gone"}

\* weston_seat_send_selection to the client with the keyboard focus: with an
\* offer, which is now the source's only one that is served.
SendSelection(c) ==
  IF c.focus = None \/ c.focus \notin c.device THEN c
  ELSE [c EXCEPT !.got = c.selection,
                 !.offer = [s \in AnySource |-> IF s = c.selection THEN c.focus ELSE @[s]]]

\* destroy_selection_data_source: only the event, no offer
TellNone(c) ==
  IF c.focus = None \/ c.focus \notin c.device THEN c
  ELSE [c EXCEPT !.got = None]

\* seat->selection_serial - serial < UINT32_MAX / 2, unsigned
Stale(c, serial) ==
  c.selection # None /\ (c.serial - serial) % Serials < (Serials - 1) \div 2

\* weston_seat_set_selection: source->cancel, and the seat does not listen to it
\* any more.
Lose(c) ==
  IF c.selection = None THEN c
  ELSE [c EXCEPT
          !.source = [s \in Sources |-> IF s = c.selection
                                        THEN "cancelled" ELSE @[s]],
          !.selection = None, !.listener = None]

\* Mutation: the last source's offers and listener go with the first reference.
Unref_Early(c, clip) == [c EXCEPT !.clip[clip] = NoClip, !.offer[clip] = None]

\* clipboard_source_unref of a source the seat does not listen to
Unref(c, clip) ==
  IF c.clip[clip].refs > 1 THEN [c EXCEPT !.clip[clip].refs = @ - 1]
  ELSE [c EXCEPT !.clip[clip] = NoClip, !.offer[clip] = None]

FreeClips(c) == {clip \in Clips : c.clip[clip].refs = 0}

\* clipboard_source_create
Copy(c, clip) ==
  [c EXCEPT !.clip[clip] = [refs |-> 1, reading |-> TRUE, serial |-> c.serial, pastes |-> 0],
            !.clipboard = clip]

\* clipboard_set_selection when nothing is selected: weston_seat_set_selection
\* of its own source, with the serial it was copied at.
Restore(c) ==
  IF c.clipboard = None THEN c
  ELSE [SendSelection([c EXCEPT !.selection = c.clipboard,
                                !.serial = c.clip[c.clipboard].serial])
          EXCEPT !.listener = c.clipboard]

\* clipboard_set_selection when a client has the selection; it is copied if it
\* has a MIME type and pipe2 succeeds.
Replace(c, copied, clip) ==
  LET dropped == IF c.clipboard = None THEN c
                 ELSE [Unref(c, c.clipboard) EXCEPT !.clipboard = None]
  IN IF copied THEN Copy(dropped, clip) ELSE dropped

\* weston_seat_set_selection of a client's source; the seat listens to it last.
\* A source that claims what it has is cancelled for it.
SetSelection(c, s, serial, copied, clip) ==
  LET told == SendSelection([Lose(c) EXCEPT !.selection = s, !.serial = serial])
      set == [Replace(told, copied, clip) EXCEPT !.listener = s]
  IN CASE Stale(c, serial) -> IF c.selection = s THEN c ELSE [c EXCEPT !.source[s] = "refused"]
       [] ~Stale(c, serial) /\ c.selection = s -> [set EXCEPT !.source[s] = "misled"]
       [] OTHER -> [set EXCEPT !.source[s] = "owns"]

\* weston_seat_set_selection of nothing
ClearSelection(c, serial) ==
  IF Stale(c, serial) THEN c
  ELSE Restore(SendSelection([Lose(c) EXCEPT !.serial = serial]))

\* Mutation: the clipboard is not asked.
SelectionDestroyed_NoSignal(c) == TellNone([c EXCEPT !.selection = None, !.listener = None])

\* destroy_selection_data_source
SelectionDestroyed(c) ==
  Restore(TellNone([c EXCEPT !.selection = None, !.listener = None]))
-----------------------------------------------------------------------------
CreateSource(s) == k.source[s] = "unborn" /\ k' = [k EXCEPT !.source[s] = "none"]

\* data_device_set_selection: whoever asks, focused or not, with any serial.
RequestSelection(s, serial, copied) ==
  /\ Live(k, s) /\ k.device # {}
  /\ \E clip \in FreeClips(k) : k' = SetSelection(k, s, serial, copied, clip)

\* xwayland/selection.c: the X client that owned the selection is gone.
XSelectionGone(serial) == k' = ClearSelection(k, serial)

\* destroy_data_source: its offer is cut off, and the seat hears of it.
DestroySource(s) ==
  LET gone == [k EXCEPT !.source[s] = "gone", !.offer[s] = None]
  IN /\ Live(k, s)
     /\ k' = IF k.listener = s THEN SelectionDestroyed(gone) ELSE gone

\* weston_keyboard_set_focus
Entered(c) == [k EXCEPT !.focus = c, !.got = IF k.focus = c THEN @ ELSE "unsent"]

\* Mutation: who gets the focus is only told if something is selected.
Activate_IfSelected(c) ==
  k' = IF k.selection = None THEN Entered(c) ELSE SendSelection(Entered(c))

\* weston_surface_activate, and seat_get_keyboard of the client with the focus:
\* wl_data_device_set_keyboard_focus
Activate(c) == k' = SendSelection(Entered(c))

\* The other callers of weston_keyboard_set_focus, which send nothing:
\* restore_focus_state, notify_keyboard_focus_in, install_binding_grab (which takes
\* the focus and gives it back), and all that take the focus away.
SetFocusOnly(c) ==
  /\ k.focus # c
  /\ k' = [k EXCEPT !.focus = c, !.got = "unknown"]

\* get_data_device sends nothing; unbind_data_device.
BindDevice(c) ==
  /\ c \notin k.device
  /\ k' = [k EXCEPT !.device = @ \cup {c},
                    !.got = IF k.focus = c THEN "unknown" ELSE @]

ReleaseDevice(c) ==
  /\ c \in k.device
  /\ k' = [k EXCEPT !.device = @ \ {c}]

\* destroy_data_offer of the offer that is served.  Where both ends speak version
\* 3 ("new") the source hears "cancelled", also one that is still the selection.
DestroyOffer(s, new) ==
  LET c == k.offer[s]
      heard == IF ~new \/ s \in Clips THEN k
               ELSE [k EXCEPT !.source[s] = IF k.selection = s THEN "misled" ELSE "cancelled"]
  IN /\ c # None
     /\ k' = [heard EXCEPT !.offer[s] = None,
                           !.got = IF @ = s /\ k.focus = c THEN "unknown" ELSE @]

\* data_offer_receive on the clipboard's source, from the client that has its
\* current offer, with the focus or not: clipboard_client_create
Paste(clip) ==
  /\ k.offer[clip] # None /\ k.clip[clip].pastes < MaxReads
  /\ k' = [k EXCEPT !.clip[clip].refs = @ + 1, !.clip[clip].pastes = @ + 1]

\* clipboard_client_data: all is written, or the reader is gone.
PasteDone(clip) ==
  /\ k.clip[clip].pastes > 0
  /\ k' = Unref([k EXCEPT !.clip[clip].pastes = @ - 1], clip)

\* clipboard_source_data: the end of the pipe
CopyDone(clip) ==
  /\ k.clip[clip].refs > 0 /\ k.clip[clip].reading
  /\ k' = [k EXCEPT !.clip[clip].reading = FALSE]

\* clipboard_source_data: a read that fails takes away a reference.  If that was
\* the last and the source is the selection, the seat asks the clipboard, which
\* sets the dying source as the selection anew; and clipboard->source is cleared
\* though it may be another by now.
CopyFails(clip) ==
  LET last == k.clip[clip].refs = 1
      heard == IF last /\ k.listener = clip THEN SelectionDestroyed(k) ELSE k
  IN /\ k.clip[clip].refs > 0 /\ k.clip[clip].reading 
     /\ k' = [Unref(heard, clip) EXCEPT !.clipboard = None, !.failed = clip]

Step ==
  \/ \E c \in Clients : Activate(c) \/ BindDevice(c) \/ ReleaseDevice(c)
  \/ \E c \in Clients \cup {None} : SetFocusOnly(c)
  \/ \E s \in AnySource, new \in BOOLEAN : DestroyOffer(s, new)
  \/ \E s \in Sources : \/ CreateSource(s)
                        \/ \E serial \in 0..(Serials - 1), copied \in BOOLEAN :
                             RequestSelection(s, serial, copied)
                        \/ DestroySource(s)
  \/ \E serial \in 0..(Serials - 1) : XSelectionGone(serial)
  \/ \E clip \in Clips : Paste(clip) \/ PasteDone(clip) \/ CopyDone(clip) \/ CopyFails(clip)

\* Bound: one failed read, and nothing after it.
Next == k.failed = None /\ Step

vars == k
Spec == Init /\ [][Next]_vars
-----------------------------------------------------------------------------
TypeOK ==
  /\ k.source \in [Sources -> {"unborn", "gone", "none", "owns", "cancelled", "refused",
                           "misled"}]
  /\ k.clip \in [Clips -> [refs: 0..(MaxReads + 1), reading: BOOLEAN,
                           serial: 0..(Serials - 1), pastes: 0..MaxReads]]
  /\ {k.selection, k.listener} \subseteq AnySource \cup {None}
  /\ k.clipboard \in Clips \cup {None}
  /\ k.offer \in [AnySource -> Clients \cup {None}]
  /\ \A s \in AnySource : k.offer[s] # None => Live(k, s)
  /\ k.focus \in Clients \cup {None} /\ k.device \subseteq Clients
  /\ k.got \in AnySource \cup {None, "unknown", "unsent"}
  /\ k.serial \in 0..(Serials - 1) /\ k.failed \in Clips \cup {None}

\* The selection is a source that exists and that tells the seat when it is
\* destroyed, unless a read fails of the clipboard's source that is selected.
SelectionAlive ==
  k.failed = None \/ k.failed # k.selection =>
    /\ k.listener = k.selection
    /\ k.selection # None => Live(k, k.selection)

\* A source of the clipboard is kept for the clipboard and for each paste, until
\* a read fails, which takes a reference that may be a paste's.
RefsCounted ==
  k.failed = None => \A clip \in Clips :
    k.clip[clip].refs = k.clip[clip].pastes + (IF k.clipboard = clip THEN 1 ELSE 0)

\* "Callback for our data source": as long as the clipboard has a copy there is
\* something to paste, whoever is gone.
ClipboardTakesOver == k.clipboard # None => k.selection # None

\* The client with the focus was last told of the present selection and its offer
\* is served, unless it destroyed that offer, a read failed of what is selected, or
\* nothing was sent to it since it has the focus: it got that back at an unlock, a
\* workspace switch, a return of the keyboard or from a binding, which send no
\* selection, or it bound its device later.  It may then think to paste what is long replaced.
FocusInformed ==
  LET c == k.focus IN
    /\ k.failed = None \/ k.failed # k.selection
    /\ c # None /\ c \in k.device /\ k.got # "unknown"
    => /\ k.got = k.selection
       /\ k.selection # None => k.offer[k.selection] = c

\* A source whose claim was accepted and that heard of no end of it is the
\* selection, and the selection is such a source of a client, or the clipboard's;
\* but a source is told "cancelled" while it stays the selection when the reader
\* destroys its offer, or when it claims the selection anew.  It is not told that a
\* stale claim is refused.
OwnersKnow ==
  \A s \in Sources : (k.source[s] \in {"owns", "misled"}) <=> (k.selection = s)

\* No source is freed while somebody refers to it, and none is kept for nobody.
SourcesSound == TypeOK /\ SelectionAlive /\ RefsCounted

\* Who may paste knows of what, and who thinks to own the selection owns it, but
\* for the cases of each.
ClientsInformed == FocusInformed /\ OwnersKnow
=============================================================================
