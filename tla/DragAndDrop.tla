----------------------------- MODULE DragAndDrop ------------------------------
(***************************************************************************)
(* A drag and drop: the data source of the client that starts it, the data *)
(* offers made to the clients it passes over, the negotiation of the       *)
(* action, the drop and what the source is told in the end                 *)
(* (src/src/data-device.c).                                                *)
(*                                                                         *)
(* Every client has one window, which the pointer or the finger of the one *)
(* seat may be over, and speaks the protocol in a version below 3 or not.  *)
(* "move" is to the code what "copy" is and is left out; so are the MIME   *)
(* types, the icon and a failing malloc.  The requests a client must not   *)
(* make are answered with a protocol error and change nothing else.  An    *)
(* offer whose source pointer is NULL answers to nothing and is forgotten. *)
(***************************************************************************)
EXTENDS Naturals, FiniteSets

CONSTANTS
  Clients,
  Sources,  \* data sources ever created
  Offers,   \* bound: data offers alive at a time
  MaxLost,  \* bound: devices released, windows destroyed, buttons pressed again
  None      \* the NULL pointer

Freed == "freed"                      \* memory given back, still pointed to
Actions == {"copy", "ask"}            \* enum wl_data_device_manager.dnd_action

ASSUME DragAssumption ==
  /\ None \notin Clients \cup Sources \cup Offers \cup Actions \cup {Freed}
  /\ Freed \notin Clients /\ Clients # {} /\ MaxLost \in Nat

\* What the comparison with a view that was freed comes to: the memory may still
\* or again hold the surface compared with, hold another, or be unmapped.
Reads == {"same", "other", "crash"}

Odd == {"no source", "modifiers in touch", "offer let go", "second button", "window gone"}

VARIABLE
  d  \* a record:
     \*   new              clients that speak version 3 or above
     \*   device, window   clients that have a wl_data_device; a mapped window
     \*   source           struct weston_data_source, and what its client heard
     \*   offer            struct weston_data_offer, what its client heard, and
     \*                    whether it last accepted
     \*   kind, drag       "none", "pointer" or "touch"; drag->data_source
     \*   focus            the client of drag->focus, or Freed
     \*   resource         the client of drag->focus_resource
     \*   held, other      the grab's button; another button
     \*   again            the grab's button was pressed again
     \*   crashed          a NULL pointer, or one to a freed view, was followed
     \*   seen             the odd things that happened, a subset of Odd

Source == [life: {"unborn", "live", "gone"}, owner: Clients, offer: Offers \cup {None},
           accepted: BOOLEAN, seat: BOOLEAN, set: BOOLEAN, actions: SUBSET Actions,
           action: Actions \cup {None}, compositor: {"copy", None},
           told: Actions \cup {None},
           heard: SUBSET {"drop_performed", "dnd_finished", "cancelled"}]

Offer == [live: BOOLEAN, client: Clients, source: Sources \cup {None}, in_ask: BOOLEAN,
          actions: SUBSET Actions, preferred: Actions \cup {None},
          told: Actions \cup {None}, took: BOOLEAN]

SomeClient == CHOOSE c \in Clients : TRUE
NoOffer == [live |-> FALSE, client |-> SomeClient, source |-> None, in_ask |-> FALSE,
            actions |-> {}, preferred |-> None, told |-> None, took |-> FALSE]

\* create_data_source
NewSource(c) ==
  [life |-> "live", owner |-> c, offer |-> None, accepted |-> FALSE, seat |-> FALSE,
   set |-> FALSE, actions |-> {}, action |-> None, compositor |-> None, told |-> None,
   heard |-> {}]

Init ==
  \E new \in SUBSET Clients :
    d = [new |-> new, device |-> Clients, window |-> Clients,
         source |-> [s \in Sources |-> [NewSource(SomeClient) EXCEPT !.life = "unborn"]],
         offer |-> [o \in Offers |-> NoOffer],
         kind |-> "none", drag |-> None, focus |-> None, resource |-> None,
         held |-> FALSE, other |-> FALSE, again |-> FALSE, crashed |-> FALSE, seen |-> {}]
-----------------------------------------------------------------------------
\* The events of a source's drag that only version 3 has.
Tell(c, s, event) ==
  IF c.source[s].owner \notin c.new THEN c
  ELSE [c EXCEPT !.source[s].heard = @ \cup {event}]

\* data_source_notify_finish: in_ask, the source first hears what was chosen.
NotifyFinish(c, s) ==
  LET src == c.source[s]
      asked == c.offer[src.offer].in_ask /\ src.owner \in c.new
      heard == IF asked THEN [c EXCEPT !.source[s].told = src.action] ELSE c
  IN IF ~src.set THEN c
     ELSE [Tell(heard, s, "dnd_finished") EXCEPT !.source[s].offer = None]

\* data_offer_choose_action
ChooseAction(c, o) ==
  LET s == c.source[c.offer[o].source]
      target == IF c.offer[o].client \in c.new THEN c.offer[o].actions ELSE {"copy"}
      preferred == IF c.offer[o].client \in c.new THEN c.offer[o].preferred ELSE None
      available == target \cap (IF s.owner \in c.new THEN s.actions ELSE {"copy"})
  IN CASE available = {}                          -> None
       [] s.seat /\ s.compositor \in available    -> s.compositor
       [] ~(s.seat /\ s.compositor \in available)
            /\ preferred \in available            -> preferred
       [] OTHER -> IF "copy" \in available THEN "copy" ELSE "ask"

\* data_offer_update_action
UpdateAction(c, o) ==
  LET s == c.offer[o].source
      action == ChooseAction(c, o)
      set == [c EXCEPT !.source[s].action = action]
  IN IF s = None \/ ~c.source[s].set \/ c.source[s].action = action THEN c
     ELSE IF c.offer[o].in_ask THEN set
     ELSE [set EXCEPT
             !.source[s].told = IF c.source[s].owner \in c.new THEN action ELSE @,
             !.offer[o].told = IF c.offer[o].client \in c.new THEN action ELSE @]

\* Mutation: the consent of the last target counts for the next.
SendOffer_KeepsAccepted(c, s, o, client) ==
  UpdateAction([c EXCEPT
    !.offer[o] = [NoOffer EXCEPT !.live = TRUE, !.client = client, !.source = s],
    !.source[s].offer = o], o)

\* weston_data_source_send_offer
SendOffer(c, s, o, client) ==
  UpdateAction([c EXCEPT
    !.offer[o] = [NoOffer EXCEPT !.live = TRUE, !.client = client, !.source = s],
    !.source[s] = [@ EXCEPT !.offer = o, !.accepted = FALSE]], o)

FreeOffers(c) == {o \in Offers : ~c.offer[o].live}

\* weston_drag_set_focus: the offer made to the last focus is unlinked.
Unlink(c) ==
  IF c.drag = None \/ c.source[c.drag].offer = None THEN c
  ELSE [c EXCEPT !.offer[c.source[c.drag].offer] = NoOffer,
                 !.source[c.drag].offer = None]

\* weston_drag_set_focus.  read is what drag->focus->surface gives where the view
\* was freed: a use after free.  o is the offer that is allocated.
SetFocus(c, view, read, o) ==
  LET followed == c.focus = Freed /\ view # None
      stays == view # None /\ (IF c.focus = Freed THEN read = "same" ELSE c.focus = view)
      left == IF c.resource = None THEN c
              ELSE [c EXCEPT !.resource = None, !.focus = None]
      noticed == IF view = None /\ c.drag # None /\ c.kind # "none"
                 THEN [left EXCEPT !.seen = @ \cup {"offer let go"}] ELSE left
      enters == [(IF c.drag = None THEN Unlink(left)
                  ELSE SendOffer(Unlink(left), c.drag, o, view))
                   EXCEPT !.focus = view, !.resource = view]
  IN IF followed /\ read = "crash"
     THEN [c EXCEPT !.crashed = TRUE, !.seen = @ \cup {"window gone"}]
     ELSE IF stays THEN [c EXCEPT !.focus = view]
     ELSE IF view = None THEN noticed
     ELSE IF view \notin c.device THEN Unlink(left)
     ELSE enters

\* data_device_end_pointer_drag_grab, data_device_end_touch_drag_grab
EndDrag(c) ==
  [SetFocus(c, None, "other", None) EXCEPT
     !.kind = "none", !.drag = None, !.focus = None, !.resource = None,
     !.held = FALSE, !.other = FALSE, !.seen = c.seen]
-----------------------------------------------------------------------------
CreateSource(c, s) ==
  /\ d.source[s].life = "unborn" /\ c = SomeClient
  /\ d' = [d EXCEPT !.source[s] = NewSource(c)]

\* data_source_set_actions: once, and never once it is dragged.
SourceSetActions(s, actions) ==
  /\ d.source[s].life = "live" /\ d.source[s].owner \in d.new
  /\ ~d.source[s].set /\ ~d.source[s].seat
  /\ d' = [d EXCEPT !.source[s] = [@ EXCEPT !.actions = actions, !.set = TRUE]]

Started(s) == d.source[s].seat \/ "drop_performed" \in d.source[s].heard

\* data_device_start_drag of a client whose window has the pointer's or the
\* touch point's focus; source->seat is set when the grab's first focus is.
\* Bound: a source is dragged once, though the code does not look.
StartDrag(s, kind) ==
  /\ d.kind = "none" /\ d.source[s].life = "live" /\ ~Started(s)
  /\ d.source[s].owner \in d.window \cap d.device
  /\ FreeOffers(d) # {}
  /\ LET o == CHOOSE o \in FreeOffers(d) : TRUE
         began == [d EXCEPT !.kind = kind, !.drag = s, !.held = (kind = "pointer")]
     IN d' = [SetFocus(began, d.source[s].owner, "other", o) EXCEPT
                !.source[s].seat = TRUE]

\* A drag within a client: no source, and source->seat is written all the same.
StartDragNoSource(client) ==
  /\ d.kind = "none" /\ client \in d.window \cap d.device
  /\ d' = [d EXCEPT !.kind = "pointer", !.crashed = TRUE,
                    !.seen = @ \cup {"no source"}]

\* drag_grab_focus, drag_grab_touch_focus: what is picked under the device.
Focus(view, read) ==
  /\ d.kind # "none" /\ d.focus # view
  /\ view \in d.window \cup {None}
  /\ FreeOffers(d) # {}
  /\ d' = SetFocus(d, view, read, CHOOSE o \in FreeOffers(d) : TRUE)

Lost == Cardinality(Clients \ d.device) + Cardinality(Clients \ d.window)
        + (IF d.again THEN 1 ELSE 0)

\* drag_grab_button: what must be so for a drop
Agreed(s) == d.resource # None /\ d.source[s].accepted /\ d.source[s].action # None

\* drag_grab_button: the drop
Dropped(c, s) ==
  [c EXCEPT !.offer[c.source[s].offer].in_ask = (c.source[s].action = "ask"),
            !.source[s] = [c.source[s] EXCEPT !.heard = @ \cup {"drop_performed"},
                                              !.seat = FALSE]]

\* drag_grab_button: the button that began the drag is released.
Release ==
  LET s == d.drag
      done == IF Agreed(s) THEN Dropped(d, s) ELSE Tell(d, s, "cancelled")
  IN /\ d.kind = "pointer" /\ d.held
     /\ d' = IF Agreed(s) /\ d.source[s].offer = None
             THEN [d EXCEPT !.crashed = TRUE]
             ELSE IF d.other THEN [done EXCEPT !.held = FALSE]
             ELSE EndDrag(done)

\* drag_grab_button: other buttons, and the same one once more.
OtherButton ==
  /\ d.kind = "pointer"
  /\ \/ ~d.other /\ d' = [d EXCEPT !.other = TRUE, !.seen = @ \cup {"second button"}]
     \/ d.other /\ d.held /\ d' = [d EXCEPT !.other = FALSE]
     \/ d.other /\ ~d.held /\ d' = EndDrag(d)
     \/ d.other /\ ~d.held /\ Lost < MaxLost /\ d' = [d EXCEPT !.held = TRUE, !.again = TRUE]

\* drag_grab_touch_up: the target is told of a drop, the source of nothing.
TouchUp == d.kind = "touch" /\ d' = EndDrag(d)

\* drag_grab_cancel, drag_grab_touch_cancel: another grab takes its place.
CancelGrab == d.kind # "none" /\ d' = EndDrag(d)

\* drag_grab_keyboard_modifiers: the grab of a touch drag has no interface.
Modifiers(action) ==
  LET s == d.drag
      set == [d EXCEPT !.source[s].compositor = action]
  IN /\ d.kind # "none"
     /\ d' = IF d.kind = "touch"
             THEN [d EXCEPT !.crashed = TRUE, !.seen = @ \cup {"modifiers in touch"}]
             ELSE IF d.source[s].offer = None THEN set
             ELSE UpdateAction(set, d.source[s].offer)

\* Untimely calls from older data offers change nothing.
Timely(o) == d.offer[o].live /\ d.offer[o].source # None
             /\ d.source[d.offer[o].source].offer = o

Accept(o, yes) ==
  /\ Timely(o)
  /\ d' = [d EXCEPT !.source[d.offer[o].source].accepted = yes, !.offer[o].took = yes]

\* data_offer_set_actions: the preferred action is one of the set; of the
\* requests those that differ in effect.
Choices == {<<{}, None>>, <<{"copy"}, None>>, <<Actions, "ask">>}

OfferSetActions(o, actions, preferred) ==
  /\ d.offer[o].source # None /\ d.offer[o].client \in d.new
  /\ d' = UpdateAction([d EXCEPT !.offer[o] =
                           [@ EXCEPT !.actions = actions, !.preferred = preferred]], o)

\* Mutation: finished though the drag goes on.
Finish_DuringDrag(o) ==
  LET s == d.offer[o].source
  IN /\ Timely(o) /\ d.offer[o].client \in d.new
     /\ d.source[s].accepted /\ d.source[s].action \notin {None, "ask"}
     /\ d' = NotifyFinish(d, s)

\* data_offer_finish
Finish(o) ==
  LET s == d.offer[o].source
  IN /\ Timely(o) /\ d.offer[o].client \in d.new
     /\ ~d.source[s].seat /\ d.source[s].accepted
     /\ d.source[s].action \notin {None, "ask"}
     /\ d' = NotifyFinish(d, s)

\* Mutation: the destroyed offer of an older client does not finish the drag.
OfferGone_Quiet(c, o) ==
  LET s == c.offer[o].source
  IN IF s = None \/ c.source[s].offer # o THEN c
     ELSE [(IF c.offer[o].client \in c.new THEN Tell(c, s, "cancelled") ELSE c)
             EXCEPT !.source[s].offer = None]

\* destroy_data_offer, without the memory it frees
OfferGone(c, o) ==
  LET s == c.offer[o].source
  IN IF s = None \/ c.source[s].offer # o THEN c
     ELSE [(IF c.offer[o].client \in c.new THEN Tell(c, s, "cancelled") ELSE NotifyFinish(c, s))
             EXCEPT !.source[s].offer = None]

\* The client still has the drag over its window.
UnderDrag(o) == d.drag # None /\ d.source[d.drag].offer = o /\ d.focus # None

DestroyOffer(o) ==
  /\ d.offer[o].live
  /\ d' = [OfferGone(d, o) EXCEPT
             !.offer[o] = NoOffer,
             !.seen = IF UnderDrag(o) THEN @ \cup {"offer let go"} ELSE @]

\* Mutation: the offers do not hear of it.
SourceGone_Unheard(c, s) ==
  LET ended == IF c.drag = s THEN EndDrag(c) ELSE c
  IN [ended EXCEPT !.source[s].life = "gone"]

\* destroy_data_source: its offers and the drag hear of it.
SourceGone(c, s) ==
  LET ended == IF c.drag = s THEN EndDrag(c) ELSE c
  IN [ended EXCEPT
        !.source[s] = [NewSource(SomeClient) EXCEPT !.life = "gone"],
        !.offer = [o \in Offers |-> IF @[o].source = s
                                    THEN NoOffer ELSE @[o]]]

DestroySource(s) == d.source[s].life = "live" /\ d' = SourceGone(d, s)

\* unbind_data_device.  destroy_drag_focus forgets the resource, whatever the focus
\* is by then, and leaves drag->focus alone.
ReleaseDevice(c) ==
  /\ c \in d.device /\ Lost < MaxLost
  /\ d' = [d EXCEPT !.device = @ \ {c},
                    !.resource = IF @ = c THEN None ELSE @]

\* weston_view_destroy: nothing tells the drag that the view it points to is freed.
DestroyWindow(c) ==
  /\ c \in d.window /\ Lost < MaxLost
  /\ d' = [d EXCEPT !.window = @ \ {c},
                    !.focus = IF @ = c THEN Freed ELSE @]

ClientStep ==
  \/ \E c \in Clients : \/ \E s \in Sources : CreateSource(c, s)
                        \/ StartDragNoSource(c) \/ ReleaseDevice(c) \/ DestroyWindow(c)
  \/ \E s \in Sources : \/ \E a \in {{"copy"}, Actions} : SourceSetActions(s, a)
                        \/ \E k \in {"pointer", "touch"} : StartDrag(s, k)
                        \/ DestroySource(s)
  \/ \E o \in Offers : \/ \E yes \in BOOLEAN : Accept(o, yes)
                       \/ \E c \in Choices : OfferSetActions(o, c[1], c[2])
                       \/ Finish(o) \/ DestroyOffer(o)

UserStep ==
  \/ \E view \in Clients \cup {None}, read \in Reads : Focus(view, read)
  \/ Release \/ OtherButton \/ TouchUp \/ CancelGrab
  \/ \E a \in {"copy", None} : Modifiers(a)

Next == ~d.crashed /\ (ClientStep \/ UserStep)

vars == d

\* A client lets go of an offer that is no longer under the drag.
Fairness == \A o \in Offers : WF_d(~d.crashed /\ ~UnderDrag(o) /\ DestroyOffer(o))

Spec == Init /\ [][Next]_vars /\ Fairness
-----------------------------------------------------------------------------
TypeOK ==
  /\ d.new \subseteq Clients /\ d.device \subseteq Clients /\ d.window \subseteq Clients
  /\ d.source \in [Sources -> Source] /\ d.offer \in [Offers -> Offer]
  /\ d.kind \in {"none", "pointer", "touch"} /\ d.drag \in Sources \cup {None}
  /\ d.focus \in Clients \cup {None, Freed}
  /\ d.resource \in Clients \cup {None}
  /\ {d.held, d.other, d.again, d.crashed} \subseteq BOOLEAN
  /\ d.seen \subseteq Odd
  /\ d.kind = "none" => d.drag = None /\ d.resource = None /\ ~d.held /\ ~d.other

\* Sources and offers only point to what is alive, and a source's current offer
\* points back to it (data_offer_accept and the others trust it).  So does the
\* drag, but for drag->focus: it may point to a view that was freed, and the
\* focus_resource then be another client's than the new view compared equal to it.
\* The resource itself is never a freed one, and belongs to the window under the
\* device unless that client's window was destroyed.
LinksTrue ==
  /\ \A s \in Sources : LET o == d.source[s].offer
                        IN o # None => d.source[s].life = "live" /\ d.offer[o].live
                                       /\ d.offer[o].source = s
  /\ \A o \in Offers : d.offer[o].source # None => d.source[d.offer[o].source].life = "live"
  /\ d.drag # None => d.source[d.drag].life = "live"
  /\ d.resource # None => /\ d.resource \in d.device
                          /\ d.focus = d.resource \/ d.resource \notin d.window

\* The compositor dies of a drag only by what "seen" names: a drag without a
\* source, one by touch while a modifier changes, a drop on a target that destroyed
\* its offer or was dropped on before, and drag->focus of a destroyed window, which
\* the next focus follows (data-device.c:499).
Survives == d.crashed => d.seen # {}

\* Both ends have heard of the action that is agreed on, and it is one both
\* offer; unless the target took back its choice after the drop, when a second
\* drop begins with the old choice.
ActionHeard ==
  \A s \in Sources : LET src == d.source[s]  o == src.offer IN
    o # None /\ src.set /\ ~d.offer[o].in_ask
      /\ "second button" \notin d.seen =>
      /\ src.told = src.action /\ src.action \in src.actions \cup {None}
      /\ d.offer[o].client \in d.new =>
           d.offer[o].told = src.action /\ src.action \in d.offer[o].actions \cup {None}

\* A drop is made on the client that accepted this very offer, not on one that
\* inherits the consent of another the drag passed over, also where the window
\* under the device is one the freed drag->focus compared equal to.
DropConsented ==
  [][\A s \in Sources :
       "drop_performed" \in d'.source[s].heard \ d.source[s].heard
         => LET o == d.source[s].offer
            IN d.offer[o].took /\ d.offer[o].client = d.resource]_d

\* A source hears that its data was taken only after it heard of a drop.  Where
\* a target speaks the older protocol the "safety net" of destroy_data_offer does
\* not ask whether there was a drop: a refused one is cancelled, then finished.
FinishedWasDropped ==
  \A s \in Sources : "dnd_finished" \in d.source[s].heard /\ d.new = Clients
    => "drop_performed" \in d.source[s].heard

\* A source that heard of a drop hears how it ended, unless another button kept
\* the drag going, which unlinks the offer dropped on.
Answered(s) == d.source[s].heard \cap {"dnd_finished", "cancelled"} # {}
DropAnswered ==
  \A s \in Sources :
    ("drop_performed" \in d.source[s].heard) ~>
      \/ Answered(s) \/ d.source[s].life = "gone" \/ d.crashed
      \/ "second button" \in d.seen

\* While its drag goes on a source hears of no end of it, unless the target
\* destroyed its offer under the drag, the device was over no window at all, or
\* a second button kept a drag going that was dropped.
NoEndWhileDragged ==
  d.kind # "none" /\ d.seen = {} => \A s \in Sources : d.drag = s => ~Answered(s)

\* Clients and the compositor destroy source, offer, device and window in any
\* order: of the pointers between them only drag->focus is left to what is gone,
\* and the compositor dies only in the four ways Survives lists.
DragSound == TypeOK /\ LinksTrue /\ Survives

\* What the source hears is true: the action both ends agreed on, an end that
\* belongs to a drop, and none while the drag goes on.
SourceHearsTrue == ActionHeard /\ FinishedWasDropped /\ NoEndWhileDragged
=============================================================================
