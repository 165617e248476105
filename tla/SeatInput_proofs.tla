--------------------------- MODULE SeatInput_proofs ---------------------------
(***************************************************************************)
(* Proofs about SeatInput, for any number of windows, of buttons and of    *)
(* odd key events: the foci are of windows that are there,                 *)
(* the count that inhibits idling is exact, the clients know what is held  *)
(* and no grab outlives what holds it.                                     *)
(*                                                                         *)
(* Handlers are compositions of operators on the seat's record.  A lemma   *)
(* for each operator says which fields it changes and which conjuncts of   *)
(* the invariant it keeps; the operator is opaque after that.  One message *)
(* of the mouse may bring several buttons, between which the seat is in no *)
(* state of a behaviour: the conjuncts are therefore stated for the        *)
(* buttons notified so far, and the run through them is an induction.      *)
(***************************************************************************)
EXTENDS SeatInput, FiniteSetTheorems, SequenceTheorems, WellFoundedInduction, TLAPS

\* The fields of the record "seat".
Fields ==
  {"keys", "super", "kgrab", "key", "kfocus", "entered", "believes", "stale",
   "bound", "buttons", "button_count", "pgrab", "pfocus", "pressed", "kept",
   "helper", "grabbed", "moving", "idle_inhibit", "repeats", "strays", "window", "layer", "keyboard_focus",
   "letGo", "current", "assertFailed"}

\* What may have a focus, or nothing.
Owners == Windows \cup {None}

\* The type of each field.
Types ==
  [keys |-> SUBSET Keys, super |-> BOOLEAN,
   kgrab |-> {"default", "binding", "switcher", "drag"},
   key |-> Keys \cup {"none"}, kfocus |-> Owners, entered |-> Owners,
   believes |-> SUBSET Keys, stale |-> BOOLEAN, bound |-> SUBSET Windows,
   buttons |-> SUBSET Buttons, button_count |-> Int,
   pgrab |-> {"default", "shell", "drag"}, pfocus |-> Owners,
   pressed |-> SUBSET Buttons, kept |-> SUBSET Buttons,
   helper |-> BOOLEAN, grabbed |-> SUBSET Windows, moving |-> Owners,
   idle_inhibit |-> Int, repeats |-> Int, strays |-> Int,
   window |-> [Windows -> Phases], layer |-> Seq(Windows),
   keyboard_focus |-> Owners, letGo |-> BOOLEAN,
   current |-> Owners \cup {Dangling}, assertFailed |-> BOOLEAN]

\* c has the fields of "seat".
Rec(c) == DOMAIN c = Fields /\ c = [f \in DOMAIN c |-> c[f]]

\* The record "seat" is one, and its fields have their types.
Shaped(c) == Rec(c) /\ \A f \in Fields : c[f] \in Types[f]

\* Only the fields fs change from c to t.
OnlyOf(c, t, fs) == \A f \in Fields \ fs : t[f] = c[f]

\* The type of each field, by its name.
LEMMA TypeOf ==
  /\ Types.keys = SUBSET Keys /\ Types.super = BOOLEAN
  /\ Types.kgrab = {"default", "binding", "switcher", "drag"}
  /\ Types.key = Keys \cup {"none"} /\ Types.kfocus = Owners
  /\ Types.entered = Owners /\ Types.believes = SUBSET Keys
  /\ Types.stale = BOOLEAN /\ Types.bound = SUBSET Windows
  /\ Types.buttons = SUBSET Buttons /\ Types.button_count = Int
  /\ Types.pgrab = {"default", "shell", "drag"} /\ Types.pfocus = Owners
  /\ Types.pressed = SUBSET Buttons /\ Types.kept = SUBSET Buttons
  /\ Types.helper = BOOLEAN /\ Types.grabbed = SUBSET Windows
  /\ Types.moving = Owners /\ Types.idle_inhibit = Int
  /\ Types.repeats = Int /\ Types.strays = Int
  /\ Types.window = [Windows -> Phases] /\ Types.layer = Seq(Windows)
  /\ Types.keyboard_focus = Owners /\ Types.letGo = BOOLEAN
  /\ Types.current = Owners \cup {Dangling} /\ Types.assertFailed = BOOLEAN
BY DEF Types

\* Each field of a seat has its type.
LEMMA TypesAre ==
  ASSUME NEW c, Shaped(c)
  PROVE  /\ c.keys \in SUBSET Keys /\ c.super \in BOOLEAN
         /\ c.kgrab \in {"default", "binding", "switcher", "drag"}
         /\ c.key \in Keys \cup {"none"} /\ c.kfocus \in Owners
         /\ c.entered \in Owners /\ c.believes \in SUBSET Keys
         /\ c.stale \in BOOLEAN /\ c.bound \in SUBSET Windows
         /\ c.buttons \in SUBSET Buttons /\ c.button_count \in Int
         /\ c.pgrab \in {"default", "shell", "drag"} /\ c.pfocus \in Owners
         /\ c.pressed \in SUBSET Buttons /\ c.kept \in SUBSET Buttons
         /\ c.helper \in BOOLEAN /\ c.grabbed \in SUBSET Windows
         /\ c.moving \in Owners /\ c.idle_inhibit \in Int
         /\ c.repeats \in Int /\ c.strays \in Int
         /\ c.window \in [Windows -> Phases] /\ c.layer \in Seq(Windows)
         /\ c.keyboard_focus \in Owners /\ c.letGo \in BOOLEAN
         /\ c.current \in Owners \cup {Dangling} /\ c.assertFailed \in BOOLEAN
<1>1. /\ c.keys \in Types.keys /\ c.super \in Types.super
      /\ c.kgrab \in Types.kgrab /\ c.key \in Types.key
      /\ c.kfocus \in Types.kfocus /\ c.entered \in Types.entered
      /\ c.believes \in Types.believes /\ c.stale \in Types.stale
      /\ c.bound \in Types.bound /\ c.buttons \in Types.buttons
      /\ c.button_count \in Types.button_count /\ c.pgrab \in Types.pgrab
      /\ c.pfocus \in Types.pfocus /\ c.pressed \in Types.pressed
      /\ c.kept \in Types.kept /\ c.helper \in Types.helper
      /\ c.grabbed \in Types.grabbed /\ c.moving \in Types.moving
      /\ c.idle_inhibit \in Types.idle_inhibit /\ c.repeats \in Types.repeats
      /\ c.strays \in Types.strays /\ c.window \in Types.window
      /\ c.layer \in Types.layer /\ c.keyboard_focus \in Types.keyboard_focus
      /\ c.letGo \in Types.letGo /\ c.current \in Types.current
      /\ c.assertFailed \in Types.assertFailed
  BY DEF Shaped, Fields
<1> QED BY <1>1 DEF Types

\* A record is well formed after a change of some of its fields to values of
\* their types.
LEMMA ShapedAfter ==
  ASSUME NEW c, Shaped(c), NEW t, Rec(t), NEW fs, OnlyOf(c, t, fs),
         \A f \in fs : t[f] \in Types[f]
  PROVE  Shaped(t)
BY DEF Shaped, OnlyOf

\* What two steps change.
LEMMA OnlyTrans ==
  ASSUME NEW s, NEW t, NEW u, NEW a, NEW b, NEW c,
         OnlyOf(s, t, a), OnlyOf(t, u, b), a \subseteq c, b \subseteq c
  PROVE  OnlyOf(s, u, c)
BY DEF OnlyOf

-----------------------------------------------------------------------------
(* Induction.                                                              *)

\* A set of numbers that is not empty has a least one.
LEMMA Least ==
  ASSUME NEW T \in SUBSET Nat, T # {}
  PROVE  \E n \in T : \A m \in T : n <= m
<1> DEFINE R == OpToRel(<, Nat)
<1>1. IsWellFoundedOn(R, Nat) BY NatLessThanWellFounded
<1>2. ASSUME NEW m \in Nat, NEW n \in Nat, ~(<<m, n>> \in R) PROVE n <= m
  <2>1. ~(m < n) BY <1>2 DEF OpToRel
  <2> QED BY <2>1
<1> HIDE DEF R
<1>3. PICK n \in T : \A m \in T : ~(<<m, n>> \in R) BY <1>1, WFMin
<1>4. \A m \in T : n <= m
  <2> TAKE m \in T
  <2>1. m \in Nat /\ n \in Nat /\ ~(<<m, n>> \in R) BY <1>3, Zenon
  <2> QED BY <1>2, <2>1, Zenon
<1> QED BY <1>4, Zenon

\* A set with 0 and with the successor of each of its members is Nat.
LEMMA Induction ==
  ASSUME NEW T \in SUBSET Nat, 0 \in T, \A n \in T : n + 1 \in T
  PROVE  T = Nat
<1> DEFINE U == Nat \ T
<1> SUFFICES ASSUME U # {} PROVE FALSE OBVIOUS
<1>1. PICK n \in U : \A m \in U : n <= m BY Least
<1>2. n # 0 /\ n - 1 \in Nat BY <1>1
<1>3. n - 1 \in T BY <1>1, <1>2
<1>4. (n - 1) + 1 = n BY <1>2
<1>5. n \in T BY <1>3, <1>4
<1> QED BY <1>5, <1>1

-----------------------------------------------------------------------------
(* The inductive invariant: conjuncts of a record c of the seat, when B is *)
(* the set of the buttons held, P of those the client of the pointer was   *)
(* told of, K of the keys the client of the keyboard was told of.          *)

\* The focused client knows of the buttons P all that were not kept from it.
Knows(c, P) == \A b \in Buttons \ c.kept : b \in c.pressed <=> b \in P

\* It does, and the window with the pointer is there; only a grab that moves it
\* leaves the pointer there.
PointerTrue(c, P) ==
  c.pfocus # None =>
    /\ c.pgrab # "drag" /\ (c.pgrab = "shell" => c.moving = c.pfocus)
    /\ c.window[c.pfocus] = "mapped" /\ Knows(c, P)

\* A grab of the pointer is held by a button.
PointerHeld(c, B) == c.pgrab # "default" => B # {}

\* A drag has both grabs.
DragsBoth(c) == c.kgrab = "drag" <=> c.pgrab = "drag"

\* The counters are those of what is held.
Counted(c, B) ==
  /\ c.button_count = Cardinality(B)
  /\ c.idle_inhibit = Cardinality(c.keys) + Cardinality(B) + c.repeats - c.strays

\* The client entered has the focus and knows the keys K, unless kept from it.
KeyTrue(c, K) ==
  c.entered # None => c.entered = c.kfocus /\ (c.stale \/ c.believes = K)

\* The switcher lives as long as its modifier is held.
Switching(c) == c.kgrab = "switcher" => c.super

\* A binding's grab lives as long as its key is held.
Binding(c, K) == c.kgrab = "binding" => c.key \in K

\* The focus of the keyboard is the shell's and there.
Focus(c) ==
  c.kfocus # None => c.keyboard_focus = c.kfocus /\ c.window[c.kfocus] # "none"

\* Nobody has the keyboard, nor let go of it, nor will be given it.
Ownerless(c) ==
  /\ c.kfocus = None /\ ~c.letGo
  /\ c.kgrab = "switcher" => c.current \notin Windows

\* Then no window is mapped.
Owner(c) == Ownerless(c) => \A w \in Windows : c.window[w] # "mapped"

\* A window is in a list once.
Injective(l) == \A i, j \in DOMAIN l : l[i] = l[j] => i = j

\* The layer has the mapped windows, and none that is gone.
Layered(c) ==
  /\ Injective(c.layer)
  /\ \A w \in Range(c.layer) : c.window[w] # "none"
  /\ \A w \in Windows : c.window[w] = "mapped" => w \in Range(c.layer)

\* The switcher points to no window that is gone.
Choice(c) == c.current \in Windows => c.window[c.current] # "none"

\* The pointer's part depends on its focus, grab, buttons and windows only.
LEMMA PointerKept ==
  ASSUME NEW c, NEW t, NEW fs, OnlyOf(c, t, fs),
         fs \cap {"pfocus", "pgrab", "pressed", "kept", "moving", "window"} = {},
         NEW P, PointerTrue(c, P)
  PROVE  PointerTrue(t, P)
<1>1. /\ t.pfocus = c.pfocus /\ t.pgrab = c.pgrab /\ t.pressed = c.pressed
      /\ t.kept = c.kept /\ t.moving = c.moving /\ t.window = c.window
  BY DEF OnlyOf, Fields
<1> QED BY <1>1 DEF PointerTrue, Knows

\* What holds the pointer's grabs depends on the grabs only.
LEMMA GrabsKept ==
  ASSUME NEW c, NEW t, NEW fs, OnlyOf(c, t, fs),
         fs \cap {"kgrab", "pgrab"} = {}
  PROVE  /\ DragsBoth(c) => DragsBoth(t)
         /\ \A B : PointerHeld(c, B) => PointerHeld(t, B)
<1>1. t.pgrab = c.pgrab /\ t.kgrab = c.kgrab BY DEF OnlyOf, Fields
<1> QED BY <1>1 DEF DragsBoth, PointerHeld

\* The counts depend on the counters and on the keys only.
LEMMA CountedKept ==
  ASSUME NEW c, NEW t, NEW fs, OnlyOf(c, t, fs),
         fs \cap {"keys", "button_count", "idle_inhibit", "repeats", "strays"} = {},
         NEW B, Counted(c, B)
  PROVE  Counted(t, B)
<1>1. /\ t.keys = c.keys /\ t.button_count = c.button_count
      /\ t.idle_inhibit = c.idle_inhibit /\ t.repeats = c.repeats
      /\ t.strays = c.strays
  BY DEF OnlyOf, Fields
<1> QED BY <1>1 DEF Counted

\* What the keyboard's client knows depends on these fields only.
LEMMA KeyKept ==
  ASSUME NEW c, NEW t, NEW fs, OnlyOf(c, t, fs),
         fs \cap {"entered", "kfocus", "stale", "believes"} = {},
         NEW K, KeyTrue(c, K)
  PROVE  KeyTrue(t, K)
<1>1. /\ t.entered = c.entered /\ t.kfocus = c.kfocus /\ t.stale = c.stale
      /\ t.believes = c.believes
  BY DEF OnlyOf, Fields
<1> QED BY <1>1 DEF KeyTrue

\* What holds the keyboard's grabs depends on these fields only.
LEMMA HeldKept ==
  ASSUME NEW c, NEW t, NEW fs, OnlyOf(c, t, fs),
         fs \cap {"kgrab", "super", "key"} = {}
  PROVE  /\ Switching(c) => Switching(t)
         /\ \A K : Binding(c, K) => Binding(t, K)
<1>1. t.kgrab = c.kgrab /\ t.super = c.super /\ t.key = c.key
  BY DEF OnlyOf, Fields
<1> QED BY <1>1 DEF Switching, Binding

\* Whose the keyboard's focus is depends on these fields only.
LEMMA FocusKeptBy ==
  ASSUME NEW c, NEW t, NEW fs, OnlyOf(c, t, fs),
         fs \cap {"kfocus", "keyboard_focus", "window"} = {}, Focus(c)
  PROVE  Focus(t)
<1>1. /\ t.kfocus = c.kfocus /\ t.keyboard_focus = c.keyboard_focus
      /\ t.window = c.window
  BY DEF OnlyOf, Fields
<1> QED BY <1>1 DEF Focus

\* That someone has the keyboard depends on these fields only.
LEMMA OwnerKept ==
  ASSUME NEW c, NEW t, NEW fs, OnlyOf(c, t, fs),
         fs \cap {"kfocus", "letGo", "kgrab", "current", "window"} = {}, Owner(c)
  PROVE  Owner(t)
<1>1. /\ t.kfocus = c.kfocus /\ t.letGo = c.letGo /\ t.kgrab = c.kgrab
      /\ t.current = c.current /\ t.window = c.window
  BY DEF OnlyOf, Fields
<1> QED BY <1>1 DEF Owner, Ownerless

\* The order of the layer depends on it and on the windows only.
LEMMA LayeredKept ==
  ASSUME NEW c, NEW t, NEW fs, OnlyOf(c, t, fs),
         fs \cap {"layer", "window"} = {}, Layered(c)
  PROVE  Layered(t)
<1>1. t.layer = c.layer /\ t.window = c.window BY DEF OnlyOf, Fields
<1> QED BY <1>1 DEF Layered

\* What the switcher points to depends on it and on the windows only.
LEMMA ChoiceKept ==
  ASSUME NEW c, NEW t, NEW fs, OnlyOf(c, t, fs),
         fs \cap {"current", "window"} = {}, Choice(c)
  PROVE  Choice(t)
<1>1. t.current = c.current /\ t.window = c.window BY DEF OnlyOf, Fields
<1> QED BY <1>1 DEF Choice

\* What does not concern the pointer.
Rest(c, K) ==
  /\ KeyTrue(c, K) /\ Switching(c) /\ Binding(c, K)
  /\ Focus(c) /\ Owner(c) /\ Layered(c) /\ Choice(c)

\* What is of the pointer
Pointing == {"pfocus", "pgrab", "pressed", "kept", "grabbed", "moving", "helper",
             "idle_inhibit", "button_count", "buttons"}

\* Nothing of the pointer's concerns the rest.
LEMMA RestKept ==
  ASSUME NEW c, NEW t,
         OnlyOf(c, t, Pointing),
         NEW K, Rest(c, K)
  PROVE  Rest(t, K)
<1>1. KeyTrue(t, K) BY KeyKept DEF Rest, Pointing
<1>2. Switching(t) /\ Binding(t, K) BY HeldKept DEF Rest, Pointing
<1>3. Focus(t) /\ Owner(t) /\ Layered(t) /\ Choice(t)
  BY FocusKeptBy, OwnerKept, LayeredKept, ChoiceKept DEF Rest, Pointing
<1> QED BY <1>1, <1>2, <1>3 DEF Rest

-----------------------------------------------------------------------------
(* The foci.                                                               *)

\* A client entered knows the keys that are held; one that has the focus
\* already is not entered again.
LEMMA SetKeyboardFocusFacts ==
  ASSUME NEW c, Shaped(c), NEW w \in Owners
  PROVE  /\ Shaped(SetKeyboardFocus(c, w))
         /\ OnlyOf(c, SetKeyboardFocus(c, w),
                   {"kfocus", "entered", "believes", "stale"})
         /\ SetKeyboardFocus(c, w).kfocus = w
         /\ c.kfocus # w => KeyTrue(SetKeyboardFocus(c, w), c.keys)
         /\ KeyTrue(c, c.keys) => KeyTrue(SetKeyboardFocus(c, w), c.keys)
         /\ \A K : KeyTrue(c, K) /\ w = None
                    => SetKeyboardFocus(c, w).entered = None
<1> DEFINE t == SetKeyboardFocus(c, w)
           enters == w \in c.bound /\ c.window[w] # "closing"
           fs == {"kfocus", "entered", "believes", "stale"}
<1>1. CASE c.kfocus = w
  <2>1. t = c BY <1>1 DEF SetKeyboardFocus
  <2> QED BY <1>1, <2>1 DEF OnlyOf, KeyTrue
<1>2. CASE c.kfocus # w
  <2>1. t = [c EXCEPT !.kfocus = w, !.entered = IF enters THEN w ELSE None,
                    !.believes = IF enters THEN c.keys ELSE {},
                    !.stale = FALSE] BY <1>2 DEF SetKeyboardFocus
  <2> DEFINE at == IF enters THEN w ELSE None
             held == IF enters THEN c.keys ELSE {}
  <2>2. /\ Rec(t) /\ OnlyOf(c, t, fs)
        /\ t.kfocus = w /\ t.entered = at /\ t.believes = held /\ t.stale = FALSE
    <3>1. t = [c EXCEPT !.kfocus = w, !.entered = at, !.believes = held,
                        !.stale = FALSE] BY <2>1
    <3> HIDE DEF t, enters, at, held
    <3>2. Rec(t) BY <3>1 DEF Shaped, Rec
    <3>3. OnlyOf(c, t, fs) BY <3>1 DEF Shaped, Rec, Fields, OnlyOf
    <3>4. t.kfocus = w /\ t.entered = at /\ t.believes = held /\ t.stale = FALSE
      BY <3>1 DEF Shaped, Rec, Fields
    <3> QED BY <3>2, <3>3, <3>4
  <2> HIDE DEF t
  <2>3. /\ t.kfocus \in Types.kfocus /\ t.entered \in Types.entered
        /\ t.believes \in Types.believes /\ t.stale \in Types.stale
    BY <2>2, TypesAre, TypeOf DEF Owners
  <2>4. Shaped(t) BY <2>2, <2>3, ShapedAfter
  <2>5. KeyTrue(t, c.keys) BY <2>2 DEF KeyTrue
  <2>6. w = None => t.entered = None BY <2>2
  <2> QED BY <1>2, <2>2, <2>4, <2>5, <2>6 DEF t
<1> QED BY <1>1, <1>2

\* What the pointer may be given the focus of.
MayPick(c, p) ==
  /\ p.view \in Owners /\ p.elsewhere \in BOOLEAN
  /\ p.view # None => c.window[p.view] = "mapped"

\* It depends on the windows only.
LEMMA MayPickKept ==
  ASSUME NEW c, NEW t, t.window = c.window, NEW p, MayPick(c, p)
  PROVE  MayPick(t, p)
BY DEF MayPick

\* A pointer that enters another client has no button pressed there.
LEMMA PointerEntersFacts ==
  ASSUME NEW c, Shaped(c), NEW p, p.view \in Owners
  PROVE  /\ Shaped(PointerEnters(c, p))
         /\ OnlyOf(c, PointerEnters(c, p), {"pfocus", "pressed", "kept"})
         /\ PointerEnters(c, p).pfocus = p.view
         /\ \/ PointerEnters(c, p) = c
            \/ PointerEnters(c, p).pressed = {} /\ PointerEnters(c, p).kept = {}
<1> DEFINE t == PointerEnters(c, p)
           same == c.pfocus = p.view /\ ~p.elsewhere
<1>1. CASE same
  BY <1>1 DEF PointerEnters, OnlyOf
<1>2. CASE ~same
  <2>1. t = [c EXCEPT !.pfocus = p.view, !.pressed = {}, !.kept = {}]
    BY <1>2 DEF PointerEnters
  <2>2. /\ Rec(t) /\ OnlyOf(c, t, {"pfocus", "pressed", "kept"})
        /\ t.pfocus = p.view /\ t.pressed = {} /\ t.kept = {}
    <3> HIDE DEF t
    <3>1. Rec(t) BY <2>1 DEF Shaped, Rec
    <3>2. OnlyOf(c, t, {"pfocus", "pressed", "kept"})
      BY <2>1 DEF Shaped, Rec, Fields, OnlyOf
    <3>3. t.pfocus = p.view /\ t.pressed = {} /\ t.kept = {}
      BY <2>1 DEF Shaped, Rec, Fields
    <3> QED BY <3>1, <3>2, <3>3
  <2> HIDE DEF t
  <2>3. /\ t.pfocus \in Types.pfocus /\ t.pressed \in Types.pressed
        /\ t.kept \in Types.kept
    BY <2>2, TypeOf
  <2>4. Shaped(t) BY <2>2, <2>3, ShapedAfter
  <2> QED BY <2>2, <2>4 DEF t
<1> QED BY <1>1, <1>2

\* Nobody has the pointer once it is taken away.
LEMMA ClearPointerFocusFacts ==
  ASSUME NEW c, Shaped(c)
  PROVE  /\ Shaped(ClearPointerFocus(c))
         /\ OnlyOf(c, ClearPointerFocus(c), {"pfocus", "pressed", "kept"})
         /\ ClearPointerFocus(c).pfocus = None
<1> DEFINE p == [view |-> None, elsewhere |-> FALSE]
<1>1. p.view = None /\ p.view \in Owners BY DEF Owners
<1>2. ClearPointerFocus(c) = PointerEnters(c, p) BY DEF ClearPointerFocus
<1> HIDE DEF p
<1> QED BY <1>1, <1>2, PointerEntersFacts

\* With no button held, whatever window the pointer enters knows that.
LEMMA EntersTrue ==
  ASSUME NEW c, Shaped(c), NEW p, MayPick(c, p), c.pgrab = "default",
         c.pfocus # None => Knows(c, {})
  PROVE  PointerTrue(PointerEnters(c, p), {})
<1> DEFINE t == PointerEnters(c, p)
<1>1. /\ OnlyOf(c, t, {"pfocus", "pressed", "kept"}) /\ t.pfocus = p.view
      /\ t = c \/ (t.pressed = {} /\ t.kept = {})
  BY PointerEntersFacts DEF MayPick
<1> HIDE DEF t
<1>2. t.pgrab = "default" /\ t.window = c.window BY <1>1 DEF OnlyOf, Fields
<1>3. t.pfocus # None => Knows(t, {})
  <2>1. CASE t = c BY <2>1
  <2>2. CASE t.pressed = {} BY <2>2 DEF Knows
  <2> QED BY <1>1, <2>1, <2>2
<1>4. t.pfocus # None => t.window[t.pfocus] = "mapped" BY <1>1, <1>2 DEF MayPick
<1> QED BY <1>2, <1>3, <1>4 DEF PointerTrue, t

\* The focus of the default grab goes to a mapped window only, and only when
\* no button is held.
LEMMA GrabFocusFacts ==
  ASSUME NEW c, Shaped(c), NEW p, MayPick(c, p),
         NEW P, PointerTrue(c, P), c.button_count = 0 => P = {}
  PROVE  /\ Shaped(GrabFocus(c, p))
         /\ OnlyOf(c, GrabFocus(c, p), {"pfocus", "pressed", "kept"})
         /\ PointerTrue(GrabFocus(c, p), P)
<1> DEFINE t == GrabFocus(c, p)
           u == PointerEnters(c, p)
<1>1. CASE c.pgrab = "default" /\ c.button_count = 0
  <2>1. t = u BY <1>1 DEF GrabFocus
  <2>2. Shaped(u) /\ OnlyOf(c, u, {"pfocus", "pressed", "kept"})
    BY PointerEntersFacts DEF MayPick
  <2>3. P = {} /\ (c.pfocus # None => Knows(c, {})) BY <1>1 DEF PointerTrue
  <2>4. PointerTrue(u, P) BY <1>1, <2>3, EntersTrue
  <2> QED BY <2>1, <2>2, <2>4
<1>2. CASE ~(c.pgrab = "default" /\ c.button_count = 0)
  <2>1. t = c BY <1>2 DEF GrabFocus
  <2> QED BY <2>1 DEF OnlyOf
<1> QED BY <1>1, <1>2

\* What a grab of the shell may change.
Moved == {"pfocus", "pressed", "kept", "pgrab", "grabbed", "moving"}

\* A grab of the pointer that ends leaves the client what it knows.
LEMMA PointerGrabEnds ==
  ASSUME NEW c, NEW d, OnlyOf(c, d, {"pgrab", "grabbed", "moving"}),
         d.pgrab = "default", NEW P, PointerTrue(c, P)
  PROVE  PointerTrue(d, P) /\ d.button_count = c.button_count /\ d.window = c.window
<1>1. /\ d.pfocus = c.pfocus /\ d.window = c.window /\ d.pressed = c.pressed
      /\ d.kept = c.kept /\ d.button_count = c.button_count
  BY DEF OnlyOf, Fields
<1> QED BY <1>1 DEF PointerTrue, Knows

\* The end of the shell's grab.
LEMMA ShellGrabEndFacts ==
  ASSUME NEW c, Shaped(c), NEW p, MayPick(c, p),
         NEW P, PointerTrue(c, P), c.button_count = 0 => P = {}
  PROVE  /\ Shaped(ShellGrabEnd(c, p)) /\ OnlyOf(c, ShellGrabEnd(c, p), Moved)
         /\ ShellGrabEnd(c, p).pgrab = "default"
         /\ PointerTrue(ShellGrabEnd(c, p), P)
<1> DEFINE g == c.grabbed \ {c.moving}
           d == [c EXCEPT !.pgrab = "default", !.grabbed = g, !.moving = None]
           t == ShellGrabEnd(c, p)
<1>1. t = GrabFocus(d, p) BY DEF ShellGrabEnd
<1>2. g \in SUBSET Windows BY TypesAre
<1> HIDE DEF g, t
<1>3. /\ Rec(d) /\ OnlyOf(c, d, {"pgrab", "grabbed", "moving"})
      /\ d.pgrab = "default" /\ d.grabbed = g /\ d.moving = None
  BY DEF Shaped, Fields, OnlyOf, Rec
<1> HIDE DEF d
<1>4. /\ d.pgrab \in Types.pgrab /\ d.grabbed \in Types.grabbed
      /\ d.moving \in Types.moving
  BY <1>2, <1>3, TypeOf DEF Owners
<1>5. Shaped(d) BY <1>3, <1>4, ShapedAfter
<1>6. PointerTrue(d, P) /\ d.button_count = c.button_count /\ d.window = c.window
  BY <1>3, PointerGrabEnds
<1>7. MayPick(d, p) BY <1>6, MayPickKept
<1>8. /\ Shaped(t) /\ OnlyOf(d, t, {"pfocus", "pressed", "kept"})
      /\ PointerTrue(t, P)
  BY <1>1, <1>5, <1>6, <1>7, GrabFocusFacts
<1>9. t.pgrab = "default" BY <1>3, <1>8 DEF OnlyOf, Fields
<1>10. OnlyOf(c, t, Moved) BY <1>3, <1>8 DEF OnlyOf, Moved
<1> QED BY <1>8, <1>9, <1>10 DEF t

\* The end of a drag ends both of its grabs.
LEMMA EndDragFacts ==
  ASSUME NEW c, Shaped(c), NEW p, MayPick(c, p),
         NEW P, PointerTrue(c, P), c.button_count = 0 => P = {}
  PROVE  /\ Shaped(EndDrag(c, p))
         /\ OnlyOf(c, EndDrag(c, p), {"pgrab", "pfocus", "pressed", "kept", "kgrab"})
         /\ EndDrag(c, p).pgrab = "default" /\ EndDrag(c, p).kgrab = "default"
         /\ PointerTrue(EndDrag(c, p), P)
<1> DEFINE d == [c EXCEPT !.pgrab = "default"]
           e == GrabFocus(d, p)
           t == EndDrag(c, p)
<1>1. t = [e EXCEPT !.kgrab = "default"] BY DEF EndDrag
<1>2. Rec(d) /\ OnlyOf(c, d, {"pgrab"}) /\ d.pgrab = "default"
  BY DEF Shaped, Fields, OnlyOf, Rec
<1> HIDE DEF d, t
<1>3. Shaped(d)
  <2>1. d.pgrab \in Types.pgrab BY <1>2, TypeOf
  <2> QED BY <2>1, <1>2, ShapedAfter
<1>4. PointerTrue(d, P) /\ d.button_count = c.button_count /\ d.window = c.window
  <2>1. OnlyOf(c, d, {"pgrab", "grabbed", "moving"}) BY <1>2 DEF OnlyOf
  <2> QED BY <2>1, <1>2, PointerGrabEnds
<1>5. MayPick(d, p) BY <1>4, MayPickKept
<1>6. /\ Shaped(e) /\ OnlyOf(d, e, {"pfocus", "pressed", "kept"})
      /\ PointerTrue(e, P)
  BY <1>3, <1>4, <1>5, GrabFocusFacts
<1> HIDE DEF e
<1>7. Rec(t) /\ OnlyOf(e, t, {"kgrab"}) /\ t.kgrab = "default"
  BY <1>1, <1>6 DEF Shaped, Fields, OnlyOf, Rec
<1>8. t.kgrab \in Types.kgrab BY <1>7, TypeOf
<1>9. Shaped(t) BY <1>6, <1>7, <1>8, ShapedAfter
<1>10. t.pgrab = "default" BY <1>2, <1>6, <1>7 DEF OnlyOf, Fields
<1>11. PointerTrue(t, P) BY <1>6, <1>7, PointerKept
<1>12. OnlyOf(c, t, {"pgrab", "pfocus", "pressed", "kept", "kgrab"})
  BY <1>2, <1>6, <1>7 DEF OnlyOf
<1> QED BY <1>7, <1>9, <1>10, <1>11, <1>12 DEF t

-----------------------------------------------------------------------------
(* The list of the workspace.                                              *)

\* A window taken out of the list is not in it, the others are.
LEMMA WithoutFacts ==
  ASSUME NEW l \in Seq(Windows), Injective(l), NEW w
  PROVE  /\ Without(l, w) \in Seq(Windows) /\ Injective(Without(l, w))
         /\ Range(Without(l, w)) = Range(l) \ {w}
<1> DEFINE t == Without(l, w)
<1>1. CASE ~ \E i \in DOMAIN l : l[i] = w
  BY <1>1 DEF Without, Range
<1>2. CASE \E i \in DOMAIN l : l[i] = w
  <2> DEFINE k == CHOOSE i \in DOMAIN l : l[i] = w
             a == SubSeq(l, 1, k - 1)
             b == SubSeq(l, k + 1, Len(l))
  <2>1. k \in DOMAIN l /\ l[k] = w BY <1>2
  <2>2. t = a \o b BY <1>2 DEF Without, RemoveAt
  <2> HIDE DEF k, t
  <2>3. k \in 1 .. Len(l) /\ Len(l) \in Nat BY <2>1
  <2>4. /\ a \in Seq(Windows) /\ Len(a) = k - 1
        /\ \A i \in 1 .. k - 1 : a[i] = l[i]
    BY <2>3, SubSeqProperties
  <2>5. /\ b \in Seq(Windows) /\ Len(b) = Len(l) - k
        /\ \A i \in 1 .. Len(l) - k : b[i] = l[i + k]
    BY <2>3, SubSeqProperties
  <2> HIDE DEF a, b
  <2>51. /\ t \in Seq(Windows) /\ Len(t) = Len(a) + Len(b)
         /\ \A i \in 1 .. Len(a) + Len(b) :
              t[i] = IF i <= Len(a) THEN a[i] ELSE b[i - Len(a)]
    BY <2>2, <2>4, <2>5, ConcatProperties
  <2>52. Len(t) = Len(l) - 1 BY <2>3, <2>4, <2>5, <2>51
  <2>53. ASSUME NEW i \in 1 .. Len(l) - 1
         PROVE  t[i] = IF i < k THEN l[i] ELSE l[i + 1]
    <3>1. t[i] = IF i <= k - 1 THEN a[i] ELSE b[i - (k - 1)]
      <4>1. Len(a) = k - 1 BY <2>4
      <4>2. i \in 1 .. Len(a) + Len(b)
        <5>1. Len(a) + Len(b) = Len(l) - 1 BY <2>3, <2>4, <2>5
        <5> QED BY <5>1
      <4>3. t[i] = IF i <= Len(a) THEN a[i] ELSE b[i - Len(a)] BY <4>2, <2>51
      <4> QED BY <4>1, <4>3
    <3>2. CASE i < k
      BY <3>1, <3>2, <2>3, <2>4
    <3>3. CASE ~(i < k)
      <4>1. i - (k - 1) \in 1 .. Len(l) - k BY <3>3, <2>3
      <4>2. (i - (k - 1)) + k = i + 1 BY <2>3
      <4>3. b[i - (k - 1)] = l[(i - (k - 1)) + k] BY <4>1, <2>5
      <4> QED BY <3>1, <3>3, <4>2, <4>3, <2>3
    <3> QED BY <3>2, <3>3
  <2>6. /\ t \in Seq(Windows) /\ Len(t) = Len(l) - 1
        /\ \A i \in 1 .. Len(l) - 1 : t[i] = IF i < k THEN l[i] ELSE l[i + 1]
    BY <2>51, <2>52, <2>53
  <2>7. DOMAIN t = 1 .. Len(l) - 1 /\ DOMAIN l = 1 .. Len(l) BY <2>3, <2>6
  <2>8. Injective(t)
    <3> SUFFICES ASSUME NEW i \in 1 .. Len(l) - 1, NEW j \in 1 .. Len(l) - 1,
                        t[i] = t[j]
                 PROVE  i = j
      BY <2>7 DEF Injective
    <3> DEFINE p == IF i < k THEN i ELSE i + 1
               q == IF j < k THEN j ELSE j + 1
    <3>1. p \in 1 .. Len(l) /\ q \in 1 .. Len(l) BY <2>3
    <3>2. l[p] = l[q] BY <2>6
    <3>3. p = q BY <3>1, <3>2, <2>7 DEF Injective
    <3> QED BY <3>3, <2>3
  <2>9. ASSUME NEW x \in Range(t) PROVE x \in Range(l) \ {w}
    <3>1. PICK i \in 1 .. Len(l) - 1 : t[i] = x BY <2>7 DEF Range
    <3> DEFINE p == IF i < k THEN i ELSE i + 1
    <3>2. p \in 1 .. Len(l) /\ p # k BY <2>3
    <3>3. l[p] = x BY <3>1, <2>6
    <3> HIDE DEF p
    <3>4. x # w BY <3>2, <3>3, <2>1, <2>3, <2>7 DEF Injective
    <3> QED BY <3>2, <3>3, <3>4, <2>7 DEF Range
  <2>10. ASSUME NEW x \in Range(l) \ {w} PROVE x \in Range(t)
    <3>1. PICK i \in 1 .. Len(l) : l[i] = x BY <2>7 DEF Range
    <3>2. i # k BY <3>1, <2>1
    <3> DEFINE p == IF i < k THEN i ELSE i - 1
    <3>3. p \in 1 .. Len(l) - 1 BY <2>3, <3>2
    <3>4. t[p] = x
      <4>1. CASE i < k BY <4>1, <3>1, <3>3, <2>6
      <4>2. CASE ~(i < k)
        <5>1. p = i - 1 /\ ~(p < k) /\ p + 1 = i BY <4>2, <3>2, <2>3
        <5> HIDE DEF p
        <5> QED BY <5>1, <3>1, <3>3, <2>6
      <4> QED BY <4>1, <4>2
    <3> HIDE DEF p
    <3> QED BY <3>3, <3>4, <2>7 DEF Range
  <2> QED BY <2>6, <2>8, <2>9, <2>10 DEF t
<1> QED BY <1>1, <1>2

\* A window put on top of a list it was not in.
LEMMA OnTopFacts ==
  ASSUME NEW l \in Seq(Windows), Injective(l), NEW w \in Windows, w \notin Range(l)
  PROVE  /\ <<w>> \o l \in Seq(Windows) /\ Injective(<<w>> \o l)
         /\ Range(<<w>> \o l) = Range(l) \cup {w}
<1> DEFINE t == <<w>> \o l
<1>1. /\ t \in Seq(Windows) /\ Len(t) = Len(l) + 1
      /\ t[1] = w /\ \A i \in 1 .. Len(l) : t[i + 1] = l[i]
  OBVIOUS
<1> HIDE DEF t
<1>2. Len(l) \in Nat /\ DOMAIN l = 1 .. Len(l) /\ DOMAIN t = 1 .. Len(l) + 1
  BY <1>1
<1>3. \A i \in 2 .. Len(l) + 1 : t[i] = l[i - 1] /\ i - 1 \in 1 .. Len(l)
  <2> TAKE i \in 2 .. Len(l) + 1
  <2>1. i - 1 \in 1 .. Len(l) BY <1>2
  <2>2. (i - 1) + 1 = i BY <1>2
  <2>3. t[(i - 1) + 1] = l[i - 1] BY <1>1, <2>1
  <2> QED BY <2>1, <2>2, <2>3
<1>4. \A i \in 1 .. Len(l) : l[i] # w BY <1>2 DEF Range
<1>5. Injective(t)
  <2> SUFFICES ASSUME NEW i \in 1 .. Len(l) + 1, NEW j \in 1 .. Len(l) + 1,
                      t[i] = t[j]
               PROVE  i = j
    BY <1>2 DEF Injective
  <2>1. CASE i = 1 /\ j = 1 BY <2>1
  <2>2. CASE i = 1 /\ j # 1
    <3>1. j \in 2 .. Len(l) + 1 BY <2>2, <1>2
    <3> QED BY <3>1, <2>2, <1>1, <1>3, <1>4
  <2>3. CASE i # 1 /\ j = 1
    <3>1. i \in 2 .. Len(l) + 1 BY <2>3, <1>2
    <3> QED BY <3>1, <2>3, <1>1, <1>3, <1>4
  <2>4. CASE i # 1 /\ j # 1
    <3>1. i \in 2 .. Len(l) + 1 /\ j \in 2 .. Len(l) + 1 BY <2>4, <1>2
    <3>2. l[i - 1] = l[j - 1] /\ i - 1 \in DOMAIN l /\ j - 1 \in DOMAIN l
      BY <3>1, <1>2, <1>3
    <3>3. i - 1 = j - 1 BY <3>2 DEF Injective
    <3> QED BY <3>3
  <2> QED BY <2>1, <2>2, <2>3, <2>4
<1>6. ASSUME NEW x \in Range(t) PROVE x \in Range(l) \cup {w}
  <2>1. PICK i \in 1 .. Len(l) + 1 : t[i] = x BY <1>2 DEF Range
  <2>2. CASE i = 1 BY <2>1, <2>2, <1>1
  <2>3. CASE i # 1
    <3>1. i \in 2 .. Len(l) + 1 BY <2>3, <1>2
    <3>2. l[i - 1] = x /\ i - 1 \in DOMAIN l BY <3>1, <2>1, <1>2, <1>3
    <3> QED BY <3>2 DEF Range
  <2> QED BY <2>2, <2>3
<1>7. w \in Range(t)
  <2>1. 1 \in DOMAIN t BY <1>2
  <2> QED BY <2>1, <1>1 DEF Range
<1>8. ASSUME NEW x \in Range(l) PROVE x \in Range(t)
  <2>1. PICK i \in 1 .. Len(l) : l[i] = x BY <1>2 DEF Range
  <2>2. t[i + 1] = x /\ i + 1 \in DOMAIN t BY <2>1, <1>1, <1>2
  <2> QED BY <2>2 DEF Range
<1> QED BY <1>1, <1>5, <1>6, <1>7, <1>8 DEF t

\* The head of a list of windows is one of them.
LEMMA EmptyList ==
  ASSUME NEW l \in Seq(Windows)
  PROVE  /\ l = <<>> => Range(l) = {}
         /\ l # <<>> => Head(l) \in Range(l) /\ Head(l) \in Windows
         /\ Range(l) \subseteq Windows
<1>1. DOMAIN l = 1 .. Len(l) /\ Len(l) \in Nat OBVIOUS
<1>2. l # <<>> => 1 \in DOMAIN l /\ Head(l) = l[1] OBVIOUS
<1>3. l = <<>> => DOMAIN l = {} BY <1>1
<1>4. \A i \in DOMAIN l : l[i] \in Windows OBVIOUS
<1> QED BY <1>2, <1>3, <1>4 DEF Range

-----------------------------------------------------------------------------
(* Windows activated.                                                      *)

\* The layer is in order but that w may be missing.
LayeredBut(c, w) ==
  /\ Injective(c.layer)
  /\ \A x \in Range(c.layer) : c.window[x] # "none"
  /\ \A x \in Windows \ {w} : c.window[x] = "mapped" => x \in Range(c.layer)

\* A layer in order is in order but for any window.
LEMMA LayeredButs ==
  ASSUME NEW c, Layered(c), NEW w
  PROVE  LayeredBut(c, w)
BY DEF Layered, LayeredBut

\* The window that is activated has the focus and is on top of the layer.
LEMMA ActivateFacts ==
  ASSUME NEW c, Shaped(c), NEW w \in Windows, KeyTrue(c, c.keys), Injective(c.layer)
  PROVE  /\ Shaped(Activate(c, w))
         /\ OnlyOf(c, Activate(c, w), {"kfocus", "entered", "believes", "stale",
                                       "keyboard_focus", "letGo", "layer"})
         /\ Activate(c, w).kfocus = w /\ Activate(c, w).keyboard_focus = w
         /\ KeyTrue(Activate(c, w), c.keys)
         /\ Injective(Activate(c, w).layer)
         /\ Range(Activate(c, w).layer) = Range(c.layer) \cup {w}
<1> DEFINE d == SetKeyboardFocus(c, w)
           t == Activate(c, w)
           l == <<w>> \o Without(c.layer, w)
<1>1. /\ Shaped(d) /\ OnlyOf(c, d, {"kfocus", "entered", "believes", "stale"})
      /\ d.kfocus = w /\ KeyTrue(d, c.keys)
  BY SetKeyboardFocusFacts DEF Owners
<1>2. d.layer = c.layer BY <1>1 DEF OnlyOf, Fields
<1>3. t = [d EXCEPT !.keyboard_focus = w, !.letGo = FALSE, !.layer = l]
  BY <1>2 DEF Activate
<1> DEFINE fs == {"keyboard_focus", "letGo", "layer"}
<1>4. l \in Seq(Windows) /\ Injective(l) /\ Range(l) = Range(c.layer) \cup {w}
  <2> DEFINE r == Without(c.layer, w)
  <2>0. c.layer \in Seq(Windows) BY TypesAre
  <2>1. r \in Seq(Windows) /\ Injective(r) /\ Range(r) = Range(c.layer) \ {w}
    BY <2>0, WithoutFacts
  <2> HIDE DEF r
  <2>2. /\ <<w>> \o r \in Seq(Windows) /\ Injective(<<w>> \o r)
        /\ Range(<<w>> \o r) = Range(r) \cup {w}
    BY <2>1, OnTopFacts
  <2> QED BY <2>1, <2>2 DEF r
<1> HIDE DEF d, t, l
<1>5. /\ Rec(t) /\ OnlyOf(d, t, fs)
      /\ t.keyboard_focus = w /\ t.letGo = FALSE /\ t.layer = l
  BY <1>1, <1>3 DEF Shaped, Fields, OnlyOf, Rec
<1>6. /\ t.keyboard_focus \in Types.keyboard_focus /\ t.letGo \in Types.letGo
      /\ t.layer \in Types.layer
  BY <1>4, <1>5, TypeOf DEF Owners
<1>7. Shaped(t) BY <1>1, <1>5, <1>6, ShapedAfter
<1>8. t.kfocus = w BY <1>1, <1>5 DEF OnlyOf, Fields
<1>9. KeyTrue(t, c.keys) BY <1>1, <1>5, KeyKept
<1>10. OnlyOf(c, t, {"kfocus", "entered", "believes", "stale",
                     "keyboard_focus", "letGo", "layer"})
  BY <1>1, <1>5, OnlyTrans
<1> QED BY <1>4, <1>5, <1>7, <1>8, <1>9, <1>10 DEF t

\* Whatever was wrong with the focus or its owner, it is right once a window
\* that exists is activated.
LEMMA ActivateRest ==
  ASSUME NEW c, Shaped(c), NEW w \in Windows, c.window[w] # "none",
         KeyTrue(c, c.keys), LayeredBut(c, w)
  PROVE  /\ Shaped(Activate(c, w))
         /\ OnlyOf(c, Activate(c, w), {"kfocus", "entered", "believes", "stale",
                                       "keyboard_focus", "letGo", "layer"})
         /\ Activate(c, w).kfocus = w
         /\ KeyTrue(Activate(c, w), c.keys) /\ Focus(Activate(c, w))
         /\ Owner(Activate(c, w)) /\ Layered(Activate(c, w))
         /\ Choice(c) => Choice(Activate(c, w))
<1> DEFINE t == Activate(c, w)
           fs == {"kfocus", "entered", "believes", "stale",
                  "keyboard_focus", "letGo", "layer"}
<1>1. /\ Shaped(t) /\ OnlyOf(c, t, fs)
      /\ t.kfocus = w /\ t.keyboard_focus = w /\ KeyTrue(t, c.keys)
      /\ Injective(t.layer) /\ Range(t.layer) = Range(c.layer) \cup {w}
  BY ActivateFacts DEF LayeredBut
<1> HIDE DEF t
<1>2. t.window = c.window BY <1>1 DEF OnlyOf, Fields
<1>3. Focus(t) BY <1>1, <1>2 DEF Focus
<1>4. Owner(t) BY <1>1, SeatAssumption DEF Owner, Ownerless
<1>5. Layered(t) BY <1>1, <1>2 DEF Layered, LayeredBut
<1>6. Choice(c) => Choice(t) BY <1>1, ChoiceKept
<1> QED BY <1>1, <1>3, <1>4, <1>5, <1>6 DEF t

-----------------------------------------------------------------------------
(* The mouse.                                                              *)

\* All of it.
Good(c, P, B, K) ==
  /\ PointerTrue(c, P) /\ PointerHeld(c, B) /\ DragsBoth(c) /\ Counted(c, B)
  /\ Rest(c, K)

\* What a button may change.
Clicked == {"kfocus", "entered", "believes", "stale", "keyboard_focus", "letGo",
            "layer", "pfocus", "pressed", "kept", "grabbed", "moving", "pgrab", "kgrab", "idle_inhibit",
            "button_count"}

\* A press on a window activates it.
LEMMA ActivateBindingFacts ==
  ASSUME NEW c, Shaped(c), NEW P, NEW B, Good(c, P, B, c.keys)
  PROVE  /\ Shaped(ActivateBinding(c)) /\ OnlyOf(c, ActivateBinding(c), Clicked)
         /\ ActivateBinding(c).pgrab = c.pgrab
         /\ Good(ActivateBinding(c), P, B, c.keys)
<1> DEFINE t == ActivateBinding(c)
           w == c.pfocus
           fs == {"kfocus", "entered", "believes", "stale",
                  "keyboard_focus", "letGo", "layer"}
<1>1. CASE ~(c.pfocus # None /\ c.keyboard_focus # c.pfocus)
  BY <1>1 DEF ActivateBinding, OnlyOf
<1>2. CASE c.pfocus # None /\ c.keyboard_focus # c.pfocus
  <2>1. w \in Windows /\ c.window[w] # "none"
    BY <1>2, TypesAre DEF Owners, Good, PointerTrue
  <2>2. t = Activate(c, w) BY <1>2 DEF ActivateBinding
  <2>3. /\ KeyTrue(c, c.keys) /\ Switching(c) /\ Binding(c, c.keys)
        /\ LayeredBut(c, w) /\ Choice(c)
    BY LayeredButs DEF Good, Rest
  <2> HIDE DEF t, w
  <2>4. /\ Shaped(t) /\ OnlyOf(c, t, fs) /\ KeyTrue(t, c.keys)
        /\ Focus(t) /\ Owner(t) /\ Layered(t) /\ Choice(t)
    BY <2>1, <2>2, <2>3, ActivateRest
  <2>41. Switching(t) /\ Binding(t, c.keys) BY <2>3, <2>4, HeldKept
  <2>5. Rest(t, c.keys) BY <2>4, <2>41 DEF Rest
  <2>6. PointerTrue(t, P) BY <2>4, PointerKept DEF Good
  <2>7. PointerHeld(t, B) /\ DragsBoth(t) BY <2>4, GrabsKept DEF Good
  <2>8. Counted(t, B) BY <2>4, CountedKept DEF Good
  <2>9. t.pgrab = c.pgrab BY <2>4 DEF OnlyOf, Fields
  <2>10. OnlyOf(c, t, Clicked) BY <2>4 DEF OnlyOf, Clicked
  <2> QED BY <2>4, <2>5, <2>6, <2>7, <2>8, <2>9, <2>10 DEF t, Good
<1> QED BY <1>1, <1>2

\* The shell's grab takes the pointer from the client, or moves the client's
\* window without a helper to take it.
LEMMA ShellGrabStartFacts ==
  ASSUME NEW c, Shaped(c), NEW P, NEW B, NEW K, Good(c, P, B, K),
         c.pfocus # None, B # {}
  PROVE  /\ Shaped(ShellGrabStart(c)) /\ OnlyOf(c, ShellGrabStart(c), Moved)
         /\ Good(ShellGrabStart(c), P, B, K)
<1> DEFINE d == IF c.helper THEN ClearPointerFocus(c) ELSE c
           g == c.grabbed \cup {c.pfocus}
           t == ShellGrabStart(c)
<1>1. /\ Shaped(d) /\ OnlyOf(c, d, {"pfocus", "pressed", "kept"})
      /\ d.pfocus = None \/ d = c
  BY ClearPointerFocusFacts DEF OnlyOf
<1>2. d.grabbed = c.grabbed BY <1>1 DEF OnlyOf, Fields
<1>3. t = [d EXCEPT !.pgrab = "shell", !.grabbed = g, !.moving = c.pfocus]
  BY <1>2 DEF ShellGrabStart
<1>4. g \in SUBSET Windows /\ c.pfocus \in Owners
  BY TypesAre DEF Owners
<1> HIDE DEF d, g, t
<1>5. /\ Rec(t) /\ OnlyOf(d, t, {"pgrab", "grabbed", "moving"})
      /\ t.pgrab = "shell" /\ t.grabbed = g /\ t.moving = c.pfocus
  BY <1>1, <1>3 DEF Shaped, Fields, OnlyOf, Rec
<1>6. Shaped(t)
  <2>1. /\ t.pgrab \in Types.pgrab /\ t.grabbed \in Types.grabbed
        /\ t.moving \in Types.moving
    BY <1>4, <1>5, TypeOf
  <2> QED BY <2>1, <1>1, <1>5, ShapedAfter
<1>7. OnlyOf(c, t, Moved) BY <1>1, <1>5 DEF OnlyOf, Moved
<1>8. PointerTrue(t, P)
  <2>1. CASE d.pfocus = None
    <3>1. t.pfocus = None BY <1>5, <2>1 DEF OnlyOf, Fields
    <3> QED BY <3>1 DEF PointerTrue
  <2>2. CASE d = c
    <3>1. /\ t.pfocus = c.pfocus /\ t.window = c.window
          /\ t.pressed = c.pressed /\ t.kept = c.kept
      BY <1>5, <2>2 DEF OnlyOf, Fields
    <3> QED BY <1>5, <3>1 DEF PointerTrue, Knows, Good
  <2> QED BY <1>1, <2>1, <2>2
<1>9. PointerHeld(t, B) BY DEF PointerHeld
<1>10. DragsBoth(t)
  <2>1. c.kgrab # "drag" BY DEF DragsBoth, Good, PointerTrue
  <2>2. t.kgrab = c.kgrab BY <1>7 DEF OnlyOf, Fields, Moved
  <2> QED BY <1>5, <2>1, <2>2 DEF DragsBoth
<1>11. Counted(t, B) BY <1>7, CountedKept DEF Good, Moved
<1>12. Rest(t, K)
  <2>1. OnlyOf(c, t, Pointing) BY <1>7 DEF OnlyOf, Pointing, Moved
  <2> QED BY <2>1, RestKept DEF Good
<1> QED BY <1>6, <1>7, <1>8, <1>9, <1>10, <1>11, <1>12 DEF t, Good

\* A move or a resize begins such a grab, or does nothing.
LEMMA MoveOrResizeFacts ==
  ASSUME NEW c, Shaped(c), NEW P, NEW B, NEW K, Good(c, P, B, K),
         c.pfocus # None, B # {}
  PROVE  /\ Shaped(MoveOrResize(c)) /\ OnlyOf(c, MoveOrResize(c), Moved)
         /\ Good(MoveOrResize(c), P, B, K)
<1>1. CASE c.pfocus \in c.grabbed
  <2>1. MoveOrResize(c) = c BY <1>1 DEF MoveOrResize
  <2> QED BY <2>1 DEF OnlyOf
<1>2. CASE c.pfocus \notin c.grabbed
  <2>1. MoveOrResize(c) = ShellGrabStart(c) BY <1>2 DEF MoveOrResize
  <2> QED BY <2>1, ShellGrabStartFacts
<1> QED BY <1>1, <1>2

\* A press is seen by the bindings before the grab.
LEMMA RunButtonBindingFacts ==
  ASSUME NEW c, Shaped(c), NEW P, NEW B, Good(c, P, B, c.keys), B # {},
         NEW b \in Buttons
  PROVE  /\ Shaped(RunButtonBinding(c, b)) /\ OnlyOf(c, RunButtonBinding(c, b), Clicked)
         /\ Good(RunButtonBinding(c, b), P, B, c.keys)
<1> DEFINE t == RunButtonBinding(c, b)
           starts == c.super /\ c.pfocus # None
           clicks == ~c.super /\ b # Middle /\ c.pgrab = "default"
<1>1. CASE starts
  <2>1. t \in {ShellGrabStart(c), MoveOrResize(c)} BY <1>1 DEF RunButtonBinding
  <2>2. /\ Shaped(t) /\ OnlyOf(c, t, Moved) /\ Good(t, P, B, c.keys)
    <3> HIDE DEF t
    <3>1. CASE t = ShellGrabStart(c) BY <1>1, <3>1, ShellGrabStartFacts
    <3>2. CASE t = MoveOrResize(c) BY <1>1, <3>2, MoveOrResizeFacts
    <3> QED BY <2>1, <3>1, <3>2
  <2> HIDE DEF t
  <2>3. OnlyOf(c, t, Clicked) BY <2>2 DEF OnlyOf, Clicked, Moved
  <2> QED BY <2>2, <2>3 DEF t
<1>2. CASE ~starts /\ clicks
  <2>1. t = ActivateBinding(c) BY <1>2 DEF RunButtonBinding
  <2> QED BY <2>1, ActivateBindingFacts
<1>3. CASE ~starts /\ ~clicks
  <2>1. t = c BY <1>3 DEF RunButtonBinding
  <2> QED BY <2>1 DEF OnlyOf
<1> QED BY <1>1, <1>2, <1>3

\* The end of a drag changes nothing for the keyboard but its grab.
LEMMA DragRest ==
  ASSUME NEW c, NEW t, OnlyOf(c, t, {"pgrab", "pfocus", "pressed", "kept", "kgrab"}),
         c.kgrab = "drag", t.kgrab = "default", NEW K, Rest(c, K)
  PROVE  Rest(t, K)
<1>1. KeyTrue(t, K) BY KeyKept DEF Rest
<1>2. Switching(t) /\ Binding(t, K) BY DEF Switching, Binding
<1>3. Focus(t) /\ Layered(t) /\ Choice(t)
  BY FocusKeptBy, LayeredKept, ChoiceKept DEF Rest
<1>4. t.kfocus = c.kfocus /\ t.letGo = c.letGo /\ t.window = c.window
  BY DEF OnlyOf, Fields
<1>5. Owner(t) BY <1>4 DEF Owner, Ownerless, Rest
<1> QED BY <1>1, <1>2, <1>3, <1>5 DEF Rest

\* What the client knows of the buttons after one it is told of.
LEMMA ToldKnows ==
  ASSUME NEW c, NEW t, NEW P, NEW b, NEW press \in BOOLEAN, Knows(c, P),
         t.pressed = IF press THEN c.pressed \cup {b} ELSE c.pressed \ {b},
         t.kept = c.kept \ {b}
  PROVE  Knows(t, IF press THEN P \cup {b} ELSE P \ {b})
<1> DEFINE B == IF press THEN P \cup {b} ELSE P \ {b}
<1> SUFFICES ASSUME NEW x \in Buttons \ t.kept PROVE x \in t.pressed <=> x \in B
  BY DEF Knows
<1>1. CASE x = b BY <1>1
<1>2. CASE x # b BY <1>2 DEF Knows
<1> QED BY <1>1, <1>2

\* And after one that is kept from it.
LEMMA KeptKnows ==
  ASSUME NEW c, NEW t, NEW P, NEW b, NEW press \in BOOLEAN, Knows(c, P),
         t.pressed = c.pressed, t.kept = c.kept \cup {b}
  PROVE  Knows(t, IF press THEN P \cup {b} ELSE P \ {b})
BY DEF Knows

\* The handlers of the grabs: P is what the client believes before, B what is
\* held after the event.
LEMMA GrabButtonFacts ==
  ASSUME NEW c, Shaped(c), NEW P \in SUBSET Buttons, NEW b \in Buttons,
         NEW press \in BOOLEAN, NEW at, MayPick(c, at),
         NEW B, B = IF press THEN P \cup {b} ELSE P \ {b},
         NEW K, PointerTrue(c, P), DragsBoth(c), Counted(c, B), Rest(c, K),
         c.button_count = 0 => B = {}
  PROVE  /\ Shaped(GrabButton(c, b, press, at))
         /\ OnlyOf(c, GrabButton(c, b, press, at), Clicked)
         /\ Good(GrabButton(c, b, press, at), B, B, K)
<1> DEFINE t == GrabButton(c, b, press, at)
           last == ~press /\ c.button_count = 0
           p == IF press THEN c.pressed \cup {b} ELSE c.pressed \ {b}
           q == c.kept \ {b}
           r == c.kept \cup {b}
           told == IF c.pfocus = None THEN c ELSE [c EXCEPT !.pressed = p, !.kept = q]
           untold == IF c.pfocus = None THEN c ELSE [c EXCEPT !.kept = r]
           fs == Moved \cup {"kgrab"}
\* What is left to show of each case
<1>0. ASSUME Shaped(t), OnlyOf(c, t, fs), PointerTrue(t, B), PointerHeld(t, B),
             t.kgrab = "drag" <=> t.pgrab = "drag", Rest(t, K)
      PROVE  Shaped(t) /\ OnlyOf(c, t, Clicked) /\ Good(t, B, B, K)
  <2> HIDE DEF t
  <2>1. Counted(t, B) BY <1>0, CountedKept DEF Moved
  <2>2. DragsBoth(t) BY <1>0 DEF DragsBoth
  <2>3. OnlyOf(c, t, Clicked) BY <1>0 DEF OnlyOf, Clicked, Moved
  <2> QED BY <1>0, <2>1, <2>2, <2>3 DEF Good
<1>01. ASSUME OnlyOf(c, t, Moved) PROVE Rest(t, K) /\ OnlyOf(c, t, fs)
  <2> HIDE DEF t
  <2>1. OnlyOf(c, t, Pointing) BY <1>01 DEF OnlyOf, Pointing, Moved
  <2> QED BY <1>01, <2>1, RestKept DEF OnlyOf
<1>02. /\ c.pgrab \in {"default", "shell", "drag"} /\ c.pressed \in SUBSET Buttons
       /\ c.kept \in SUBSET Buttons
  BY TypesAre
<1>03. /\ Shaped(told) /\ OnlyOf(c, told, {"pressed", "kept"})
       /\ c.pgrab # "drag" => PointerTrue(told, B)
  <2>1. CASE c.pfocus = None
    <3>1. told = c BY <2>1
    <3> HIDE DEF told
    <3> QED BY <2>1, <3>1 DEF OnlyOf, PointerTrue
  <2>2. CASE c.pfocus # None
    <3>1. told = [c EXCEPT !.pressed = p, !.kept = q] BY <2>2
    <3> HIDE DEF p, q, told
    <3>2. /\ Rec(told) /\ OnlyOf(c, told, {"pressed", "kept"})
          /\ told.pressed = p /\ told.kept = q
      BY <3>1 DEF Shaped, Fields, OnlyOf, Rec
    <3>3. told.pressed \in Types.pressed /\ told.kept \in Types.kept
      BY <3>2, <1>02, TypeOf DEF p, q
    <3>4. Shaped(told) BY <3>2, <3>3, ShapedAfter
    <3>5. /\ told.pfocus = c.pfocus /\ told.pgrab = c.pgrab
          /\ told.moving = c.moving /\ told.window = c.window
      BY <3>2 DEF OnlyOf, Fields
    <3>6. Knows(c, P) BY <2>2 DEF PointerTrue
    <3>7. Knows(told, B) BY <3>2, <3>6, ToldKnows DEF p, q
    <3>8. PointerTrue(told, B) BY <3>5, <3>7 DEF PointerTrue
    <3> QED BY <3>2, <3>4, <3>8
  <2> QED BY <2>1, <2>2
<1>04. /\ Shaped(untold) /\ OnlyOf(c, untold, {"kept"})
       /\ PointerTrue(untold, B)
  <2>1. CASE c.pfocus = None
    <3>1. untold = c BY <2>1
    <3> HIDE DEF untold
    <3> QED BY <2>1, <3>1 DEF OnlyOf, PointerTrue
  <2>2. CASE c.pfocus # None
    <3>1. untold = [c EXCEPT !.kept = r] BY <2>2
    <3> HIDE DEF r, untold
    <3>2. Rec(untold) /\ OnlyOf(c, untold, {"kept"}) /\ untold.kept = r
      BY <3>1 DEF Shaped, Fields, OnlyOf, Rec
    <3>3. untold.kept \in Types.kept BY <3>2, <1>02, TypeOf DEF r
    <3>4. Shaped(untold) BY <3>2, <3>3, ShapedAfter
    <3>5. /\ untold.pfocus = c.pfocus /\ untold.pgrab = c.pgrab
          /\ untold.moving = c.moving /\ untold.window = c.window
          /\ untold.pressed = c.pressed
      BY <3>2 DEF OnlyOf, Fields
    <3>6. Knows(c, P) BY <2>2 DEF PointerTrue
    <3>7. Knows(untold, B) BY <3>2, <3>5, <3>6, KeptKnows DEF r
    <3>8. PointerTrue(untold, B) BY <3>5, <3>7 DEF PointerTrue
    <3> QED BY <3>2, <3>4, <3>8
  <2> QED BY <2>1, <2>2
<1>05. last => B = {} OBVIOUS
<1>06. ~last => B # {}
  <2>1. CASE press BY <2>1
  <2>2. CASE ~press
    <3>1. B = {} => c.button_count = 0 BY FS_EmptySet DEF Counted
    <3> QED BY <2>2, <3>1
  <2> QED BY <2>1, <2>2
<1>07. /\ told.window = c.window /\ told.pgrab = c.pgrab /\ told.kgrab = c.kgrab
       /\ told.button_count = c.button_count
       /\ untold.window = c.window /\ untold.pgrab = c.pgrab
       /\ untold.kgrab = c.kgrab /\ untold.button_count = c.button_count
  <2> HIDE DEF told, untold
  <2> QED BY <1>03, <1>04 DEF OnlyOf, Fields
<1>08. MayPick(told, at) /\ MayPick(untold, at)
  <2> HIDE DEF told, untold
  <2> QED BY <1>07, MayPickKept
<1>1. CASE c.pgrab = "default" /\ last
  <2> DEFINE u == PointerEnters(told, at)
  <2>1. t = u BY <1>1 DEF GrabButton
  <2> HIDE DEF told, p, q, t
  <2>2. Shaped(u) /\ OnlyOf(told, u, {"pfocus", "pressed", "kept"})
    BY <1>03, <1>08, PointerEntersFacts DEF MayPick
  <2>3. PointerTrue(u, B)
    <3>1. told.pfocus # None => Knows(told, {})
      BY <1>1, <1>03, <1>05 DEF PointerTrue
    <3> QED BY <1>1, <1>03, <1>05, <1>07, <1>08, <3>1, EntersTrue
  <2> HIDE DEF u
  <2>4. OnlyOf(c, t, Moved) BY <1>03, <2>1, <2>2 DEF OnlyOf, Moved
  <2>5. t.pgrab = "default" /\ t.kgrab = c.kgrab
    BY <1>1, <1>07, <2>1, <2>2 DEF OnlyOf, Fields
  <2>6. PointerHeld(t, B) BY <2>5 DEF PointerHeld
  <2>7. t.kgrab = "drag" <=> t.pgrab = "drag" BY <1>1, <2>5 DEF DragsBoth
  <2> QED BY <2>1, <2>2, <2>3, <2>4, <2>6, <2>7, <1>0, <1>01 DEF t
<1>2. CASE c.pgrab = "default" /\ ~last
  <2>1. t = told BY <1>2 DEF GrabButton
  <2> HIDE DEF told, p, q, t
  <2>2. OnlyOf(c, t, Moved) BY <1>03, <2>1 DEF OnlyOf, Moved
  <2>3. PointerTrue(t, B) BY <1>2, <1>03, <2>1
  <2>4. PointerHeld(t, B) BY <1>2, <1>07, <2>1 DEF PointerHeld
  <2>5. t.kgrab = "drag" <=> t.pgrab = "drag" BY <1>07, <2>1 DEF DragsBoth
  <2> QED BY <1>03, <2>1, <2>2, <2>3, <2>4, <2>5, <1>0, <1>01 DEF t
<1>3. CASE c.pgrab = "shell" /\ last
  <2> DEFINE u == ShellGrabEnd(untold, at)
  <2>1. t = u BY <1>3 DEF GrabButton
  <2>2. c.kgrab # "drag" BY <1>3 DEF DragsBoth
  <2> HIDE DEF untold, r, t
  <2>3. /\ Shaped(u) /\ OnlyOf(untold, u, Moved)
        /\ u.pgrab = "default" /\ PointerTrue(u, B)
    BY <1>04, <1>05, <1>3, <1>08, ShellGrabEndFacts
  <2> HIDE DEF u
  <2>4. OnlyOf(c, t, Moved) BY <1>04, <2>1, <2>3 DEF OnlyOf, Moved
  <2>5. t.kgrab = c.kgrab BY <2>4 DEF OnlyOf, Fields, Moved
  <2>6. PointerHeld(t, B) BY <2>1, <2>3 DEF PointerHeld
  <2> QED BY <2>1, <2>2, <2>3, <2>4, <2>5, <2>6, <1>0, <1>01 DEF t
<1>4. CASE c.pgrab = "shell" /\ ~last
  <2>1. t = untold BY <1>4 DEF GrabButton
  <2> HIDE DEF untold, r, t
  <2>2. OnlyOf(c, t, Moved) BY <1>04, <2>1 DEF OnlyOf, Moved
  <2>3. PointerHeld(t, B) BY <1>4, <1>06 DEF PointerHeld
  <2>4. t.kgrab = "drag" <=> t.pgrab = "drag" BY <1>07, <2>1 DEF DragsBoth
  <2> QED BY <1>04, <2>1, <2>2, <2>3, <2>4, <1>0, <1>01 DEF t
<1>5. CASE c.pgrab = "drag"
  <2>1. c.pfocus = None /\ c.kgrab = "drag" BY <1>5 DEF PointerTrue, DragsBoth
  <2>2. PointerTrue(c, B) BY <2>1 DEF PointerTrue
  <2>3. CASE last
    <3> DEFINE u == EndDrag(c, at)
    <3>1. t = u BY <1>5, <2>3 DEF GrabButton
    <3>2. /\ Shaped(u) /\ OnlyOf(c, u, {"pgrab", "pfocus", "pressed", "kept", "kgrab"})
          /\ u.pgrab = "default" /\ u.kgrab = "default" /\ PointerTrue(u, B)
      BY <1>05, <2>2, <2>3, EndDragFacts
    <3> HIDE DEF u, t
    <3>3. OnlyOf(c, t, fs) BY <3>1, <3>2 DEF OnlyOf, Moved
    <3>4. PointerHeld(t, B) BY <3>1, <3>2 DEF PointerHeld
    <3>5. Rest(t, K) BY <2>1, <3>1, <3>2, DragRest
    <3> QED BY <3>1, <3>2, <3>3, <3>4, <3>5, <1>0 DEF t
  <2>4. CASE ~last
    <3>1. t = c BY <1>5, <2>4 DEF GrabButton
    <3>2. PointerHeld(t, B) BY <1>06, <2>4 DEF PointerHeld
    <3>3. OnlyOf(c, t, fs) BY <3>1 DEF OnlyOf
    <3> HIDE DEF t
    <3> QED BY <2>2, <3>1, <3>2, <3>3, <1>0 DEF t, DragsBoth
  <2> QED BY <2>3, <2>4
<1> QED BY <1>1, <1>2, <1>3, <1>4, <1>5, <1>02

\* The keys held are finitely many.
LEMMA KeysFinite ==
  ASSUME NEW c, Shaped(c)
  PROVE  c.keys \in SUBSET Keys /\ IsFiniteSet(c.keys) /\ Cardinality(c.keys) \in Nat
<1>1. c.keys \in SUBSET Keys BY TypesAre
<1>2. IsFiniteSet(Keys)
  <2>1. Keys = ({} \cup {"Super"} \cup {"Tab"}) \cup {"F9"} BY DEF Keys
  <2>2. IsFiniteSet({} \cup {"Super"}) BY FS_EmptySet, FS_AddElement
  <2>3. IsFiniteSet({} \cup {"Super"} \cup {"Tab"}) BY <2>2, FS_AddElement
  <2> QED BY <2>1, <2>3, FS_AddElement
<1>3. IsFiniteSet(c.keys) BY <1>1, <1>2, FS_Subset
<1> QED BY <1>1, <1>3, FS_CardinalityType

\* So are the buttons.
LEMMA ButtonsFinite ==
  ASSUME NEW c, Shaped(c)
  PROVE  IsFiniteSet(c.buttons)
<1>1. c.buttons \in SUBSET Buttons BY TypesAre
<1>2. IsFiniteSet(Buttons) BY SeatAssumption, FS_Interval DEF Buttons
<1> QED BY <1>1, <1>2, FS_Subset

\* One button that differs, while P are held.
LEMMA NotifyButtonFacts ==
  ASSUME NEW c, Shaped(c), NEW P \in SUBSET Buttons, NEW b \in Buttons,
         NEW press \in BOOLEAN, press <=> b \notin P,
         NEW w, MayPick(c, w), Good(c, P, P, c.keys),
         NEW B, B = IF press THEN P \cup {b} ELSE P \ {b}
  PROVE  /\ Shaped(NotifyButton(c, b, press, w))
         /\ OnlyOf(c, NotifyButton(c, b, press, w), Clicked)
         /\ Good(NotifyButton(c, b, press, w), B, B, c.keys)
<1> DEFINE n == IF press THEN 1 ELSE -1
           d == [c EXCEPT !.idle_inhibit = @ + n, !.button_count = @ + n]
           e == IF press THEN RunButtonBinding(d, b) ELSE d
           t == GrabButton(e, b, press, w)
<1>1. NotifyButton(c, b, press, w) = t BY DEF NotifyButton
<1>2. /\ c.idle_inhibit \in Int /\ c.button_count \in Int
      /\ c.repeats \in Int /\ c.strays \in Int
  BY TypesAre
<1>3. /\ Rec(d) /\ OnlyOf(c, d, {"idle_inhibit", "button_count"})
      /\ d.idle_inhibit = c.idle_inhibit + n /\ d.button_count = c.button_count + n
  BY DEF Shaped, Fields, OnlyOf, Rec
<1>4. IsFiniteSet(P) /\ Cardinality(P) \in Nat
  <2>1. IsFiniteSet(Buttons) BY SeatAssumption, FS_Interval DEF Buttons
  <2>2. IsFiniteSet(P) BY <2>1, FS_Subset
  <2> QED BY <2>2, FS_CardinalityType
<1>5. Cardinality(B) = Cardinality(P) + n
  <2>1. CASE press BY <2>1, <1>4, FS_AddElement
  <2>2. CASE ~press BY <2>2, <1>4, FS_RemoveElement
  <2> QED BY <2>1, <2>2
<1>6. IsFiniteSet(B) /\ Cardinality(B) \in Nat
  <2>1. IsFiniteSet(B) BY <1>4, FS_AddElement, FS_RemoveElement
  <2> QED BY <2>1, FS_CardinalityType
<1> HIDE DEF n, d
<1>7. n \in Int BY DEF n
<1>8. Shaped(d)
  <2>1. d.idle_inhibit \in Types.idle_inhibit /\ d.button_count \in Types.button_count
    BY <1>2, <1>3, <1>7, TypeOf
  <2> QED BY <2>1, <1>3, ShapedAfter
<1>9. /\ d.keys = c.keys /\ d.window = c.window /\ d.repeats = c.repeats
      /\ d.strays = c.strays
  BY <1>3 DEF OnlyOf, Fields
<1>10. Cardinality(c.keys) \in Int BY KeysFinite
<1>11. Counted(d, B)
  <2>1. /\ c.button_count = Cardinality(P)
        /\ c.idle_inhibit = Cardinality(c.keys) + Cardinality(P)
                              + c.repeats - c.strays
    BY DEF Good, Counted
  <2>2. d.button_count = Cardinality(B) BY <2>1, <1>3, <1>5
  <2>3. d.idle_inhibit = Cardinality(c.keys) + Cardinality(B)
                           + c.repeats - c.strays
    BY <2>1, <1>2, <1>3, <1>4, <1>5, <1>6, <1>7, <1>10
  <2> QED BY <2>2, <2>3, <1>9 DEF Counted
<1>12. PointerTrue(d, P) BY <1>3, PointerKept DEF Good
<1>13. DragsBoth(d) BY <1>3, GrabsKept DEF Good
<1>14. Rest(d, c.keys)
  <2>1. OnlyOf(c, d, Pointing) BY <1>3 DEF OnlyOf, Pointing
  <2> QED BY <2>1, RestKept DEF Good
<1>15. OnlyOf(c, d, Clicked) BY <1>3 DEF OnlyOf, Clicked
<1>16. /\ Shaped(e) /\ OnlyOf(c, e, Clicked) /\ PointerTrue(e, P)
       /\ DragsBoth(e) /\ Counted(e, B) /\ Rest(e, c.keys)
  <2>1. CASE press
    <3>1. B # {} BY <2>1
    <3>2. PointerHeld(d, B) BY <3>1 DEF PointerHeld
    <3>3. Good(d, P, B, d.keys) BY <3>2, <1>9, <1>11, <1>12, <1>13, <1>14 DEF Good
    <3> DEFINE r == RunButtonBinding(d, b)
    <3>4. Shaped(r) /\ OnlyOf(d, r, Clicked) /\ Good(r, P, B, d.keys)
      BY <1>8, <3>1, <3>3, RunButtonBindingFacts
    <3>5. e = r BY <2>1
    <3> HIDE DEF r, e
    <3>6. OnlyOf(c, e, Clicked) BY <3>4, <3>5, <1>15 DEF OnlyOf
    <3> QED BY <3>4, <3>5, <3>6, <1>9 DEF Good
  <2>2. CASE ~press
    <3>1. e = d BY <2>2
    <3> QED BY <3>1, <1>8, <1>11, <1>12, <1>13, <1>14, <1>15
  <2> QED BY <2>1, <2>2
<1> HIDE DEF e
<1>170. e.window = c.window BY <1>16 DEF OnlyOf, Fields, Clicked
<1>17. MayPick(e, w) BY <1>170, MayPickKept
<1>18. e.button_count = 0 => B = {} BY <1>6, <1>16, FS_EmptySet DEF Counted
<1>19. Shaped(t) /\ OnlyOf(e, t, Clicked) /\ Good(t, B, B, c.keys)
  BY <1>16, <1>17, <1>18, GrabButtonFacts
<1> HIDE DEF t
<1>20. OnlyOf(c, t, Clicked) BY <1>16, <1>19 DEF OnlyOf
<1> QED BY <1>1, <1>19, <1>20

\* What MouseButtonNotify has notified of up to the button n
IsRun(g, n, c, state, picked) ==
  g = [b \in 0 .. n |->
         IF b = 0 THEN c
         ELSE DeliverNotifyButton(g[b - 1], b, c.buttons, state, picked)]

\* The run through the buttons exists: a recursive function that is defined
\* up to m extends to m + 1.
LEMMA RunsExist ==
  ASSUME NEW c, NEW state, NEW picked, NEW n \in Nat
  PROVE  \E g : IsRun(g, n, c, state, picked)
<1> DEFINE T == {m \in Nat : \E g : IsRun(g, m, c, state, picked)}
           D(d, b) == DeliverNotifyButton(d, b, c.buttons, state, picked)
<1>1. 0 \in T
  <2> DEFINE g == [b \in 0 .. 0 |-> c]
  <2>1. IsRun(g, 0, c, state, picked) BY DEF IsRun
  <2> QED BY <2>1
<1>2. ASSUME NEW m \in T PROVE m + 1 \in T
  <2>0. m \in Nat OBVIOUS
  <2>1. PICK g : IsRun(g, m, c, state, picked) OBVIOUS
  <2> DEFINE h == [b \in 0 .. m + 1 |-> IF b = m + 1 THEN D(g[m], b) ELSE g[b]]
             k == [b \in 0 .. m + 1 |-> IF b = 0 THEN c ELSE D(h[b - 1], b)]
  <2> HIDE DEF D
  <2>2. \A b \in 0 .. m : g[b] = IF b = 0 THEN c ELSE D(g[b - 1], b)
    BY <2>1 DEF IsRun, D
  <2>3. \A b \in 0 .. m + 1 : h[b] = IF b = 0 THEN c ELSE D(h[b - 1], b)
    BY <2>0, <2>2
  <2>4. h = k BY <2>3
  <2>5. IsRun(h, m + 1, c, state, picked) BY <2>4 DEF IsRun, D
  <2> QED BY <2>0, <2>5
<1> HIDE DEF T
<1>3. T \in SUBSET Nat BY DEF T
<1>4. T = Nat BY <1>1, <1>2, <1>3, Induction
<1> QED BY <1>4 DEF T

\* weston_mouse_button_notify makes such a run and then stores the state.
LEMMA Notified ==
  ASSUME NEW c, NEW state, NEW picked
  PROVE  \E g : /\ IsRun(g, MaxButtons, c, state, picked)
                /\ MouseButtonNotify(c, state, picked) =
                     [g[MaxButtons] EXCEPT !.buttons = state]
<1> DEFINE run == CHOOSE g : IsRun(g, MaxButtons, c, state, picked)
<1>1. IsRun(run, MaxButtons, c, state, picked) BY RunsExist, SeatAssumption
<1>2. MouseButtonNotify(c, state, picked) = [run[MaxButtons] EXCEPT !.buttons = state]
  BY DEF MouseButtonNotify, IsRun
<1> QED BY <1>1, <1>2

\* The buttons held when those up to n were notified of.
HeldAt(n, old, new) == {x \in Buttons : x \in (IF x <= n THEN new ELSE old)}

\* Whatever the buttons, the whole message keeps the invariant.
LEMMA MouseButtonNotifyFacts ==
  ASSUME NEW c, Shaped(c), Good(c, c.buttons, c.buttons, c.keys),
         NEW state \in SUBSET Buttons, NEW w, MayPick(c, w)
  PROVE  /\ Shaped(MouseButtonNotify(c, state, w))
         /\ OnlyOf(c, MouseButtonNotify(c, state, w), Clicked \cup {"buttons"})
         /\ MouseButtonNotify(c, state, w).buttons = state
         /\ Good(MouseButtonNotify(c, state, w), state, state, c.keys)
<1> DEFINE t == MouseButtonNotify(c, state, w)
           H(n) == HeldAt(n, c.buttons, state)
           Told(d, n) == /\ Shaped(d) /\ OnlyOf(c, d, Clicked)
                         /\ Good(d, H(n), H(n), c.keys)
<1>1. PICK g : /\ IsRun(g, MaxButtons, c, state, w)
               /\ t = [g[MaxButtons] EXCEPT !.buttons = state]
  BY Notified
<1>2. c.buttons \in SUBSET Buttons BY TypesAre
<1>3. \A b \in 0 .. MaxButtons :
        g[b] = IF b = 0 THEN c
               ELSE DeliverNotifyButton(g[b - 1], b, c.buttons, state, w)
  BY <1>1 DEF IsRun
<1>4. MaxButtons \in Nat BY SeatAssumption
<1> DEFINE T == {n \in Nat : n <= MaxButtons => Told(g[n], n)}
<1>5. 0 \in T
  <2>1. H(0) = c.buttons BY <1>2 DEF HeldAt, Buttons
  <2>2. g[0] = c BY <1>3, <1>4
  <2> HIDE DEF H
  <2>3. Told(g[0], 0) BY <2>1, <2>2 DEF OnlyOf
  <2> QED BY <2>3
<1>6. ASSUME NEW m \in T, m + 1 <= MaxButtons PROVE Told(g[m + 1], m + 1)
  <2> DEFINE b == m + 1
             d == g[m]
             u == g[m + 1]
  <2>1. m \in Nat /\ m <= MaxButtons /\ b \in Buttons /\ b \in 0 .. MaxButtons
        /\ b - 1 = m /\ b # 0
    BY <1>4, <1>6 DEF Buttons
  <2>2. Told(d, m) BY <2>1
  <2>3. u = DeliverNotifyButton(d, b, c.buttons, state, w) BY <1>3, <2>1
  <2>4. H(m) \in SUBSET Buttons BY DEF HeldAt
  <2>5. d.window = c.window /\ d.keys = c.keys
    BY <2>2 DEF OnlyOf, Fields, Clicked
  <2>51. MayPick(d, w) BY <2>5, MayPickKept
  <2>6. b \in H(m) <=> b \in c.buttons BY <2>1 DEF HeldAt
  <2>7. CASE (b \in c.buttons) = (b \in state)
    <3>1. H(b) = H(m) BY <2>1, <2>7 DEF HeldAt, Buttons
    <3>2. u = d BY <2>3, <2>7 DEF DeliverNotifyButton
    <3> HIDE DEF H
    <3> QED BY <2>2, <3>1, <3>2
  <2>8. CASE (b \in c.buttons) # (b \in state)
    <3> DEFINE press == b \in state
    <3>1. H(b) = IF press THEN H(m) \cup {b} ELSE H(m) \ {b}
      BY <2>1 DEF HeldAt, Buttons
    <3>2. u = NotifyButton(d, b, press, w) BY <2>3, <2>8 DEF DeliverNotifyButton
    <3>3. press \in BOOLEAN /\ (press <=> b \notin H(m)) BY <2>6, <2>8
    <3> HIDE DEF H, press, b, d, u
    <3>4. /\ Shaped(u) /\ OnlyOf(d, u, Clicked) /\ Good(u, H(b), H(b), d.keys)
      BY <2>1, <2>2, <2>4, <2>5, <2>51, <3>1, <3>2, <3>3, NotifyButtonFacts
    <3>5. OnlyOf(c, u, Clicked) BY <2>2, <3>4 DEF OnlyOf
    <3> QED BY <2>5, <3>4, <3>5 DEF b, u
  <2> QED BY <2>7, <2>8
<1>7. \A m \in T : m + 1 \in T
  <2> HIDE DEF Told
  <2> TAKE m \in T
  <2>1. m + 1 \in Nat OBVIOUS
  <2> QED BY <2>1, <1>6
<1> HIDE DEF T
<1>8. T \in SUBSET Nat BY DEF T
<1>9. T = Nat BY <1>5, <1>7, <1>8, Induction
<1> HIDE DEF Told
<1>10. Told(g[MaxButtons], MaxButtons) BY <1>4, <1>9 DEF T
<1> DEFINE d == g[MaxButtons]
<1>11. H(MaxButtons) = state
  <2>1. \A x \in Buttons : x <= MaxButtons BY <1>4 DEF Buttons
  <2>2. HeldAt(MaxButtons, c.buttons, state) = {x \in Buttons : x \in state}
    BY <2>1 DEF HeldAt
  <2>3. {x \in Buttons : x \in state} = state OBVIOUS
  <2> QED BY <2>2, <2>3
<1>12. Shaped(d) /\ OnlyOf(c, d, Clicked) /\ Good(d, state, state, c.keys)
  BY <1>10, <1>11 DEF Told
<1> HIDE DEF d, t, H
<1>13. t = [d EXCEPT !.buttons = state] BY <1>1 DEF d
<1>14. Rec(t) /\ OnlyOf(d, t, {"buttons"}) /\ t.buttons = state
  BY <1>12, <1>13 DEF Shaped, Fields, OnlyOf, Rec
<1>15. Shaped(t)
  <2>1. t.buttons \in Types.buttons BY <1>14, TypeOf
  <2> QED BY <2>1, <1>12, <1>14, ShapedAfter
<1>16. OnlyOf(c, t, Clicked \cup {"buttons"}) BY <1>12, <1>14 DEF OnlyOf
<1>17. PointerTrue(t, state) BY <1>12, <1>14, PointerKept DEF Good
<1>18. PointerHeld(t, state) /\ DragsBoth(t) BY <1>12, <1>14, GrabsKept DEF Good
<1>19. Counted(t, state) BY <1>12, <1>14, CountedKept DEF Good
<1>20. Rest(t, c.keys)
  <2>1. OnlyOf(d, t, Pointing) BY <1>14 DEF OnlyOf, Pointing
  <2> QED BY <2>1, <1>12, RestKept DEF Good
<1> QED BY <1>14, <1>15, <1>16, <1>17, <1>18, <1>19, <1>20 DEF Good, t

-----------------------------------------------------------------------------
(* The keyboard.                                                           *)

\* A client that knew the keys K knows what they are after the event.
LEMMA SendKeyFacts ==
  ASSUME NEW c, Shaped(c), NEW k \in Keys, NEW press \in BOOLEAN,
         NEW K, KeyTrue(c, K), NEW L, L = IF press THEN K \cup {k} ELSE K \ {k}
  PROVE  /\ Shaped(SendKey(c, k, press)) /\ OnlyOf(c, SendKey(c, k, press), {"believes"})
         /\ KeyTrue(SendKey(c, k, press), L)
<1> DEFINE t == SendKey(c, k, press)
           p == IF press THEN c.believes \cup {k} ELSE c.believes \ {k}
<1>1. CASE c.entered = None
  BY <1>1 DEF SendKey, OnlyOf, KeyTrue
<1>2. CASE c.entered # None
  <2>1. t = [c EXCEPT !.believes = p] BY <1>2 DEF SendKey
  <2>2. p \in SUBSET Keys BY TypesAre
  <2> HIDE DEF t, p
  <2>3. Rec(t) /\ OnlyOf(c, t, {"believes"}) /\ t.believes = p
    BY <2>1 DEF Shaped, Fields, OnlyOf, Rec
  <2>4. Shaped(t)
    <3>1. t.believes \in Types.believes BY <2>2, <2>3, TypeOf
    <3> QED BY <3>1, <2>3, ShapedAfter
  <2>5. /\ t.entered = c.entered /\ t.kfocus = c.kfocus /\ t.stale = c.stale
    BY <2>3 DEF OnlyOf, Fields
  <2>6. c.believes = K => p = L BY DEF p
  <2>7. KeyTrue(t, L) BY <2>3, <2>5, <2>6 DEF KeyTrue
  <2> QED BY <2>3, <2>4, <2>7 DEF t
<1> QED BY <1>1, <1>2

\* A key that a grab keeps from the client leaves it unaware.
LEMMA SwallowFacts ==
  ASSUME NEW c, Shaped(c), NEW K, KeyTrue(c, K), NEW L
  PROVE  /\ Shaped(Swallow(c)) /\ OnlyOf(c, Swallow(c), {"stale"})
         /\ KeyTrue(Swallow(c), L)
<1> DEFINE t == Swallow(c)
           p == c.stale \/ c.entered # None
<1>1. t = [c EXCEPT !.stale = p] BY DEF Swallow
<1>2. p \in BOOLEAN BY TypesAre
<1> HIDE DEF t, p
<1>3. Rec(t) /\ OnlyOf(c, t, {"stale"}) /\ t.stale = p
  BY <1>1 DEF Shaped, Fields, OnlyOf, Rec
<1>4. Shaped(t)
  <2>1. t.stale \in Types.stale BY <1>2, <1>3, TypeOf
  <2> QED BY <2>1, <1>3, ShapedAfter
<1>5. t.entered = c.entered /\ t.kfocus = c.kfocus
  BY <1>3 DEF OnlyOf, Fields
<1>6. KeyTrue(t, L) BY <1>3, <1>5 DEF KeyTrue, p
<1> QED BY <1>3, <1>4, <1>6 DEF t

\* The switcher's choice is a window of the layer, if there is one.
LEMMA SwitcherNextFacts ==
  ASSUME NEW c, Shaped(c), Layered(c), Choice(c),
         c.kgrab # "switcher" => Owner(c)
  PROVE  /\ Shaped(SwitcherNext(c)) /\ OnlyOf(c, SwitcherNext(c), {"current"})
         /\ Layered(SwitcherNext(c)) /\ Choice(SwitcherNext(c))
         /\ Owner(SwitcherNext(c))
<1> DEFINE t == SwitcherNext(c)
           below == {i \in DOMAIN c.layer : i > 1 /\ c.layer[i - 1] = c.current}
           j == IF below = {} THEN 1 ELSE CHOOSE i \in below : TRUE
           w == c.layer[j]
<1>0. c.layer \in Seq(Windows) BY TypesAre
<1>1. CASE c.layer = <<>>
  <2>1. t = c BY <1>1 DEF SwitcherNext
  <2>2. Range(c.layer) = {} BY <1>0, <1>1, EmptyList
  <2>3. Owner(c) BY <2>2 DEF Owner, Layered
  <2> QED BY <2>1, <2>3 DEF OnlyOf
<1>2. CASE c.layer # <<>>
  <2>1. t = [c EXCEPT !.current = w] BY <1>2 DEF SwitcherNext
  <2>2. j \in DOMAIN c.layer
    <3>1. 1 \in DOMAIN c.layer BY <1>0, <1>2
    <3>2. below \subseteq DOMAIN c.layer OBVIOUS
    <3> HIDE DEF below
    <3> QED BY <3>1, <3>2
  <2> HIDE DEF j
  <2>3. w \in Range(c.layer) /\ w \in Windows BY <1>0, <2>2, EmptyList DEF Range
  <2> HIDE DEF t, w
  <2>4. Rec(t) /\ OnlyOf(c, t, {"current"}) /\ t.current = w
    BY <2>1 DEF Shaped, Fields, OnlyOf, Rec
  <2>5. Shaped(t)
    <3>1. t.current \in Types.current BY <2>3, <2>4, TypeOf DEF Owners
    <3> QED BY <3>1, <2>4, ShapedAfter
  <2>6. Layered(t) BY <2>4, LayeredKept
  <2>7. /\ t.window = c.window /\ t.kgrab = c.kgrab /\ t.letGo = c.letGo
        /\ t.kfocus = c.kfocus
    BY <2>4 DEF OnlyOf, Fields
  <2>8. Choice(t) BY <2>3, <2>4, <2>7 DEF Choice, Layered
  <2>9. Owner(t)
    <3>1. CASE c.kgrab = "switcher" BY <3>1, <2>3, <2>4, <2>7 DEF Owner, Ownerless
    <3>2. CASE c.kgrab # "switcher" BY <3>2, <2>7 DEF Owner, Ownerless
    <3> QED BY <3>1, <3>2
  <2> QED BY <2>4, <2>5, <2>6, <2>8, <2>9 DEF t
<1> QED BY <1>1, <1>2

\* The switcher takes the keyboard from the focused window.
LEMMA SwitcherBindingFacts ==
  ASSUME NEW c, Shaped(c), NEW K, KeyTrue(c, K), Layered(c)
  PROVE  /\ Shaped(SwitcherBinding(c))
         /\ OnlyOf(c, SwitcherBinding(c), {"kfocus", "entered", "believes",
                                           "stale", "kgrab", "current"})
         /\ SwitcherBinding(c).kgrab = "switcher"
         /\ KeyTrue(SwitcherBinding(c), K) /\ Focus(SwitcherBinding(c))
         /\ Owner(SwitcherBinding(c)) /\ Layered(SwitcherBinding(c))
         /\ Choice(SwitcherBinding(c))
<1> DEFINE d == SetKeyboardFocus(c, None)
           e == [d EXCEPT !.kgrab = "switcher", !.current = None]
           t == SwitcherBinding(c)
<1>1. /\ Shaped(d) /\ OnlyOf(c, d, {"kfocus", "entered", "believes", "stale"})
      /\ d.kfocus = None /\ d.entered = None
  BY SetKeyboardFocusFacts DEF Owners
<1>2. t = SwitcherNext(e) BY DEF SwitcherBinding
<1> HIDE DEF d, t
<1>3. /\ Rec(e) /\ OnlyOf(d, e, {"kgrab", "current"})
      /\ e.kgrab = "switcher" /\ e.current = None
  BY <1>1 DEF Shaped, Fields, OnlyOf, Rec
<1> HIDE DEF e
<1>4. Shaped(e)
  <2>1. e.kgrab \in Types.kgrab /\ e.current \in Types.current
    BY <1>3, TypeOf DEF Owners
  <2> QED BY <2>1, <1>1, <1>3, ShapedAfter
<1>5. OnlyOf(c, e, {"kfocus", "entered", "believes", "stale", "kgrab", "current"})
  BY <1>1, <1>3, OnlyTrans
<1>6. Layered(e) BY <1>5, LayeredKept
<1>7. Choice(e) BY <1>3, SeatAssumption DEF Choice
<1>8. /\ Shaped(t) /\ OnlyOf(e, t, {"current"}) /\ Layered(t) /\ Choice(t) /\ Owner(t)
  BY <1>2, <1>3, <1>4, <1>6, <1>7, SwitcherNextFacts
<1>9. t.kgrab = "switcher" /\ t.kfocus = None /\ t.entered = None
  BY <1>1, <1>3, <1>8 DEF OnlyOf, Fields
<1>10. KeyTrue(t, K) /\ Focus(t) BY <1>9 DEF KeyTrue, Focus
<1>11. OnlyOf(c, t, {"kfocus", "entered", "believes", "stale", "kgrab", "current"})
  BY <1>5, <1>8 DEF OnlyOf
<1> QED BY <1>8, <1>9, <1>10, <1>11 DEF t

\* The end of the switcher activates its choice.
LEMMA SwitcherDestroyFacts ==
  ASSUME NEW c, Shaped(c), KeyTrue(c, c.keys), c.kgrab = "switcher",
         Focus(c), Owner(c), Layered(c), Choice(c)
  PROVE  /\ Shaped(SwitcherDestroy(c))
         /\ OnlyOf(c, SwitcherDestroy(c),
                   {"kfocus", "entered", "believes", "stale", "keyboard_focus",
                    "letGo", "layer", "assertFailed", "kgrab", "current"})
         /\ SwitcherDestroy(c).kgrab = "default"
         /\ KeyTrue(SwitcherDestroy(c), c.keys) /\ Focus(SwitcherDestroy(c))
         /\ Owner(SwitcherDestroy(c)) /\ Layered(SwitcherDestroy(c))
         /\ Choice(SwitcherDestroy(c))
<1> DEFINE d == IF c.current # None THEN Activate(c, c.current) ELSE c
           t == SwitcherDestroy(c)
           fs == {"kfocus", "entered", "believes", "stale", "keyboard_focus",
                  "letGo", "layer", "assertFailed"}
<1>1. t = [d EXCEPT !.kgrab = "default", !.current = None]
  BY DEF SwitcherDestroy
<1>2. /\ Shaped(d) /\ OnlyOf(c, d, fs)
      /\ KeyTrue(d, c.keys) /\ Focus(d) /\ Layered(d)
      /\ d.kfocus = None /\ ~d.letGo => \A w \in Windows : d.window[w] # "mapped"
  <2>1. CASE c.current \in Windows
    <3> DEFINE w == c.current
               u == Activate(c, w)
    <3>1. c.window[w] # "none" /\ w # None BY <2>1, SeatAssumption DEF Choice
    <3>2. d = u BY <3>1
    <3>3. LayeredBut(c, w) BY LayeredButs
    <3> HIDE DEF w
    <3>4. /\ Shaped(u)
          /\ OnlyOf(c, u, {"kfocus", "entered", "believes", "stale",
                           "keyboard_focus", "letGo", "layer"})
          /\ u.kfocus = w /\ KeyTrue(u, c.keys) /\ Focus(u) /\ Layered(u)
      BY <2>1, <3>1, <3>3, ActivateRest DEF w
    <3> HIDE DEF u
    <3>5. OnlyOf(c, u, fs) BY <3>4 DEF OnlyOf
    <3> QED BY <3>1, <3>2, <3>4, <3>5
  <2>2. CASE c.current \notin Windows
    <3>1. c.kfocus = None /\ ~c.letGo => \A w \in Windows : c.window[w] # "mapped"
      BY <2>2 DEF Owner, Ownerless
    <3>2. CASE c.current = None
      <4>1. d = c BY <3>2
      <4> QED BY <4>1, <3>1 DEF OnlyOf
    <3>3. CASE c.current # None
      <4>1. d = [c EXCEPT !.assertFailed = TRUE] BY <2>2, <3>3 DEF Activate
      <4> HIDE DEF d
      <4>2. /\ Rec(d) /\ OnlyOf(c, d, {"assertFailed"})
            /\ d.assertFailed = TRUE
        BY <4>1 DEF Shaped, Fields, OnlyOf, Rec
      <4>3. Shaped(d)
        <5>1. d.assertFailed \in Types.assertFailed BY <4>2, TypeOf
        <5> QED BY <5>1, <4>2, ShapedAfter
      <4>4. d.kfocus = c.kfocus /\ d.letGo = c.letGo /\ d.window = c.window
        BY <4>2 DEF OnlyOf, Fields
      <4>5. KeyTrue(d, c.keys) BY <4>2, KeyKept
      <4>6. Focus(d) /\ Layered(d) BY <4>2, FocusKeptBy, LayeredKept
      <4>7. OnlyOf(c, d, fs) BY <4>2 DEF OnlyOf
      <4> QED BY <3>1, <4>3, <4>4, <4>5, <4>6, <4>7
    <3> QED BY <3>2, <3>3
  <2> QED BY <2>1, <2>2
<1> HIDE DEF d, t
<1>3. /\ Rec(t) /\ OnlyOf(d, t, {"kgrab", "current"})
      /\ t.kgrab = "default" /\ t.current = None
  BY <1>1, <1>2 DEF Shaped, Fields, OnlyOf, Rec
<1>4. Shaped(t)
  <2>1. t.kgrab \in Types.kgrab /\ t.current \in Types.current
    BY <1>3, TypeOf DEF Owners
  <2> QED BY <2>1, <1>2, <1>3, ShapedAfter
<1>5. KeyTrue(t, c.keys) BY <1>2, <1>3, KeyKept
<1>6. Focus(t) /\ Layered(t) BY <1>2, <1>3, FocusKeptBy, LayeredKept
<1>7. t.kfocus = d.kfocus /\ t.letGo = d.letGo /\ t.window = d.window
  BY <1>3 DEF OnlyOf, Fields
<1>8. Owner(t) BY <1>2, <1>7 DEF Owner, Ownerless
<1>9. Choice(t) BY <1>3, SeatAssumption DEF Choice
<1>10. OnlyOf(c, t, {"kfocus", "entered", "believes", "stale", "keyboard_focus",
                     "letGo", "layer", "assertFailed", "kgrab", "current"})
  BY <1>2, <1>3 DEF OnlyOf
<1> QED BY <1>3, <1>4, <1>5, <1>6, <1>8, <1>9, <1>10 DEF t

\* A binding's grab has its key, and the focused client is entered with it.
LEMMA InstallBindingGrabFacts ==
  ASSUME NEW c, Shaped(c), NEW K, KeyTrue(c, K), NEW k \in Keys
  PROVE  /\ Shaped(InstallBindingGrab(c, k))
         /\ OnlyOf(c, InstallBindingGrab(c, k),
                   {"kfocus", "entered", "believes", "stale", "kgrab", "key"})
         /\ InstallBindingGrab(c, k).kfocus = c.kfocus
         /\ InstallBindingGrab(c, k).kgrab = "binding"
         /\ InstallBindingGrab(c, k).key = k
         /\ KeyTrue(InstallBindingGrab(c, k), c.keys)
<1> DEFINE d == [c EXCEPT !.kgrab = "binding", !.key = k]
           e == SetKeyboardFocus(d, None)
           t == SetKeyboardFocus(e, c.kfocus)
           fs == {"kfocus", "entered", "believes", "stale"}
<1>1. InstallBindingGrab(c, k) = t BY DEF InstallBindingGrab
<1>2. /\ Rec(d) /\ OnlyOf(c, d, {"kgrab", "key"})
      /\ d.kgrab = "binding" /\ d.key = k
  BY DEF Shaped, Fields, OnlyOf, Rec
<1> HIDE DEF d
<1>3. Shaped(d)
  <2>1. d.kgrab \in Types.kgrab /\ d.key \in Types.key BY <1>2, TypeOf
  <2> QED BY <2>1, <1>2, ShapedAfter
<1>4. KeyTrue(d, K) BY <1>2, KeyKept
<1>5. /\ Shaped(e) /\ OnlyOf(d, e, fs) /\ e.kfocus = None /\ e.entered = None
  BY <1>3, <1>4, SetKeyboardFocusFacts DEF Owners
<1> HIDE DEF e
<1>6. KeyTrue(e, e.keys) BY <1>5 DEF KeyTrue
<1>7. c.kfocus \in Owners BY TypesAre
<1>8. /\ Shaped(t) /\ OnlyOf(e, t, fs) /\ t.kfocus = c.kfocus
      /\ KeyTrue(t, e.keys)
  BY <1>5, <1>6, <1>7, SetKeyboardFocusFacts
<1> HIDE DEF t
<1>9. e.keys = c.keys /\ t.kgrab = "binding" /\ t.key = k
  BY <1>2, <1>5, <1>8 DEF OnlyOf, Fields
<1>10. OnlyOf(c, t, {"kfocus", "entered", "believes", "stale", "kgrab", "key"})
  BY <1>2, <1>5, <1>8 DEF OnlyOf
<1> QED BY <1>1, <1>8, <1>9, <1>10

\* What concerns the keyboard in a record whose client knows the keys K.
Windowed(c) == Switching(c) /\ Focus(c) /\ Owner(c) /\ Layered(c) /\ Choice(c)

\* A press under the default grab: only a binding's grab lets the client know
\* of the key already.
LEMMA RunKeyBindingFacts ==
  ASSUME NEW c, Shaped(c), NEW K, KeyTrue(c, K), NEW k \in Keys,
         c.kgrab = "default", Windowed(c)
  PROVE  /\ Shaped(RunKeyBinding(c, k))
         /\ OnlyOf(c, RunKeyBinding(c, k),
                   {"kfocus", "entered", "believes", "stale", "kgrab", "key",
                    "current"})
         /\ RunKeyBinding(c, k).kgrab # "drag"
         /\ IF RunKeyBinding(c, k).kgrab = "binding"
            THEN KeyTrue(RunKeyBinding(c, k), c.keys) /\ RunKeyBinding(c, k).key = k
            ELSE KeyTrue(RunKeyBinding(c, k), K)
         /\ Windowed(RunKeyBinding(c, k))
<1> DEFINE t == RunKeyBinding(c, k)
           fs == {"kfocus", "entered", "believes", "stale", "kgrab", "key",
                  "current"}
<1>1. CASE c.super /\ k = "Tab"
  <2> DEFINE u == SwitcherBinding(c)
  <2>1. t = u BY <1>1 DEF RunKeyBinding
  <2>2. /\ Shaped(u)
        /\ OnlyOf(c, u, {"kfocus", "entered", "believes", "stale", "kgrab", "current"})
        /\ u.kgrab = "switcher" /\ KeyTrue(u, K) /\ Focus(u)
        /\ Owner(u) /\ Layered(u) /\ Choice(u)
    BY SwitcherBindingFacts DEF Windowed
  <2> HIDE DEF t, u
  <2>3. OnlyOf(c, u, fs) BY <2>2 DEF OnlyOf
  <2>4. u.super = c.super BY <2>2 DEF OnlyOf, Fields
  <2>5. Switching(u) BY <1>1, <2>4 DEF Switching
  <2> QED BY <2>1, <2>2, <2>3, <2>5 DEF t, Windowed
<1>2. CASE c.super /\ k = "F9"
  <2> DEFINE u == InstallBindingGrab(c, k)
  <2>1. t = u BY <1>2 DEF RunKeyBinding
  <2>2. /\ Shaped(u)
        /\ OnlyOf(c, u, {"kfocus", "entered", "believes", "stale", "kgrab", "key"})
        /\ u.kfocus = c.kfocus /\ u.kgrab = "binding" /\ u.key = k
        /\ KeyTrue(u, c.keys)
    BY InstallBindingGrabFacts
  <2> HIDE DEF t, u
  <2>3. OnlyOf(c, u, fs) BY <2>2 DEF OnlyOf
  <2>4. /\ u.letGo = c.letGo /\ u.window = c.window
        /\ u.keyboard_focus = c.keyboard_focus
    BY <2>2 DEF OnlyOf, Fields
  <2>5. Switching(u) BY <2>2 DEF Switching
  <2>6. Focus(u) BY <2>2, <2>4 DEF Focus, Windowed
  <2>7. Owner(u)
    <3>1. Ownerless(u) => Ownerless(c) BY <2>2, <2>4 DEF Ownerless
    <3> QED BY <2>4, <3>1 DEF Owner, Windowed
  <2>8. Layered(u) /\ Choice(u) BY <2>2, LayeredKept, ChoiceKept DEF Windowed
  <2> QED BY <2>1, <2>2, <2>3, <2>5, <2>6, <2>7, <2>8 DEF t, Windowed
<1>3. CASE ~(c.super /\ k \in {"Tab", "F9"})
  <2>1. t = c BY <1>3 DEF RunKeyBinding
  <2> QED BY <2>1 DEF OnlyOf
<1> QED BY <1>1, <1>2, <1>3

\* The grabs' handlers: the client knew the keys K, or L already when a
\* binding has just taken the key.
LEMMA GrabKeyFacts ==
  ASSUME NEW c, Shaped(c), NEW K, NEW k \in Keys, NEW press \in BOOLEAN,
         NEW L, L = IF press THEN K \cup {k} ELSE K \ {k},
         NEW took, took = (press /\ c.kgrab = "binding" /\ c.key = k),
         took => KeyTrue(c, L), ~took => KeyTrue(c, K) /\ Binding(c, K),
         Windowed(c)
  PROVE  /\ Shaped(GrabKey(c, k, press))
         /\ OnlyOf(c, GrabKey(c, k, press),
                   {"believes", "kgrab", "key", "current", "stale"})
         /\ GrabKey(c, k, press).kgrab = "drag" <=> c.kgrab = "drag"
         /\ KeyTrue(GrabKey(c, k, press), L) /\ Binding(GrabKey(c, k, press), L)
         /\ Windowed(GrabKey(c, k, press))
<1> DEFINE t == GrabKey(c, k, press)
           fs == {"believes", "kgrab", "key", "current", "stale"}
<1>0. c.kgrab \in {"default", "binding", "switcher", "drag"} BY TypesAre
\* A step that changes nothing of the windows
<1>01. ASSUME NEW d, NEW u, OnlyOf(d, u, {"believes", "stale"}), Windowed(d)
       PROVE  Windowed(u)
  <2>1. Switching(u) BY <1>01, HeldKept DEF Windowed
  <2>2. Focus(u) /\ Owner(u) BY <1>01, FocusKeptBy, OwnerKept DEF Windowed
  <2>3. Layered(u) /\ Choice(u) BY <1>01, LayeredKept, ChoiceKept DEF Windowed
  <2> QED BY <2>1, <2>2, <2>3 DEF Windowed
<1>1. CASE c.kgrab = "default" \/ (c.kgrab = "binding" /\ k # c.key)
  <2> DEFINE u == SendKey(c, k, press)
  <2>1. t = u BY <1>1 DEF GrabKey
  <2>2. ~took /\ KeyTrue(c, K) BY <1>1
  <2>3. Shaped(u) /\ OnlyOf(c, u, {"believes"}) /\ KeyTrue(u, L)
    BY <2>2, SendKeyFacts
  <2> HIDE DEF t, u
  <2>4. OnlyOf(c, u, {"believes", "stale"}) /\ OnlyOf(c, u, fs)
    BY <2>3 DEF OnlyOf
  <2>5. Windowed(u) BY <2>4, <1>01
  <2>6. u.kgrab = c.kgrab /\ u.key = c.key BY <2>3 DEF OnlyOf, Fields
  <2>7. Binding(u, L) BY <1>1, <2>2, <2>6 DEF Binding
  <2> QED BY <2>1, <2>3, <2>4, <2>5, <2>6, <2>7 DEF t
<1>2. CASE c.kgrab = "binding" /\ k = c.key /\ ~press
  <2> DEFINE d == [c EXCEPT !.kgrab = "default", !.key = "none"]
             u == SendKey(d, k, press)
  <2>1. t = u BY <1>2 DEF GrabKey
  <2>2. /\ Rec(d) /\ OnlyOf(c, d, {"kgrab", "key"})
        /\ d.kgrab = "default" /\ d.key = "none"
    BY DEF Shaped, Fields, OnlyOf, Rec
  <2> HIDE DEF d
  <2>3. Shaped(d)
    <3>1. d.kgrab \in Types.kgrab /\ d.key \in Types.key BY <2>2, TypeOf
    <3> QED BY <3>1, <2>2, ShapedAfter
  <2>4. KeyTrue(d, K) BY <1>2, <2>2, KeyKept
  <2>5. Shaped(u) /\ OnlyOf(d, u, {"believes"}) /\ KeyTrue(u, L)
    BY <2>3, <2>4, SendKeyFacts
  <2>6. Windowed(d)
    <3>1. Switching(d) BY <2>2 DEF Switching
    <3>2. Focus(d) /\ Layered(d) /\ Choice(d)
      BY <2>2, FocusKeptBy, LayeredKept, ChoiceKept DEF Windowed
    <3>3. d.kfocus = c.kfocus /\ d.letGo = c.letGo /\ d.window = c.window
      BY <2>2 DEF OnlyOf, Fields
    <3>4. Ownerless(d) => Ownerless(c) BY <1>2, <3>3 DEF Ownerless
    <3>5. Owner(d) BY <3>3, <3>4 DEF Owner, Windowed
    <3> QED BY <3>1, <3>2, <3>5 DEF Windowed
  <2> HIDE DEF t, u
  <2>7. OnlyOf(d, u, {"believes", "stale"}) /\ OnlyOf(c, u, fs)
    BY <2>2, <2>5 DEF OnlyOf
  <2>8. Windowed(u) BY <2>6, <2>7, <1>01
  <2>9. u.kgrab = "default" BY <2>2, <2>5 DEF OnlyOf, Fields
  <2>10. Binding(u, L) BY <2>9 DEF Binding
  <2> QED BY <1>2, <2>1, <2>5, <2>7, <2>8, <2>9, <2>10 DEF t
<1>3. CASE c.kgrab = "binding" /\ k = c.key /\ press
  <2>1. t = c BY <1>3 DEF GrabKey
  <2>2. KeyTrue(c, L) BY <1>3
  <2>3. Binding(c, L) BY <1>3 DEF Binding
  <2> QED BY <2>1, <2>2, <2>3 DEF OnlyOf
<1>4. CASE c.kgrab = "switcher" /\ k = "Tab" /\ press
  <2> DEFINE d == SwitcherNext(c)
             u == Swallow(d)
  <2>1. t = u BY <1>4 DEF GrabKey
  <2>2. /\ Shaped(d) /\ OnlyOf(c, d, {"current"})
        /\ Layered(d) /\ Choice(d) /\ Owner(d)
    BY SwitcherNextFacts DEF Windowed
  <2> HIDE DEF d
  <2>3. ~took /\ KeyTrue(d, K) BY <1>4, <2>2, KeyKept
  <2>4. Shaped(u) /\ OnlyOf(d, u, {"stale"}) /\ KeyTrue(u, L)
    BY <2>2, <2>3, SwallowFacts
  <2> HIDE DEF t, u
  <2>5. Windowed(d)
    <3>1. Switching(d) /\ Focus(d) BY <2>2, HeldKept, FocusKeptBy DEF Windowed
    <3> QED BY <2>2, <3>1 DEF Windowed
  <2>6. OnlyOf(d, u, {"believes", "stale"}) /\ OnlyOf(c, u, fs)
    BY <2>2, <2>4 DEF OnlyOf
  <2>7. Windowed(u) BY <2>5, <2>6, <1>01
  <2>8. u.kgrab = "switcher" BY <1>4, <2>2, <2>4 DEF OnlyOf, Fields
  <2>9. Binding(u, L) BY <2>8 DEF Binding
  <2> QED BY <1>4, <2>1, <2>4, <2>6, <2>7, <2>8, <2>9 DEF t
<1>5. CASE c.kgrab = "drag" \/ (c.kgrab = "switcher" /\ ~(k = "Tab" /\ press))
  <2> DEFINE u == Swallow(c)
  <2>1. t = u BY <1>5 DEF GrabKey
  <2>2. ~took /\ KeyTrue(c, K) BY <1>5
  <2>3. Shaped(u) /\ OnlyOf(c, u, {"stale"}) /\ KeyTrue(u, L)
    BY <2>2, SwallowFacts
  <2> HIDE DEF t, u
  <2>4. OnlyOf(c, u, {"believes", "stale"}) /\ OnlyOf(c, u, fs)
    BY <2>3 DEF OnlyOf
  <2>5. Windowed(u) BY <2>4, <1>01
  <2>6. u.kgrab = c.kgrab BY <2>3 DEF OnlyOf, Fields
  <2>7. Binding(u, L) BY <1>5, <2>6 DEF Binding
  <2> QED BY <2>1, <2>3, <2>4, <2>5, <2>6, <2>7 DEF t
<1> QED BY <1>0, <1>1, <1>2, <1>3, <1>4, <1>5

\* The switcher ends with the modifier.
LEMMA UpdateModifierStateFacts ==
  ASSUME NEW c, Shaped(c), KeyTrue(c, c.keys), Binding(c, c.keys), Windowed(c)
  PROVE  /\ Shaped(UpdateModifierState(c))
         /\ OnlyOf(c, UpdateModifierState(c),
                   {"super", "kfocus", "entered", "believes", "stale",
                    "keyboard_focus", "letGo", "layer", "assertFailed", "kgrab",
                    "current"})
         /\ UpdateModifierState(c).kgrab = "drag" <=> c.kgrab = "drag"
         /\ Rest(UpdateModifierState(c), c.keys)
<1> DEFINE p == "Super" \in c.keys
           d == [c EXCEPT !.super = p]
           t == UpdateModifierState(c)
           fs == {"super", "kfocus", "entered", "believes", "stale",
                  "keyboard_focus", "letGo", "layer", "assertFailed", "kgrab",
                  "current"}
<1>1. t = IF d.super # c.super /\ d.kgrab = "switcher" /\ ~d.super
          THEN SwitcherDestroy(d) ELSE d
  BY DEF UpdateModifierState
<1>2. p \in BOOLEAN OBVIOUS
<1> HIDE DEF p, t
<1>3. Rec(d) /\ OnlyOf(c, d, {"super"}) /\ d.super = p
  BY DEF Shaped, Fields, OnlyOf, Rec
<1> HIDE DEF d
<1>4. Shaped(d)
  <2>1. d.super \in Types.super BY <1>2, <1>3, TypeOf
  <2> QED BY <2>1, <1>3, ShapedAfter
<1>5. /\ d.kgrab = c.kgrab /\ d.key = c.key /\ d.keys = c.keys
  BY <1>3 DEF OnlyOf, Fields
<1>6. KeyTrue(d, c.keys) BY <1>3, KeyKept
<1>7. Focus(d) /\ Owner(d) BY <1>3, FocusKeptBy, OwnerKept DEF Windowed
<1>8. Layered(d) /\ Choice(d) BY <1>3, LayeredKept, ChoiceKept DEF Windowed
<1>9. CASE d.super # c.super /\ d.kgrab = "switcher" /\ ~d.super
  <2> DEFINE u == SwitcherDestroy(d)
  <2>1. t = u BY <1>1, <1>9
  <2>2. /\ Shaped(u)
        /\ OnlyOf(d, u, {"kfocus", "entered", "believes", "stale", "keyboard_focus",
                         "letGo", "layer", "assertFailed", "kgrab", "current"})
        /\ u.kgrab = "default" /\ KeyTrue(u, d.keys) /\ Focus(u)
        /\ Owner(u) /\ Layered(u) /\ Choice(u)
    BY <1>4, <1>5, <1>6, <1>7, <1>8, <1>9, SwitcherDestroyFacts
  <2> HIDE DEF u
  <2>3. Switching(u) /\ Binding(u, c.keys) BY <2>2 DEF Switching, Binding
  <2>4. OnlyOf(c, u, fs) BY <1>3, <2>2 DEF OnlyOf
  <2>5. Rest(u, c.keys) BY <1>5, <2>2, <2>3 DEF Rest
  <2> QED BY <1>5, <1>9, <2>1, <2>2, <2>4, <2>5 DEF t
<1>10. CASE ~(d.super # c.super /\ d.kgrab = "switcher" /\ ~d.super)
  <2>1. t = d BY <1>1, <1>10
  <2>2. Switching(d)
    <3>1. c.kgrab = "switcher" => c.super = TRUE
      BY TypesAre DEF Windowed, Switching
    <3>2. d.super = TRUE \/ d.super = FALSE BY <1>2, <1>3
    <3> QED BY <1>5, <1>10, <3>1, <3>2 DEF Switching
  <2>3. Binding(d, c.keys) BY <1>5 DEF Binding
  <2>4. OnlyOf(c, d, fs) BY <1>3 DEF OnlyOf
  <2>5. Rest(d, c.keys) BY <1>6, <1>7, <1>8, <2>2, <2>3 DEF Rest
  <2> QED BY <1>4, <1>5, <2>1, <2>4, <2>5 DEF t
<1> QED BY <1>9, <1>10

\* What a key may change.
Typed == {"keys", "super", "kgrab", "key", "kfocus", "entered", "believes", "stale",
          "idle_inhibit", "strays", "repeats", "keyboard_focus", "letGo",
          "layer", "current", "assertFailed"}

\* A key, from the bindings and the grab to the modifiers.
LEMMA NotifyKeyFacts ==
  ASSUME NEW c, Shaped(c), NEW k \in Keys, NEW press \in BOOLEAN,
         NEW P, NEW B, Good(c, P, B, c.keys), Cardinality(B) \in Int
  PROVE  /\ Shaped(NotifyKey(c, k, press)) /\ OnlyOf(c, NotifyKey(c, k, press), Typed)
         /\ Good(NotifyKey(c, k, press), P, B, NotifyKey(c, k, press).keys)
         /\ NotifyKey(c, k, press).repeats
              = IF press /\ k \in c.keys THEN c.repeats + 1 ELSE c.repeats
         /\ NotifyKey(c, k, press).strays
              = IF press \/ k \in c.keys THEN c.strays ELSE c.strays + 1
<1> DEFINE i == IF press THEN c.idle_inhibit + 1 ELSE c.idle_inhibit - 1
           n == [c EXCEPT !.idle_inhibit = i]
           m == IF press \/ k \in c.keys THEN c.strays ELSE c.strays + 1
           L == IF press THEN c.keys \cup {k} ELSE c.keys \ {k}
           d == [n EXCEPT !.strays = m, !.keys = L]
           r == [n EXCEPT !.repeats = c.repeats + 1]
           e == IF press /\ d.kgrab = "default" THEN RunKeyBinding(d, k) ELSE d
           f == GrabKey(e, k, press)
           t == NotifyKey(c, k, press)
<1>1. t = IF press /\ k \in c.keys THEN r ELSE UpdateModifierState(f)
  <2>1. /\ n.strays = c.strays /\ n.keys = c.keys /\ n.repeats = c.repeats
    BY DEF Shaped, Fields, Rec
  <2>2. /\ d = [n EXCEPT !.strays = IF press \/ k \in c.keys THEN @ ELSE @ + 1,
                         !.keys = IF press THEN @ \cup {k} ELSE @ \ {k}]
        /\ r = [n EXCEPT !.repeats = @ + 1]
    BY <2>1
  <2>3. n = [c EXCEPT !.idle_inhibit = IF press THEN @ + 1 ELSE @ - 1] OBVIOUS
  <2> HIDE DEF n, d, r
  <2> QED BY <2>2, <2>3 DEF NotifyKey
<1>2. /\ c.idle_inhibit \in Int /\ c.repeats \in Int /\ c.strays \in Int
      /\ c.keys \in SUBSET Keys
  BY TypesAre
<1>3. IsFiniteSet(c.keys) /\ Cardinality(c.keys) \in Nat BY KeysFinite
<1>4. /\ c.button_count = Cardinality(B)
      /\ c.idle_inhibit = Cardinality(c.keys) + Cardinality(B) + c.repeats - c.strays
  BY DEF Good, Counted
<1>5. i \in Int /\ m \in Int /\ L \in SUBSET Keys BY <1>2
<1>6. CASE press /\ k \in c.keys
  <2>0. i = c.idle_inhibit + 1 BY <1>6
  <2> HIDE DEF i, t
  <2>1. /\ Rec(r) /\ OnlyOf(c, r, {"idle_inhibit", "repeats"})
        /\ r.idle_inhibit = i /\ r.repeats = c.repeats + 1
    BY DEF Shaped, Fields, OnlyOf, Rec
  <2>2. t = r BY <1>1, <1>6
  <2> HIDE DEF r
  <2>3. Shaped(r)
    <3>1. r.idle_inhibit \in Types.idle_inhibit /\ r.repeats \in Types.repeats
      BY <1>2, <1>5, <2>1, TypeOf
    <3> QED BY <3>1, <2>1, ShapedAfter
  <2>4. /\ r.keys = c.keys /\ r.button_count = c.button_count /\ r.strays = c.strays
    BY <2>1 DEF OnlyOf, Fields
  <2>5. Counted(r, B) BY <1>2, <1>3, <1>4, <2>0, <2>1, <2>4 DEF Counted
  <2>6. PointerTrue(r, P) BY <2>1, PointerKept DEF Good
  <2>7. PointerHeld(r, B) /\ DragsBoth(r) BY <2>1, GrabsKept DEF Good
  <2>8. Rest(r, c.keys)
    <3>1. KeyTrue(r, c.keys) BY <2>1, KeyKept DEF Good, Rest
    <3>2. Switching(r) /\ Binding(r, c.keys) BY <2>1, HeldKept DEF Good, Rest
    <3>3. Focus(r) /\ Owner(r) BY <2>1, FocusKeptBy, OwnerKept DEF Good, Rest
    <3>4. Layered(r) /\ Choice(r) BY <2>1, LayeredKept, ChoiceKept DEF Good, Rest
    <3> QED BY <3>1, <3>2, <3>3, <3>4 DEF Rest
  <2>9. OnlyOf(c, r, Typed) BY <2>1 DEF OnlyOf, Typed
  <2> QED BY <1>6, <2>1, <2>2, <2>3, <2>4, <2>5, <2>6, <2>7, <2>8, <2>9 DEF Good, t
<1>7. CASE ~(press /\ k \in c.keys)
  <2>1. /\ Rec(d) /\ OnlyOf(c, d, {"idle_inhibit", "strays", "keys"})
        /\ d.idle_inhibit = i /\ d.strays = m /\ d.keys = L
    <3> HIDE DEF i, m, L
    <3>1. Rec(n) /\ OnlyOf(c, n, {"idle_inhibit"}) /\ n.idle_inhibit = i
      BY DEF Shaped, Fields, OnlyOf, Rec
    <3> HIDE DEF n
    <3>2. /\ Rec(d) /\ OnlyOf(n, d, {"strays", "keys"})
          /\ d.strays = m /\ d.keys = L
      BY <3>1 DEF Fields, OnlyOf, Rec
    <3> HIDE DEF d
    <3>3. d.idle_inhibit = i BY <3>1, <3>2 DEF OnlyOf, Fields
    <3> QED BY <3>1, <3>2, <3>3 DEF OnlyOf
  <2> HIDE DEF d, t
  <2>2. Shaped(d)
    <3>1. /\ d.idle_inhibit \in Types.idle_inhibit /\ d.strays \in Types.strays
          /\ d.keys \in Types.keys
      BY <1>5, <2>1, TypeOf
    <3> QED BY <3>1, <2>1, ShapedAfter
  <2>3. /\ d.button_count = c.button_count /\ d.repeats = c.repeats
        /\ d.kgrab = c.kgrab /\ d.key = c.key
    BY <2>1 DEF OnlyOf, Fields
  <2>4. Counted(d, B)
    <3>1. CASE press
      <4>1. Cardinality(L) = Cardinality(c.keys) + 1 BY <1>3, <1>7, <3>1, FS_AddElement
      <4>2. i = c.idle_inhibit + 1 /\ m = c.strays BY <3>1
      <4> HIDE DEF L, i, m
      <4> QED BY <4>1, <4>2, <1>2, <1>3, <1>4, <2>1, <2>3 DEF Counted
    <3>2. CASE ~press /\ k \in c.keys
      <4>1. Cardinality(L) = Cardinality(c.keys) - 1 BY <1>3, <3>2, FS_RemoveElement
      <4>2. i = c.idle_inhibit - 1 /\ m = c.strays BY <3>2
      <4> HIDE DEF L, i, m
      <4> QED BY <4>1, <4>2, <1>2, <1>3, <1>4, <2>1, <2>3 DEF Counted
    <3>3. CASE ~press /\ k \notin c.keys
      <4>1. L = c.keys BY <3>3
      <4>2. i = c.idle_inhibit - 1 /\ m = c.strays + 1 BY <3>3
      <4> HIDE DEF L, i, m
      <4> QED BY <4>1, <4>2, <1>2, <1>3, <1>4, <2>1, <2>3 DEF Counted
    <3> QED BY <3>1, <3>2, <3>3
  <2>5. KeyTrue(d, c.keys) /\ Binding(d, c.keys)
    BY <2>1, KeyKept, HeldKept DEF Good, Rest
  <2>6. Windowed(d)
    <3>1. Switching(d) BY <2>1, HeldKept DEF Good, Rest
    <3>2. Focus(d) /\ Owner(d) BY <2>1, FocusKeptBy, OwnerKept DEF Good, Rest
    <3>3. Layered(d) /\ Choice(d) BY <2>1, LayeredKept, ChoiceKept DEF Good, Rest
    <3> QED BY <3>1, <3>2, <3>3 DEF Windowed
  <2>7. PointerTrue(d, P) /\ PointerHeld(d, B) /\ DragsBoth(d)
    BY <2>1, PointerKept, GrabsKept DEF Good
  <2> DEFINE took == press /\ e.kgrab = "binding" /\ e.key = k
             es == {"kfocus", "entered", "believes", "stale", "kgrab", "key",
                    "current"}
  <2>8. /\ Shaped(e) /\ OnlyOf(d, e, es) /\ (e.kgrab = "drag" <=> d.kgrab = "drag")
        /\ took => KeyTrue(e, L)
        /\ ~took => KeyTrue(e, c.keys) /\ Binding(e, c.keys)
        /\ Windowed(e)
    <3>1. CASE press /\ d.kgrab = "default"
      <4> DEFINE u == RunKeyBinding(d, k)
      <4>1. e = u BY <3>1
      <4>2. /\ Shaped(u) /\ OnlyOf(d, u, es) /\ u.kgrab # "drag"
            /\ IF u.kgrab = "binding" THEN KeyTrue(u, d.keys) /\ u.key = k
               ELSE KeyTrue(u, c.keys)
            /\ Windowed(u)
        BY <3>1, <2>2, <2>5, <2>6, RunKeyBindingFacts
      <4> HIDE DEF u, e
      <4>3. u.kgrab # "binding" => Binding(u, c.keys) BY DEF Binding
      <4> QED BY <3>1, <4>1, <4>2, <4>3, <2>1
    <3>2. CASE ~(press /\ d.kgrab = "default")
      <4>1. e = d BY <3>2
      <4> HIDE DEF e
      <4>2. ~took BY <4>1, <1>7, <2>5 DEF Binding
      <4>3. OnlyOf(d, e, es) BY <4>1 DEF OnlyOf
      <4> QED BY <4>1, <4>2, <4>3, <2>2, <2>5, <2>6
    <3> QED BY <3>1, <3>2
  <2> HIDE DEF e
  <2>9. /\ Shaped(f) /\ OnlyOf(e, f, {"believes", "kgrab", "key", "current", "stale"})
        /\ (f.kgrab = "drag" <=> e.kgrab = "drag")
        /\ KeyTrue(f, L) /\ Binding(f, L) /\ Windowed(f)
    <3>1. took = (press /\ e.kgrab = "binding" /\ e.key = k) OBVIOUS
    <3>2. L = IF press THEN c.keys \cup {k} ELSE c.keys \ {k} OBVIOUS
    <3> DEFINE K == c.keys
               g == GrabKey(e, k, press)
    <3>3. /\ Shaped(e) /\ Windowed(e)
          /\ took => KeyTrue(e, L)
          /\ ~took => KeyTrue(e, K) /\ Binding(e, K)
          /\ L = IF press THEN K \cup {k} ELSE K \ {k}
      BY <2>8, <3>2
    <3>4. /\ Shaped(g) /\ OnlyOf(e, g, {"believes", "kgrab", "key", "current", "stale"})
          /\ g.kgrab = "drag" <=> e.kgrab = "drag"
          /\ KeyTrue(g, L) /\ Binding(g, L) /\ Windowed(g)
      <4> HIDE DEF took, L, K, f, g
      <4> QED BY <3>1, <3>3, GrabKeyFacts, SMTT(20) DEF g
    <3> QED BY <3>4, Zenon
  <2> DEFINE u == UpdateModifierState(f)
  <2>10. t = u BY <1>1, <1>7
  <2> HIDE DEF f, L, i, m
  <2>11. f.keys = L BY <2>1, <2>8, <2>9 DEF OnlyOf, Fields
  <2>12. /\ Shaped(u)
         /\ OnlyOf(f, u, {"super", "kfocus", "entered", "believes", "stale",
                          "keyboard_focus", "letGo", "layer", "assertFailed",
                          "kgrab", "current"})
         /\ (u.kgrab = "drag" <=> f.kgrab = "drag") /\ Rest(u, L)
    BY <2>9, <2>11, UpdateModifierStateFacts
  <2> HIDE DEF u
  <2>13. OnlyOf(d, u, Typed \ {"keys", "idle_inhibit", "strays", "repeats"})
    <3>1. OnlyOf(d, f, Typed \ {"keys", "idle_inhibit", "strays", "repeats"})
      BY <2>8, <2>9 DEF OnlyOf, Typed
    <3>2. OnlyOf(f, u, Typed \ {"keys", "idle_inhibit", "strays", "repeats"})
      BY <2>12 DEF OnlyOf, Typed
    <3> QED BY <3>1, <3>2 DEF OnlyOf
  <2>14. /\ u.keys = L /\ u.pgrab = d.pgrab /\ u.repeats = c.repeats /\ u.strays = m
    BY <2>1, <2>3, <2>13 DEF OnlyOf, Fields, Typed
  <2>15. PointerTrue(u, P)
    <3>1. /\ u.pfocus = d.pfocus /\ u.pressed = d.pressed /\ u.window = d.window
          /\ u.kept = d.kept /\ u.moving = d.moving
      BY <2>13 DEF OnlyOf, Fields, Typed
    <3> QED BY <3>1, <2>7, <2>14 DEF PointerTrue, Knows
  <2>16. PointerHeld(u, B) /\ DragsBoth(u)
    BY <2>7, <2>8, <2>9, <2>12, <2>14 DEF PointerHeld, DragsBoth
  <2>17. Counted(u, B)
    <3>1. /\ u.keys = d.keys /\ u.button_count = d.button_count
          /\ u.idle_inhibit = d.idle_inhibit /\ u.repeats = d.repeats
          /\ u.strays = d.strays
      BY <2>13 DEF OnlyOf, Fields, Typed
    <3> QED BY <3>1, <2>4 DEF Counted
  <2>18. OnlyOf(c, u, Typed)
    <3>1. OnlyOf(c, d, Typed) BY <2>1 DEF OnlyOf, Typed
    <3> QED BY <3>1, <2>13 DEF OnlyOf
  <2> QED BY <1>7, <2>10, <2>12, <2>14, <2>15, <2>16, <2>17, <2>18 DEF Good, t, m
<1> QED BY <1>6, <1>7

-----------------------------------------------------------------------------
(* Windows that go.                                                        *)

\* An unmapped window has neither focus; the keyboard's is let go.
LEMMA LeaveFociFacts ==
  ASSUME NEW c, Shaped(c), NEW w \in Windows, KeyTrue(c, c.keys),
         Focus(c), Owner(c), NEW P, PointerTrue(c, P)
  PROVE  /\ Shaped(LeaveFoci(c, w))
         /\ OnlyOf(c, LeaveFoci(c, w), {"kfocus", "entered", "believes", "stale",
                                        "letGo", "pfocus", "pressed", "kept"})
         /\ LeaveFoci(c, w).kfocus # w /\ LeaveFoci(c, w).pfocus # w
         /\ KeyTrue(LeaveFoci(c, w), c.keys) /\ PointerTrue(LeaveFoci(c, w), P)
         /\ Focus(LeaveFoci(c, w)) /\ Owner(LeaveFoci(c, w))
<1> DEFINE u == SetKeyboardFocus(c, None)
           d == IF c.kfocus = w THEN [u EXCEPT !.letGo = TRUE] ELSE c
           t == LeaveFoci(c, w)
           ds == {"kfocus", "entered", "believes", "stale", "letGo"}
<1>0. w # None BY SeatAssumption
<1>1. t = IF d.pfocus = w THEN ClearPointerFocus(d) ELSE d
  BY DEF LeaveFoci
<1>2. /\ Shaped(d) /\ OnlyOf(c, d, ds) /\ d.kfocus # w
      /\ KeyTrue(d, c.keys) /\ Focus(d) /\ Owner(d)
  <2>1. CASE c.kfocus = w
    <3>1. d = [u EXCEPT !.letGo = TRUE] BY <2>1
    <3>2. /\ Shaped(u) /\ OnlyOf(c, u, {"kfocus", "entered", "believes", "stale"})
          /\ u.kfocus = None /\ KeyTrue(u, c.keys)
      BY SetKeyboardFocusFacts DEF Owners
    <3> HIDE DEF u, d
    <3>3. Rec(d) /\ OnlyOf(u, d, {"letGo"}) /\ d.letGo = TRUE
      BY <3>1, <3>2 DEF Shaped, Fields, OnlyOf, Rec
    <3>4. Shaped(d)
      <4>1. d.letGo \in Types.letGo BY <3>3, TypeOf
      <4> QED BY <4>1, <3>2, <3>3, ShapedAfter
    <3>5. d.kfocus = None BY <3>2, <3>3 DEF OnlyOf, Fields
    <3>6. KeyTrue(d, c.keys) BY <3>2, <3>3, KeyKept
    <3>7. Focus(d) BY <3>5 DEF Focus
    <3>8. Owner(d) BY <3>3 DEF Owner, Ownerless
    <3>9. OnlyOf(c, d, ds) BY <3>2, <3>3 DEF OnlyOf
    <3> QED BY <1>0, <3>4, <3>5, <3>6, <3>7, <3>8, <3>9
  <2>2. CASE c.kfocus # w
    <3>1. d = c BY <2>2
    <3> QED BY <2>2, <3>1 DEF OnlyOf
  <2> QED BY <2>1, <2>2
<1> HIDE DEF d, t
<1>3. PointerTrue(d, P) BY <1>2, PointerKept
<1> DEFINE ts == {"kfocus", "entered", "believes", "stale", "letGo", "pfocus", "pressed", "kept"}
<1>4. CASE d.pfocus = w
  <2> DEFINE v == ClearPointerFocus(d)
  <2>1. t = v BY <1>1, <1>4
  <2>2. Shaped(v) /\ OnlyOf(d, v, {"pfocus", "pressed", "kept"}) /\ v.pfocus = None
    BY <1>2, ClearPointerFocusFacts
  <2> HIDE DEF v
  <2>3. v.kfocus = d.kfocus BY <2>2 DEF OnlyOf, Fields
  <2>4. PointerTrue(v, P) BY <2>2 DEF PointerTrue
  <2>5. KeyTrue(v, c.keys) BY <1>2, <2>2, KeyKept
  <2>6. Focus(v) /\ Owner(v) BY <1>2, <2>2, FocusKeptBy, OwnerKept
  <2>7. OnlyOf(c, v, ts) BY <1>2, <2>2 DEF OnlyOf
  <2> QED BY <1>0, <1>2, <2>1, <2>2, <2>3, <2>4, <2>5, <2>6, <2>7 DEF t
<1>5. CASE d.pfocus # w
  <2>1. t = d BY <1>1, <1>5
  <2>2. OnlyOf(c, d, ts) BY <1>2 DEF OnlyOf
  <2> QED BY <1>2, <1>3, <1>5, <2>1, <2>2 DEF t
<1> QED BY <1>4, <1>5

\* Choice, but for the window w.
ChoiceBut(c, w) ==
  c.current \in Windows /\ c.current # w => c.window[c.current] # "none"

\* A window without a focus leaves the layer.
LEMMA GoneFacts ==
  ASSUME NEW c, Shaped(c), NEW w \in Windows, NEW phase \in {"unmapped", "none"},
         NEW P, PointerTrue(c, P), c.pfocus # w, c.kfocus # w,
         Focus(c), Owner(c), Layered(c), Choice(c),
         NEW t, Rec(t), OnlyOf(c, t, {"window", "layer", "grabbed", "moving"}),
         t.window = [c.window EXCEPT ![w] = phase], t.layer = Without(c.layer, w),
         t.grabbed \in SUBSET Windows,
         t.moving = c.moving \/ (t.moving = None /\ c.moving = w)
  PROVE  /\ Shaped(t)
         /\ PointerTrue(t, P) /\ Focus(t) /\ Owner(t) /\ Layered(t)
         /\ ChoiceBut(t, w)
         /\ phase # "none" => Choice(t)
<1> DEFINE window == [c.window EXCEPT ![w] = phase]
           l == Without(c.layer, w)
<1>1. /\ c.window \in [Windows -> Phases] /\ c.layer \in Seq(Windows)
      /\ c.pfocus \in Owners /\ c.kfocus \in Owners
  BY TypesAre
<1>2. /\ window \in [Windows -> Phases] /\ window[w] = phase
      /\ \A x \in Windows : x # w => window[x] = c.window[x]
  BY <1>1 DEF Phases
<1>3. l \in Seq(Windows) /\ Injective(l) /\ Range(l) = Range(c.layer) \ {w}
  BY <1>1, WithoutFacts DEF Layered
<1>4. Range(c.layer) \subseteq Windows BY <1>1, EmptyList
<1> HIDE DEF window, l
<1>5. /\ OnlyOf(c, t, {"window", "layer", "grabbed", "moving"})
      /\ t.window = window /\ t.layer = l
  BY DEF window, l
<1>6. Shaped(t)
  <2>1. t.window \in Types.window /\ t.layer \in Types.layer
    BY <1>2, <1>3, <1>5, TypeOf
  <2>2. c.moving \in Owners BY TypesAre
  <2>3. t.grabbed \in Types.grabbed /\ t.moving \in Types.moving
    BY <2>2, TypeOf DEF Owners
  <2> QED BY <2>1, <2>3, <1>5, ShapedAfter
<1>7. /\ t.pfocus = c.pfocus /\ t.pgrab = c.pgrab /\ t.pressed = c.pressed
      /\ t.kept = c.kept
      /\ t.kfocus = c.kfocus /\ t.keyboard_focus = c.keyboard_focus
      /\ t.letGo = c.letGo /\ t.kgrab = c.kgrab /\ t.current = c.current
  BY <1>5 DEF OnlyOf, Fields
<1>8. PointerTrue(t, P)
  <2>1. t.pfocus # None => Knows(t, P) BY <1>7 DEF PointerTrue, Knows
  <2>2. t.pfocus # None /\ t.pgrab = "shell" => t.moving = t.pfocus
    BY <1>7 DEF PointerTrue
  <2>3. t.pfocus # None => t.window[t.pfocus] = "mapped"
    BY <1>1, <1>2, <1>5, <1>7 DEF PointerTrue, Owners
  <2> QED BY <1>7, <2>1, <2>2, <2>3 DEF PointerTrue
<1>9. Focus(t) BY <1>1, <1>2, <1>5, <1>7 DEF Focus, Owners
<1>10. Owner(t)
  <2>1. Ownerless(t) => Ownerless(c) BY <1>7 DEF Ownerless
  <2>2. phase # "mapped" OBVIOUS
  <2> QED BY <1>2, <1>5, <2>1, <2>2 DEF Owner
<1>11. Layered(t)
  <2>1. \A x \in Range(l) : window[x] # "none" BY <1>2, <1>3, <1>4 DEF Layered
  <2>2. \A x \in Windows : window[x] = "mapped" => x \in Range(l)
    <3> TAKE x \in Windows
    <3>1. CASE x = w BY <3>1, <1>2
    <3>2. CASE x # w BY <3>2, <1>2, <1>3 DEF Layered
    <3> QED BY <3>1, <3>2
  <2> QED BY <1>3, <1>5, <2>1, <2>2 DEF Layered
<1>12. ChoiceBut(t, w) BY <1>2, <1>5, <1>7 DEF ChoiceBut, Choice
<1>13. phase # "none" => Choice(t)
  <2>1. CASE t.current = w BY <2>1, <1>2, <1>5 DEF Choice
  <2>2. CASE t.current # w BY <2>2, <1>12 DEF Choice, ChoiceBut
  <2> QED BY <2>1, <2>2
<1> QED BY <1>5, <1>6, <1>8, <1>9, <1>10, <1>11, <1>12, <1>13

\* The shell activates the top window in place of the one that had its focus.
LEMMA FocusStateFacts ==
  ASSUME NEW c, Shaped(c), NEW w \in Windows, c.kfocus # w, KeyTrue(c, c.keys),
         Focus(c), Owner(c), Layered(c), ChoiceBut(c, w)
  PROVE  /\ Shaped(FocusStateSurfaceDestroy(c, w))
         /\ OnlyOf(c, FocusStateSurfaceDestroy(c, w),
                   {"kfocus", "entered", "believes", "stale", "keyboard_focus",
                    "letGo", "layer"})
         /\ KeyTrue(FocusStateSurfaceDestroy(c, w), c.keys)
         /\ Focus(FocusStateSurfaceDestroy(c, w))
         /\ Owner(FocusStateSurfaceDestroy(c, w))
         /\ Layered(FocusStateSurfaceDestroy(c, w))
         /\ ChoiceBut(FocusStateSurfaceDestroy(c, w), w)
<1> DEFINE t == FocusStateSurfaceDestroy(c, w)
           d == [c EXCEPT !.keyboard_focus = None]
           h == Head(c.layer)
           fs == {"kfocus", "entered", "believes", "stale", "keyboard_focus",
                  "letGo", "layer"}
<1>1. CASE c.keyboard_focus # w
  BY <1>1 DEF FocusStateSurfaceDestroy, OnlyOf
<1>2. CASE c.keyboard_focus = w
  <2>1. t = IF c.layer = <<>> THEN d ELSE Activate(d, h)
    <3>1. d.layer = c.layer BY DEF Shaped, Fields, Rec
    <3> HIDE DEF d
    <3>2. t = LET e == [c EXCEPT !.keyboard_focus = None]
              IN IF c.layer = <<>> THEN e ELSE Activate(e, Head(c.layer))
      BY <1>2 DEF FocusStateSurfaceDestroy
    <3> QED BY <3>2 DEF d
  <2>2. Rec(d) /\ OnlyOf(c, d, {"keyboard_focus"}) /\ d.keyboard_focus = None
    BY DEF Shaped, Fields, OnlyOf, Rec
  <2> HIDE DEF d, t
  <2>3. Shaped(d)
    <3>1. d.keyboard_focus \in Types.keyboard_focus BY <2>2, TypeOf DEF Owners
    <3> QED BY <3>1, <2>2, ShapedAfter
  <2>4. /\ d.kfocus = c.kfocus /\ d.layer = c.layer /\ d.window = c.window
        /\ d.current = c.current /\ d.keys = c.keys
    BY <2>2 DEF OnlyOf, Fields
  <2>5. Focus(d) BY <1>2, <2>4 DEF Focus
  <2>6. KeyTrue(d, c.keys) /\ Owner(d) /\ Layered(d)
    BY <2>2, KeyKept, OwnerKept, LayeredKept
  <2>7. CASE c.layer = <<>>
    <3>1. t = d BY <2>1, <2>7
    <3>2. OnlyOf(c, d, fs) BY <2>2 DEF OnlyOf
    <3>3. ChoiceBut(d, w) BY <2>4 DEF ChoiceBut
    <3> QED BY <2>3, <2>5, <2>6, <3>1, <3>2, <3>3 DEF t
  <2>8. CASE c.layer # <<>>
    <3> DEFINE u == Activate(d, h)
    <3>1. t = u BY <2>1, <2>8
    <3>2. c.layer \in Seq(Windows) BY TypesAre
    <3>3. h \in Range(c.layer) /\ h \in Windows BY <2>8, <3>2, EmptyList
    <3>4. d.window[h] # "none" BY <2>4, <3>3 DEF Layered
    <3>5. LayeredBut(d, h) BY <2>6, LayeredButs
    <3> HIDE DEF h
    <3>6. /\ Shaped(u) /\ OnlyOf(d, u, fs) /\ KeyTrue(u, d.keys)
          /\ Focus(u) /\ Owner(u) /\ Layered(u)
      BY <2>3, <2>4, <2>6, <3>3, <3>4, <3>5, ActivateRest
    <3> HIDE DEF u
    <3>7. OnlyOf(c, u, fs) BY <2>2, <3>6 DEF OnlyOf
    <3>8. u.current = c.current /\ u.window = c.window
      BY <3>7 DEF OnlyOf, Fields
    <3>9. ChoiceBut(u, w) BY <3>8 DEF ChoiceBut
    <3> QED BY <2>4, <3>1, <3>6, <3>7, <3>9 DEF t
  <2> QED BY <2>7, <2>8
<1> QED BY <1>1, <1>2

\* The switcher does not keep a window that is gone for its choice.
LEMMA SwitcherSurfaceFacts ==
  ASSUME NEW c, Shaped(c), NEW w \in Windows, Owner(c), Layered(c), ChoiceBut(c, w)
  PROVE  /\ Shaped(SwitcherSurfaceDestroy(c, w))
         /\ OnlyOf(c, SwitcherSurfaceDestroy(c, w), {"current"})
         /\ Owner(SwitcherSurfaceDestroy(c, w))
         /\ Layered(SwitcherSurfaceDestroy(c, w))
         /\ Choice(SwitcherSurfaceDestroy(c, w))
<1> DEFINE t == SwitcherSurfaceDestroy(c, w)
           d == [c EXCEPT !.current = Dangling]
           u == SwitcherNext(d)
<1>1. CASE c.current # w
  <2>1. t = c BY <1>1 DEF SwitcherSurfaceDestroy
  <2> QED BY <1>1, <2>1 DEF OnlyOf, Choice, ChoiceBut
<1>2. CASE c.current = w
  <2>1. t = u BY <1>2 DEF SwitcherSurfaceDestroy
  <2>2. Rec(d) /\ OnlyOf(c, d, {"current"}) /\ d.current = Dangling
    BY DEF Shaped, Fields, OnlyOf, Rec
  <2> HIDE DEF d, t
  <2>3. Shaped(d)
    <3>1. d.current \in Types.current BY <2>2, TypeOf
    <3> QED BY <3>1, <2>2, ShapedAfter
  <2>4. Layered(d) BY <2>2, LayeredKept
  <2>5. Choice(d) BY <2>2, SeatAssumption DEF Choice, Dangling
  <2>6. d.kgrab # "switcher" => Owner(d)
    <3>1. /\ d.kfocus = c.kfocus /\ d.letGo = c.letGo /\ d.kgrab = c.kgrab
          /\ d.window = c.window
      BY <2>2 DEF OnlyOf, Fields
    <3> QED BY <3>1 DEF Owner, Ownerless
  <2>7. /\ Shaped(u) /\ OnlyOf(d, u, {"current"})
        /\ Layered(u) /\ Choice(u) /\ Owner(u)
    BY <2>3, <2>4, <2>5, <2>6, SwitcherNextFacts
  <2> HIDE DEF u
  <2>8. OnlyOf(c, u, {"current"}) BY <2>2, <2>7 DEF OnlyOf
  <2> QED BY <2>1, <2>7, <2>8 DEF t
<1> QED BY <1>1, <1>2

\* What the end of a window may change.
Freed == {"kfocus", "entered", "believes", "stale", "letGo", "pfocus", "pressed", "kept",
          "window", "layer", "grabbed", "moving", "keyboard_focus", "current"}

\* A window destroyed, from the foci to the switcher.
LEMMA FreeFacts ==
  ASSUME NEW c, Shaped(c), NEW w \in Windows, NEW P, NEW B, Good(c, P, B, c.keys)
  PROVE  /\ Shaped(Free(c, w)) /\ OnlyOf(c, Free(c, w), Freed)
         /\ Good(Free(c, w), P, B, c.keys)
<1> DEFINE a == LeaveFoci(c, w)
           window == [a.window EXCEPT ![w] = "none"]
           l == Without(a.layer, w)
           g == a.grabbed \ {w}
           m == IF a.moving = w THEN None ELSE a.moving
           d == [a EXCEPT !.window = window, !.layer = l, !.grabbed = g, !.moving = m]
           e == FocusStateSurfaceDestroy(d, w)
           t == SwitcherSurfaceDestroy(e, w)
<1>1. /\ Shaped(a)
      /\ OnlyOf(c, a, {"kfocus", "entered", "believes", "stale", "letGo",
                       "pfocus", "pressed", "kept"})
      /\ a.kfocus # w /\ a.pfocus # w /\ KeyTrue(a, c.keys) /\ PointerTrue(a, P)
      /\ Focus(a) /\ Owner(a)
  BY LeaveFociFacts DEF Good, Rest
<1>2. Free(c, w) = t
  <2> HIDE DEF a
  <2>1. [a EXCEPT !.window[w] = "none", !.layer = Without(@, w),
                  !.grabbed = @ \ {w}, !.moving = IF @ = w THEN None ELSE @] = d
    BY <1>1 DEF Shaped, Fields, Rec
  <2> HIDE DEF d
  <2> QED BY <2>1 DEF Free, a
<1> HIDE DEF a, t
<1>3. Layered(a) /\ Choice(a) BY <1>1, LayeredKept, ChoiceKept DEF Good, Rest
<1>4. /\ Shaped(d) /\ OnlyOf(a, d, {"window", "layer", "grabbed", "moving"})
      /\ PointerTrue(d, P) /\ Focus(d) /\ Owner(d) /\ Layered(d) /\ ChoiceBut(d, w)
  <2>0. a.grabbed \in SUBSET Windows BY <1>1, TypesAre
  <2> HIDE DEF window, l, g, m
  <2>1. /\ Rec(d) /\ OnlyOf(a, d, {"window", "layer", "grabbed", "moving"})
        /\ d.window = window /\ d.layer = l /\ d.grabbed = g /\ d.moving = m
    BY <1>1 DEF Shaped, Fields, OnlyOf, Rec
  <2> HIDE DEF d
  <2>2. /\ d.window = [a.window EXCEPT ![w] = "none"] /\ d.layer = Without(a.layer, w)
        /\ d.grabbed \in SUBSET Windows
        /\ d.moving = a.moving \/ (d.moving = None /\ a.moving = w)
    BY <2>0, <2>1 DEF window, l, g, m
  <2>3. "none" \in {"unmapped", "none"} OBVIOUS
  <2> QED BY <1>1, <1>3, <2>1, <2>2, <2>3, GoneFacts
<1> HIDE DEF d
<1>5. KeyTrue(d, c.keys) BY <1>1, <1>4, KeyKept
<1>6. d.kfocus = a.kfocus /\ d.keys = c.keys BY <1>1, <1>4 DEF OnlyOf, Fields
<1> DEFINE es == {"kfocus", "entered", "believes", "stale", "keyboard_focus",
                  "letGo", "layer"}
<1>7. /\ Shaped(e) /\ OnlyOf(d, e, es) /\ KeyTrue(e, c.keys)
      /\ Focus(e) /\ Owner(e) /\ Layered(e) /\ ChoiceBut(e, w)
  BY <1>1, <1>4, <1>5, <1>6, FocusStateFacts
<1> HIDE DEF e
<1>8. /\ Shaped(t) /\ OnlyOf(e, t, {"current"}) /\ Owner(t) /\ Layered(t) /\ Choice(t)
  BY <1>7, SwitcherSurfaceFacts DEF t
<1>9. PointerTrue(t, P)
  <2>1. PointerTrue(e, P) BY <1>4, <1>7, PointerKept
  <2> QED BY <2>1, <1>8, PointerKept
<1>10. KeyTrue(t, c.keys) /\ Focus(t) BY <1>7, <1>8, KeyKept, FocusKeptBy
<1>11. OnlyOf(c, t, Freed)
  <2>1. OnlyOf(c, d, Freed) BY <1>1, <1>4 DEF OnlyOf, Freed
  <2>2. OnlyOf(d, t, Freed) BY <1>7, <1>8 DEF OnlyOf, Freed
  <2> QED BY <2>1, <2>2 DEF OnlyOf
<1>12. /\ t.kgrab = c.kgrab /\ t.pgrab = c.pgrab /\ t.super = c.super
       /\ t.key = c.key
  BY <1>11 DEF OnlyOf, Fields, Freed
<1>13. Switching(t) /\ Binding(t, c.keys)
  BY <1>12 DEF Switching, Binding, Good, Rest
<1>14. PointerHeld(t, B) /\ DragsBoth(t) BY <1>12 DEF PointerHeld, DragsBoth, Good
<1>15. Counted(t, B)
  <2>1. /\ t.keys = c.keys /\ t.button_count = c.button_count
        /\ t.idle_inhibit = c.idle_inhibit /\ t.repeats = c.repeats
        /\ t.strays = c.strays
    BY <1>11 DEF OnlyOf, Fields, Freed
  <2> QED BY <2>1 DEF Counted, Good
<1> QED BY <1>2, <1>8, <1>9, <1>10, <1>11, <1>13, <1>14, <1>15 DEF Good, Rest

-----------------------------------------------------------------------------
(* The inductive invariant and the actions.                                *)

\* The invariant between two events: everything held has been told.
Whole(c) ==
  /\ Shaped(c) /\ Good(c, c.buttons, c.buttons, c.keys)
  /\ c.repeats \in 0 .. MaxOdd /\ c.strays \in 0 .. MaxOdd

IInv == Whole(seat)

\* The record form of the types implies the types.
LEMMA TypeCorrect ==
  ASSUME Whole(seat)
  PROVE  TypeOK
<1> DEFINE c == seat
<1>1. c = [keys |-> c.keys, super |-> c.super, kgrab |-> c.kgrab, key |-> c.key,
           kfocus |-> c.kfocus, entered |-> c.entered, believes |-> c.believes,
           stale |-> c.stale, bound |-> c.bound, buttons |-> c.buttons,
           button_count |-> c.button_count, pgrab |-> c.pgrab,
           pfocus |-> c.pfocus, pressed |-> c.pressed, kept |-> c.kept,
           helper |-> c.helper, grabbed |-> c.grabbed, moving |-> c.moving,
           idle_inhibit |-> c.idle_inhibit, repeats |-> c.repeats,
           strays |-> c.strays, window |-> c.window, layer |-> c.layer,
           keyboard_focus |-> c.keyboard_focus, letGo |-> c.letGo,
           current |-> c.current, assertFailed |-> c.assertFailed]
  BY DEF Whole, Shaped, Rec, Fields
<1>2. Shaped(c) BY DEF Whole
<1>3. c.button_count \in 0 .. Cardinality(Buttons)
  <2>1. IsFiniteSet(Buttons) BY SeatAssumption, FS_Interval DEF Buttons
  <2>2. c.buttons \in SUBSET Buttons BY <1>2, TypesAre
  <2>3. /\ IsFiniteSet(c.buttons) /\ Cardinality(c.buttons) <= Cardinality(Buttons)
    BY <2>1, <2>2, FS_Subset
  <2>4. Cardinality(c.buttons) \in Nat /\ Cardinality(Buttons) \in Nat
    BY <2>1, <2>3, FS_CardinalityType
  <2>5. c.button_count = Cardinality(c.buttons) BY DEF Whole, Good, Counted
  <2> QED BY <2>3, <2>4, <2>5
<1>4. c.repeats \in 0 .. MaxOdd /\ c.strays \in 0 .. MaxOdd BY DEF Whole
<1> HIDE DEF c
<1>5. c \in [keys : SUBSET Keys, super : BOOLEAN,
       kgrab : {"default", "binding", "switcher", "drag"},
       key : Keys \cup {"none"}, kfocus : Owners, entered : Owners,
       believes : SUBSET Keys, stale : BOOLEAN, bound : SUBSET Windows,
       buttons : SUBSET Buttons, button_count : 0 .. Cardinality(Buttons),
       pgrab : {"default", "shell", "drag"}, pfocus : Owners,
       pressed : SUBSET Buttons, kept : SUBSET Buttons,
       helper : BOOLEAN, grabbed : SUBSET Windows, moving : Owners,
       idle_inhibit : Int, repeats : 0 .. MaxOdd, strays : 0 .. MaxOdd,
       window : [Windows -> Phases], layer : Seq(Windows),
       keyboard_focus : Owners, letGo : BOOLEAN,
       current : Owners \cup {Dangling}, assertFailed : BOOLEAN]
  <2>1. /\ c.keys \in SUBSET Keys /\ c.super \in BOOLEAN
        /\ c.kgrab \in {"default", "binding", "switcher", "drag"}
        /\ c.key \in Keys \cup {"none"} /\ c.kfocus \in Owners
        /\ c.entered \in Owners /\ c.believes \in SUBSET Keys
        /\ c.stale \in BOOLEAN /\ c.bound \in SUBSET Windows
        /\ c.buttons \in SUBSET Buttons
        /\ c.pgrab \in {"default", "shell", "drag"} /\ c.pfocus \in Owners
        /\ c.pressed \in SUBSET Buttons /\ c.kept \in SUBSET Buttons
        /\ c.helper \in BOOLEAN /\ c.grabbed \in SUBSET Windows
        /\ c.moving \in Owners /\ c.idle_inhibit \in Int
        /\ c.window \in [Windows -> Phases] /\ c.layer \in Seq(Windows)
        /\ c.keyboard_focus \in Owners /\ c.letGo \in BOOLEAN
        /\ c.current \in Owners \cup {Dangling} /\ c.assertFailed \in BOOLEAN
    BY <1>2, TypesAre
  <2> QED BY <1>1, <1>3, <1>4, <2>1, Zenon
<1> QED BY <1>5 DEF TypeOK, Owners, c

\* Nothing is held and no window is there at first.
LEMMA InitWhole ==
  ASSUME Init
  PROVE  IInv
<1> DEFINE window == [w \in Windows |-> "none"]
           c == [keys |-> {}, super |-> FALSE, kgrab |-> "default", key |-> "none",
                 kfocus |-> None, entered |-> None, believes |-> {}, stale |-> FALSE,
                 bound |-> {},
                 buttons |-> {}, button_count |-> 0, pgrab |-> "default",
                 pfocus |-> None, pressed |-> {}, kept |-> {},
                 helper |-> FALSE, grabbed |-> {}, moving |-> None,
                 idle_inhibit |-> 0, repeats |-> 0, strays |-> 0,
                 window |-> window, layer |-> <<>>,
                 keyboard_focus |-> None, letGo |-> FALSE, current |-> None,
                 assertFailed |-> FALSE]
<1>1. seat = c BY DEF Init
<1>2. window \in [Windows -> Phases] /\ \A w \in Windows : window[w] = "none"
  BY DEF Phases
<1> HIDE DEF window
<1>3. /\ c.keys = {} /\ c.super = FALSE /\ c.kgrab = "default" /\ c.key = "none"
      /\ c.kfocus = None /\ c.entered = None /\ c.believes = {} /\ c.stale = FALSE
      /\ c.bound = {} /\ c.buttons = {} /\ c.button_count = 0
      /\ c.pgrab = "default" /\ c.pfocus = None /\ c.pressed = {}
      /\ c.kept = {} /\ c.helper = FALSE /\ c.grabbed = {} /\ c.moving = None
      /\ c.idle_inhibit = 0 /\ c.repeats = 0 /\ c.strays = 0
      /\ c.window = window /\ c.layer = <<>> /\ c.keyboard_focus = None
      /\ c.letGo = FALSE /\ c.current = None /\ c.assertFailed = FALSE
  OBVIOUS
<1>4. Rec(c) BY DEF Rec, Fields
<1> HIDE DEF c
<1>5. /\ c.keys \in Types.keys /\ c.super \in Types.super
      /\ c.kgrab \in Types.kgrab /\ c.key \in Types.key
      /\ c.kfocus \in Types.kfocus /\ c.entered \in Types.entered
      /\ c.believes \in Types.believes /\ c.stale \in Types.stale
      /\ c.bound \in Types.bound /\ c.buttons \in Types.buttons
      /\ c.button_count \in Types.button_count /\ c.pgrab \in Types.pgrab
      /\ c.pfocus \in Types.pfocus /\ c.pressed \in Types.pressed
      /\ c.kept \in Types.kept /\ c.helper \in Types.helper
      /\ c.grabbed \in Types.grabbed /\ c.moving \in Types.moving
      /\ c.idle_inhibit \in Types.idle_inhibit /\ c.repeats \in Types.repeats
      /\ c.strays \in Types.strays /\ c.window \in Types.window
      /\ c.layer \in Types.layer /\ c.keyboard_focus \in Types.keyboard_focus
      /\ c.letGo \in Types.letGo /\ c.current \in Types.current
      /\ c.assertFailed \in Types.assertFailed
  <2>1. <<>> \in Seq(Windows) OBVIOUS
  <2>2. /\ c.window \in Types.window /\ c.layer \in Types.layer
    BY <1>2, <1>3, <2>1, TypeOf
  <2>3. /\ c.keys \in Types.keys /\ c.super \in Types.super
        /\ c.kgrab \in Types.kgrab /\ c.key \in Types.key
        /\ c.believes \in Types.believes /\ c.stale \in Types.stale
        /\ c.bound \in Types.bound
    BY <1>3, TypeOf
  <2>4. /\ c.kfocus \in Types.kfocus /\ c.entered \in Types.entered
        /\ c.pfocus \in Types.pfocus /\ c.keyboard_focus \in Types.keyboard_focus
        /\ c.current \in Types.current /\ c.moving \in Types.moving
    BY <1>3, TypeOf DEF Owners
  <2>5. /\ c.buttons \in Types.buttons /\ c.button_count \in Types.button_count
        /\ c.pgrab \in Types.pgrab /\ c.pressed \in Types.pressed
    BY <1>3, TypeOf
  <2>51. /\ c.kept \in Types.kept /\ c.helper \in Types.helper
         /\ c.grabbed \in Types.grabbed
    BY <1>3, TypeOf
  <2>6. /\ c.idle_inhibit \in Types.idle_inhibit /\ c.repeats \in Types.repeats
        /\ c.strays \in Types.strays
        /\ c.letGo \in Types.letGo /\ c.assertFailed \in Types.assertFailed
    BY <1>3, TypeOf
  <2> QED BY <2>2, <2>3, <2>4, <2>5, <2>51, <2>6
<1>6. Shaped(c) BY <1>4, <1>5 DEF Shaped, Fields
<1>7. PointerTrue(c, {}) /\ PointerHeld(c, {}) /\ DragsBoth(c)
  BY <1>3 DEF PointerTrue, PointerHeld, DragsBoth
<1>8. Counted(c, {}) BY <1>3, FS_EmptySet DEF Counted
<1>9. KeyTrue(c, {}) /\ Switching(c) /\ Binding(c, {}) /\ Focus(c)
  BY <1>3 DEF KeyTrue, Switching, Binding, Focus
<1>10. Owner(c) BY <1>2, <1>3 DEF Owner
<1>11. Layered(c)
  <2>1. Range(c.layer) = {} /\ DOMAIN c.layer = {}
    <3>1. c.layer \in Seq(Windows) BY <1>6, TypesAre
    <3>2. Range(c.layer) = {} BY <1>3, <3>1, EmptyList
    <3>3. Len(c.layer) = 0 /\ DOMAIN c.layer = 1 .. Len(c.layer) BY <1>3, <3>1
    <3>4. DOMAIN c.layer = {} BY <3>3
    <3> QED BY <3>2, <3>4
  <2> QED BY <1>2, <1>3, <2>1 DEF Layered, Injective
<1>12. Choice(c) BY <1>3, SeatAssumption DEF Choice
<1>13. Good(c, {}, {}, {}) BY <1>7, <1>8, <1>9, <1>10, <1>11, <1>12 DEF Good, Rest
<1> QED BY <1>1, <1>3, <1>6, <1>13, SeatAssumption DEF IInv, Whole

\* What pick_view finds may have it.
LEMMA PickableFacts ==
  ASSUME NEW w \in Pickable
  PROVE  MayPick(seat, w)
BY DEF Pickable, Owners, MayPick

\* The pointer's focus is picked again.
LEMMA GrabFocusWhole ==
  ASSUME NEW c, Whole(c), NEW w, MayPick(c, w)
  PROVE  /\ Whole(GrabFocus(c, w)) /\ OnlyOf(c, GrabFocus(c, w), {"pfocus", "pressed", "kept"})
<1> DEFINE t == GrabFocus(c, w)
           B == c.buttons
<1>1. /\ Shaped(c) /\ PointerTrue(c, B) /\ PointerHeld(c, B) /\ DragsBoth(c)
      /\ Counted(c, B) /\ Rest(c, c.keys)
  BY DEF Whole, Good
<1>2. c.button_count = 0 => B = {}
  <2>1. IsFiniteSet(B) BY <1>1, ButtonsFinite
  <2> QED BY <1>1, <2>1, FS_EmptySet DEF Counted
<1>3. /\ Shaped(t) /\ OnlyOf(c, t, {"pfocus", "pressed", "kept"}) /\ PointerTrue(t, B)
  BY <1>1, <1>2, GrabFocusFacts
<1> HIDE DEF t
<1>4. /\ t.buttons = c.buttons /\ t.keys = c.keys /\ t.repeats = c.repeats
      /\ t.strays = c.strays
  BY <1>3 DEF OnlyOf, Fields
<1>5. PointerHeld(t, B) /\ DragsBoth(t) BY <1>1, <1>3, GrabsKept
<1>6. Counted(t, B) BY <1>1, <1>3, CountedKept
<1>7. Rest(t, c.keys)
  <2>1. OnlyOf(c, t, Pointing) BY <1>3 DEF OnlyOf, Pointing
  <2> QED BY <1>1, <2>1, RestKept
<1> QED BY <1>3, <1>4, <1>5, <1>6, <1>7 DEF Whole, Good, t

\* A message of the mouse.
LEMMA MouseStep ==
  ASSUME IInv, NEW state \in SUBSET Buttons,
         NEW w \in Pickable, Mouse(state, w)
  PROVE  IInv'
<1> DEFINE c == seat
           t == MouseButtonNotify(c, state, w)
<1>1. MayPick(c, w) BY PickableFacts
<1>2. Whole(c) BY DEF IInv
<1>3. seat' = t BY DEF Mouse, Becomes
<1> HIDE DEF c
<1>4. /\ Shaped(t) /\ OnlyOf(c, t, Clicked \cup {"buttons"})
      /\ t.buttons = state /\ Good(t, state, state, c.keys)
  BY <1>1, <1>2, MouseButtonNotifyFacts DEF Whole
<1> HIDE DEF t
<1>5. t.keys = c.keys /\ t.repeats = c.repeats /\ t.strays = c.strays
  BY <1>4 DEF OnlyOf, Fields, Clicked
<1>6. Whole(t) BY <1>2, <1>4, <1>5 DEF Whole
<1> QED BY <1>3, <1>6 DEF IInv

\* The scene changes under the pointer.
LEMMA RepickStep ==
  ASSUME IInv, NEW w \in Pickable, Repick(w)
  PROVE  IInv'
<1>1. MayPick(seat, w) BY PickableFacts
<1>2. Whole(GrabFocus(seat, w)) BY <1>1, GrabFocusWhole DEF IInv
<1> QED BY <1>2 DEF Repick, Becomes, IInv

\* The shell's helper client comes or goes.
LEMMA HelperStep ==
  ASSUME IInv, NEW h \in BOOLEAN, seat' = [seat EXCEPT !.helper = h]
  PROVE  IInv'
<1> DEFINE c == seat
           t == [c EXCEPT !.helper = h]
           B == c.buttons
<1>1. Shaped(c) /\ Good(c, B, B, c.keys) BY DEF IInv, Whole
<1>2. Rec(t) /\ OnlyOf(c, t, {"helper"}) /\ t.helper = h
  BY <1>1 DEF Shaped, Fields, OnlyOf, Rec
<1>3. seat' = t OBVIOUS
<1> HIDE DEF t
<1>4. Shaped(t)
  <2>1. t.helper \in Types.helper BY <1>2, TypeOf
  <2> QED BY <2>1, <1>1, <1>2, ShapedAfter
<1>5. /\ t.buttons = B /\ t.keys = c.keys /\ t.repeats = c.repeats
      /\ t.strays = c.strays
  BY <1>2 DEF OnlyOf, Fields
<1>6. PointerTrue(t, B) BY <1>1, <1>2, PointerKept DEF Good
<1>7. PointerHeld(t, B) /\ DragsBoth(t) BY <1>1, <1>2, GrabsKept DEF Good
<1>8. Counted(t, B) BY <1>1, <1>2, CountedKept DEF Good
<1>9. Rest(t, c.keys)
  <2>1. OnlyOf(c, t, Pointing) BY <1>2 DEF OnlyOf, Pointing
  <2> QED BY <1>1, <2>1, RestKept DEF Good
<1>10. Whole(t) BY <1>4, <1>5, <1>6, <1>7, <1>8, <1>9 DEF Whole, Good, IInv
<1> QED BY <1>3, <1>10 DEF IInv

\* A scan code of the keyboard.
LEMMA PushScanFragStep ==
  ASSUME IInv, NEW k \in Keys, NEW press \in BOOLEAN, PushScanFrag(k, press)
  PROVE  IInv'
<1> DEFINE c == seat
           t == NotifyKey(c, k, press)
           B == c.buttons
<1>1. Shaped(c) /\ Good(c, B, B, c.keys) BY DEF IInv, Whole
<1>2. IsFiniteSet(B) /\ Cardinality(B) \in Int
  BY <1>1, ButtonsFinite, FS_CardinalityType
<1>3. /\ Shaped(t) /\ OnlyOf(c, t, Typed) /\ Good(t, B, B, t.keys)
      /\ t.repeats = IF press /\ k \in c.keys THEN c.repeats + 1 ELSE c.repeats
      /\ t.strays = IF press \/ k \in c.keys THEN c.strays ELSE c.strays + 1
  BY <1>1, <1>2, NotifyKeyFacts
<1>4. /\ press /\ k \in c.keys => c.repeats + c.strays < MaxOdd
      /\ ~press /\ k \notin c.keys => c.repeats + c.strays < MaxOdd
      /\ seat' = t
  BY DEF PushScanFrag, Becomes
<1>5. c.repeats \in 0 .. MaxOdd /\ c.strays \in 0 .. MaxOdd
  BY DEF IInv, Whole
<1> HIDE DEF t
<1>6. t.repeats \in 0 .. MaxOdd BY <1>3, <1>4, <1>5, SeatAssumption
<1>7. t.strays \in 0 .. MaxOdd BY <1>3, <1>4, <1>5, SeatAssumption
<1>8. t.buttons = B BY <1>3 DEF OnlyOf, Fields, Typed
<1>9. Whole(t) BY <1>3, <1>6, <1>7, <1>8 DEF Whole
<1> QED BY <1>4, <1>9 DEF IInv

\* A step that enters or leaves the focused client.
LEMMA EnteredWhole ==
  ASSUME NEW c, Whole(c), NEW t, Shaped(t), KeyTrue(t, c.keys),
         OnlyOf(c, t, {"bound", "entered", "believes", "stale"})
  PROVE  Whole(t)
<1>1. Good(c, c.buttons, c.buttons, c.keys) BY DEF Whole
<1>2. /\ t.buttons = c.buttons /\ t.keys = c.keys /\ t.repeats = c.repeats
      /\ t.strays = c.strays
  BY DEF OnlyOf, Fields
<1>3. PointerTrue(t, c.buttons) BY <1>1, PointerKept DEF Good
<1>4. PointerHeld(t, c.buttons) /\ DragsBoth(t) BY <1>1, GrabsKept DEF Good
<1>5. Counted(t, c.buttons) BY <1>1, CountedKept DEF Good
<1>6. Switching(t) /\ Binding(t, c.keys) BY <1>1, HeldKept DEF Good, Rest
<1>7. Focus(t) /\ Owner(t) BY <1>1, FocusKeptBy, OwnerKept DEF Good, Rest
<1>8. Layered(t) /\ Choice(t) BY <1>1, LayeredKept, ChoiceKept DEF Good, Rest
<1> QED BY <1>2, <1>3, <1>4, <1>5, <1>6, <1>7, <1>8 DEF Whole, Good, Rest

\* A client binds the keyboard.
LEMMA SeatGetKeyboardStep ==
  ASSUME IInv, NEW w \in Windows, SeatGetKeyboard(w)
  PROVE  IInv'
<1> DEFINE bs == seat.bound \cup {w}
           c == [seat EXCEPT !.bound = bs]
           e == [c EXCEPT !.entered = w, !.believes = c.keys, !.stale = FALSE]
<1>1. Shaped(seat) /\ KeyTrue(seat, seat.keys) BY DEF IInv, Whole, Good, Rest
<1>2. seat' = IF c.kfocus = w /\ c.window[w] # "closing" THEN e ELSE c
  BY DEF SeatGetKeyboard, Becomes
<1>3. bs \in SUBSET Windows BY <1>1, TypesAre
<1> HIDE DEF bs
<1>4. Rec(c) /\ OnlyOf(seat, c, {"bound"}) /\ c.bound = bs
  BY <1>1 DEF Shaped, Fields, OnlyOf, Rec
<1> HIDE DEF c
<1>5. Shaped(c)
  <2>1. c.bound \in Types.bound BY <1>3, <1>4, TypeOf
  <2> QED BY <2>1, <1>1, <1>4, ShapedAfter
<1>6. KeyTrue(c, seat.keys) BY <1>1, <1>4, KeyKept
<1>7. c.keys = seat.keys BY <1>4 DEF OnlyOf, Fields
<1>8. CASE c.kfocus = w /\ c.window[w] # "closing"
  <2>1. seat' = e BY <1>2, <1>8
  <2>2. /\ Rec(e) /\ OnlyOf(c, e, {"entered", "believes", "stale"})
        /\ e.entered = w /\ e.believes = c.keys /\ e.stale = FALSE
    BY <1>5 DEF Shaped, Fields, OnlyOf, Rec
  <2> HIDE DEF e
  <2>3. Shaped(e)
    <3>1. c.keys \in SUBSET Keys BY <1>5, TypesAre
    <3>2. /\ e.entered \in Types.entered /\ e.believes \in Types.believes
          /\ e.stale \in Types.stale
      BY <2>2, <3>1, TypeOf DEF Owners
    <3> QED BY <3>2, <1>5, <2>2, ShapedAfter
  <2>4. e.kfocus = c.kfocus BY <2>2 DEF OnlyOf, Fields
  <2>5. KeyTrue(e, seat.keys) BY <1>7, <1>8, <2>2, <2>4 DEF KeyTrue
  <2>6. OnlyOf(seat, e, {"bound", "entered", "believes", "stale"})
    BY <1>4, <2>2 DEF OnlyOf
  <2>7. Whole(e) BY <2>3, <2>5, <2>6, EnteredWhole DEF IInv
  <2> QED BY <2>1, <2>7 DEF IInv
<1>9. CASE ~(c.kfocus = w /\ c.window[w] # "closing")
  <2>1. seat' = c BY <1>2, <1>9
  <2>2. OnlyOf(seat, c, {"bound", "entered", "believes", "stale"})
    BY <1>4 DEF OnlyOf
  <2>3. Whole(c) BY <1>5, <1>6, <2>2, EnteredWhole DEF IInv
  <2> QED BY <2>1, <2>3 DEF IInv
<1> QED BY <1>8, <1>9

\* A client gives its keyboard back.
LEMMA KeyboardReleaseStep ==
  ASSUME IInv, NEW w \in Windows, KeyboardRelease(w)
  PROVE  IInv'
<1> DEFINE bs == seat.bound \ {w}
           c == [seat EXCEPT !.bound = bs]
           e == [c EXCEPT !.entered = None, !.believes = {}, !.stale = FALSE]
<1>1. Shaped(seat) /\ KeyTrue(seat, seat.keys) BY DEF IInv, Whole, Good, Rest
<1>2. seat' = IF c.entered = w THEN e ELSE c
  BY DEF KeyboardRelease, Becomes
<1>3. bs \in SUBSET Windows BY <1>1, TypesAre
<1> HIDE DEF bs
<1>4. Rec(c) /\ OnlyOf(seat, c, {"bound"}) /\ c.bound = bs
  BY <1>1 DEF Shaped, Fields, OnlyOf, Rec
<1> HIDE DEF c
<1>5. Shaped(c)
  <2>1. c.bound \in Types.bound BY <1>3, <1>4, TypeOf
  <2> QED BY <2>1, <1>1, <1>4, ShapedAfter
<1>6. KeyTrue(c, seat.keys) BY <1>1, <1>4, KeyKept
<1>7. CASE c.entered = w
  <2>1. seat' = e BY <1>2, <1>7
  <2>2. /\ Rec(e) /\ OnlyOf(c, e, {"entered", "believes", "stale"})
        /\ e.entered = None /\ e.believes = {} /\ e.stale = FALSE
    BY <1>5 DEF Shaped, Fields, OnlyOf, Rec
  <2> HIDE DEF e
  <2>3. Shaped(e)
    <3>1. /\ e.entered \in Types.entered /\ e.believes \in Types.believes
          /\ e.stale \in Types.stale
      BY <2>2, TypeOf DEF Owners
    <3> QED BY <3>1, <1>5, <2>2, ShapedAfter
  <2>4. KeyTrue(e, seat.keys) BY <2>2 DEF KeyTrue
  <2>5. OnlyOf(seat, e, {"bound", "entered", "believes", "stale"})
    BY <1>4, <2>2 DEF OnlyOf
  <2>6. Whole(e) BY <2>3, <2>4, <2>5, EnteredWhole DEF IInv
  <2> QED BY <2>1, <2>6 DEF IInv
<1>8. CASE c.entered # w
  <2>1. seat' = c BY <1>2, <1>8
  <2>2. OnlyOf(seat, c, {"bound", "entered", "believes", "stale"})
    BY <1>4 DEF OnlyOf
  <2>3. Whole(c) BY <1>5, <1>6, <2>2, EnteredWhole DEF IInv
  <2> QED BY <2>1, <2>3 DEF IInv
<1> QED BY <1>7, <1>8

\* A window is mapped and activated.
LEMMA MapStep ==
  ASSUME IInv, NEW w \in Windows, Map(w)
  PROVE  IInv'
<1> DEFINE window == [seat.window EXCEPT ![w] = "mapped"]
           c == [seat EXCEPT !.window = window]
           t == Activate(c, w)
           B == seat.buttons
           K == seat.keys
           fs == {"kfocus", "entered", "believes", "stale",
                  "keyboard_focus", "letGo", "layer"}
<1>1. Shaped(seat) /\ Good(seat, B, B, K) BY DEF IInv, Whole
<1>2. seat' = t
  <2>1. [seat EXCEPT !.window[w] = "mapped"] = c
    BY <1>1 DEF Shaped, Fields, Rec
  <2> HIDE DEF c
  <2> QED BY <2>1 DEF Map, Becomes
<1>3. /\ window \in [Windows -> Phases] /\ window[w] = "mapped"
      /\ \A x \in Windows : x # w => window[x] = seat.window[x]
  BY <1>1, TypesAre DEF Phases
<1> HIDE DEF window, t
<1>4. Rec(c) /\ OnlyOf(seat, c, {"window"}) /\ c.window = window
  BY <1>1 DEF Shaped, Fields, OnlyOf, Rec
<1> HIDE DEF c
<1>5. Shaped(c)
  <2>1. c.window \in Types.window BY <1>3, <1>4, TypeOf
  <2> QED BY <2>1, <1>1, <1>4, ShapedAfter
<1>6. /\ c.keys = K /\ c.layer = seat.layer /\ c.pfocus = seat.pfocus
      /\ c.pgrab = seat.pgrab /\ c.pressed = seat.pressed /\ c.current = seat.current
  BY <1>4 DEF OnlyOf, Fields
<1>7. KeyTrue(c, K) BY <1>1, <1>4, KeyKept DEF Good, Rest
<1>8. LayeredBut(c, w)
  <2>1. Range(c.layer) \subseteq Windows BY <1>5, TypesAre, EmptyList
  <2>2. Layered(seat) BY <1>1 DEF Good, Rest
  <2>3. \A x \in Range(c.layer) : c.window[x] # "none"
    <3> TAKE x \in Range(c.layer)
    <3>1. CASE x = w BY <3>1, <1>3, <1>4
    <3>2. CASE x # w BY <3>2, <2>1, <2>2, <1>3, <1>4, <1>6 DEF Layered
    <3> QED BY <3>1, <3>2
  <2> QED BY <2>2, <2>3, <1>3, <1>4, <1>6 DEF Layered, LayeredBut
<1>9. Choice(c)
  <2>1. CASE c.current = w BY <2>1, <1>3, <1>4 DEF Choice
  <2>2. CASE c.current # w BY <2>2, <1>1, <1>3, <1>4, <1>6 DEF Choice, Good, Rest
  <2> QED BY <2>1, <2>2
<1>10. PointerTrue(c, B)
  <2>1. seat.pfocus \in Owners BY <1>1, TypesAre
  <2>2. c.kept = seat.kept /\ c.moving = seat.moving
    BY <1>4 DEF OnlyOf, Fields
  <2>3. c.pfocus # None => Knows(c, B)
    BY <2>2, <1>1, <1>6 DEF PointerTrue, Knows, Good
  <2> QED BY <2>1, <2>2, <2>3, <1>1, <1>3, <1>4, <1>6 DEF PointerTrue, Good, Owners
<1>11. Switching(c) /\ Binding(c, K) BY <1>1, <1>4, HeldKept DEF Good, Rest
<1>12. c.window[w] # "none" BY <1>3, <1>4
<1>13. /\ Shaped(t) /\ OnlyOf(c, t, fs) /\ KeyTrue(t, K)
       /\ Focus(t) /\ Owner(t) /\ Layered(t) /\ Choice(t)
  BY <1>5, <1>6, <1>7, <1>8, <1>9, <1>12, ActivateRest DEF t
<1>14. PointerTrue(t, B) BY <1>10, <1>13, PointerKept
<1>15. Switching(t) /\ Binding(t, K) BY <1>11, <1>13, HeldKept
<1>16. OnlyOf(seat, t, fs \cup {"window"}) BY <1>4, <1>13 DEF OnlyOf
<1>17. PointerHeld(t, B) /\ DragsBoth(t) BY <1>1, <1>16, GrabsKept DEF Good
<1>18. Counted(t, B) BY <1>1, <1>16, CountedKept DEF Good
<1>19. /\ t.buttons = B /\ t.keys = K /\ t.repeats = seat.repeats
       /\ t.strays = seat.strays
  BY <1>16 DEF OnlyOf, Fields
<1>20. Whole(t)
  BY <1>13, <1>14, <1>15, <1>17, <1>18, <1>19 DEF Whole, Good, Rest, IInv
<1> QED BY <1>2, <1>20 DEF IInv

\* A step that leaves the keys, the buttons and the grabs alone.
LEMMA WholeAfter ==
  ASSUME NEW c, Whole(c), NEW t, Shaped(t), OnlyOf(c, t, Freed),
         PointerTrue(t, c.buttons), KeyTrue(t, c.keys),
         Focus(t), Owner(t), Layered(t), Choice(t)
  PROVE  Whole(t)
<1>1. Good(c, c.buttons, c.buttons, c.keys) BY DEF Whole
<1>2. /\ t.buttons = c.buttons /\ t.keys = c.keys /\ t.repeats = c.repeats
      /\ t.strays = c.strays /\ t.kgrab = c.kgrab /\ t.pgrab = c.pgrab
      /\ t.super = c.super /\ t.key = c.key
      /\ t.button_count = c.button_count /\ t.idle_inhibit = c.idle_inhibit
  BY DEF OnlyOf, Fields, Freed
<1>3. PointerHeld(t, c.buttons) /\ DragsBoth(t)
  BY <1>1, <1>2 DEF PointerHeld, DragsBoth, Good
<1>4. Counted(t, c.buttons) BY <1>1, <1>2 DEF Counted, Good
<1>5. Switching(t) /\ Binding(t, c.keys)
  BY <1>1, <1>2 DEF Switching, Binding, Good, Rest
<1> QED BY <1>2, <1>3, <1>4, <1>5 DEF Whole, Good, Rest

\* A window is unmapped.
LEMMA UnmapStep ==
  ASSUME IInv, NEW w \in Windows, Unmap(w)
  PROVE  IInv'
<1> DEFINE a == LeaveFoci(seat, w)
           window == [a.window EXCEPT ![w] = "unmapped"]
           l == Without(a.layer, w)
           t == [a EXCEPT !.window = window, !.layer = l]
           B == seat.buttons
<1>1. Shaped(seat) /\ Good(seat, B, B, seat.keys) BY DEF IInv, Whole
<1>2. /\ Shaped(a)
      /\ OnlyOf(seat, a, {"kfocus", "entered", "believes", "stale", "letGo",
                          "pfocus", "pressed", "kept"})
      /\ a.kfocus # w /\ a.pfocus # w /\ KeyTrue(a, seat.keys)
      /\ PointerTrue(a, B) /\ Focus(a) /\ Owner(a)
  BY <1>1, LeaveFociFacts DEF Good, Rest
<1>3. seat' = t
  <2> HIDE DEF a
  <2>1. [a EXCEPT !.window[w] = "unmapped", !.layer = Without(@, w)] = t
    BY <1>2 DEF Shaped, Fields, Rec
  <2> HIDE DEF t
  <2> QED BY <2>1 DEF Unmap, Becomes, a
<1> HIDE DEF a
<1>4. Layered(a) /\ Choice(a)
  BY <1>1, <1>2, LayeredKept, ChoiceKept DEF Good, Rest
<1>5. /\ Rec(t) /\ OnlyOf(a, t, {"window", "layer"})
      /\ t.window = [a.window EXCEPT ![w] = "unmapped"]
      /\ t.layer = Without(a.layer, w)
  <2> HIDE DEF window, l
  <2>1. /\ Rec(t) /\ OnlyOf(a, t, {"window", "layer"})
        /\ t.window = window /\ t.layer = l
    BY <1>2 DEF Shaped, Fields, OnlyOf, Rec
  <2> HIDE DEF t
  <2> QED BY <2>1 DEF window, l
<1> HIDE DEF t
<1>6. /\ Shaped(t) /\ PointerTrue(t, B) /\ Focus(t) /\ Owner(t) /\ Layered(t)
      /\ Choice(t)
  <2>1. "unmapped" \in {"unmapped", "none"} /\ "unmapped" # "none" OBVIOUS
  <2>2. OnlyOf(a, t, {"window", "layer", "grabbed", "moving"}) BY <1>5 DEF OnlyOf
  <2>3. t.moving = a.moving /\ t.grabbed = a.grabbed BY <1>5 DEF OnlyOf, Fields
  <2>4. t.grabbed \in SUBSET Windows BY <1>2, <2>3, TypesAre
  <2> QED BY <1>2, <1>4, <1>5, <2>1, <2>2, <2>3, <2>4, GoneFacts
<1>7. KeyTrue(t, seat.keys) BY <1>2, <1>5, KeyKept
<1>8. OnlyOf(seat, t, Freed) BY <1>2, <1>5 DEF OnlyOf, Freed
<1>9. Whole(t) BY <1>6, <1>7, <1>8, WholeAfter DEF IInv
<1> QED BY <1>3, <1>9 DEF IInv

\* A window that is destroyed at once.
LEMMA FreeStep ==
  ASSUME IInv, NEW w \in Windows, NEW c, Whole(c), seat' = Free(c, w)
  PROVE  IInv'
<1> DEFINE t == Free(c, w)
           B == c.buttons
<1>1. /\ Shaped(t) /\ OnlyOf(c, t, Freed) /\ Good(t, B, B, c.keys)
  BY FreeFacts DEF Whole
<1> HIDE DEF t
<1>2. Whole(t) BY <1>1, WholeAfter DEF Good, Rest
<1> QED BY <1>2 DEF IInv, t

\* A window is destroyed, at once or behind its fade.
LEMMA CloseStep ==
  ASSUME IInv, NEW w \in Windows, NEW fades \in BOOLEAN, Close(w, fades)
  PROVE  IInv'
<1> DEFINE a == LeaveFoci(seat, w)
           window == [a.window EXCEPT ![w] = "closing"]
           t == [a EXCEPT !.window = window]
           B == seat.buttons
<1>1. Shaped(seat) /\ Good(seat, B, B, seat.keys) BY DEF IInv, Whole
<1>2. /\ Shaped(a)
      /\ OnlyOf(seat, a, {"kfocus", "entered", "believes", "stale", "letGo",
                          "pfocus", "pressed", "kept"})
      /\ a.kfocus # w /\ a.pfocus # w /\ KeyTrue(a, seat.keys)
      /\ PointerTrue(a, B) /\ Focus(a) /\ Owner(a)
  BY <1>1, LeaveFociFacts DEF Good, Rest
<1>3. seat' = IF fades /\ seat.window[w] = "mapped" THEN t ELSE Free(a, w)
  <2>1. seat' = IF fades /\ seat.window[w] = "mapped"
                THEN [a EXCEPT !.window[w] = "closing"] ELSE Free(a, w)
    BY DEF Close, Becomes
  <2> HIDE DEF a
  <2>2. [a EXCEPT !.window[w] = "closing"] = t
    BY <1>2 DEF Shaped, Fields, Rec
  <2> HIDE DEF t
  <2> QED BY <2>1, <2>2
<1> HIDE DEF a
<1>4. Layered(a) /\ Choice(a)
  BY <1>1, <1>2, LayeredKept, ChoiceKept DEF Good, Rest
<1>5. Whole(a)
  <2>1. OnlyOf(seat, a, Freed) BY <1>2 DEF OnlyOf, Freed
  <2> QED BY <1>2, <1>4, <2>1, WholeAfter DEF IInv
<1>6. CASE fades /\ seat.window[w] = "mapped"
  <2>1. seat' = t BY <1>3, <1>6
  <2>2. /\ window \in [Windows -> Phases] /\ window[w] = "closing"
        /\ \A x \in Windows : x # w => window[x] = a.window[x]
    BY <1>2, TypesAre DEF Phases
  <2> HIDE DEF window
  <2>3. Rec(t) /\ OnlyOf(a, t, {"window"}) /\ t.window = window
    BY <1>2 DEF Shaped, Fields, OnlyOf, Rec
  <2> HIDE DEF t
  <2>4. Shaped(t)
    <3>1. t.window \in Types.window BY <2>2, <2>3, TypeOf
    <3> QED BY <3>1, <1>2, <2>3, ShapedAfter
  <2>5. /\ t.pfocus = a.pfocus /\ t.pgrab = a.pgrab /\ t.pressed = a.pressed
        /\ t.kfocus = a.kfocus /\ t.keyboard_focus = a.keyboard_focus
        /\ t.letGo = a.letGo /\ t.kgrab = a.kgrab /\ t.current = a.current
        /\ t.layer = a.layer
    BY <2>3 DEF OnlyOf, Fields
  <2>6. /\ a.pfocus \in Owners /\ a.kfocus \in Owners /\ a.layer \in Seq(Windows)
    BY <1>2, TypesAre
  <2>7. PointerTrue(t, B)
    <3>1. t.kept = a.kept /\ t.moving = a.moving BY <2>3 DEF OnlyOf, Fields
    <3>2. t.pfocus # None => Knows(t, B)
      BY <1>2, <2>5, <3>1 DEF PointerTrue, Knows
    <3> QED BY <1>2, <2>2, <2>3, <2>5, <2>6, <3>1, <3>2 DEF PointerTrue, Owners
  <2>8. Focus(t) BY <1>2, <2>2, <2>3, <2>5, <2>6 DEF Focus, Owners
  <2>9. Owner(t)
    <3>1. Ownerless(t) => Ownerless(a) BY <2>5 DEF Ownerless
    <3> QED BY <1>2, <2>2, <2>3, <3>1 DEF Owner
  <2>10. Layered(t)
    <3>1. Range(a.layer) \subseteq Windows BY <2>6, EmptyList
    <3>2. \A x \in Range(a.layer) : window[x] # "none"
      <4> TAKE x \in Range(a.layer)
      <4>1. CASE x = w BY <4>1, <2>2
      <4>2. CASE x # w BY <4>2, <1>4, <2>2, <3>1 DEF Layered
      <4> QED BY <4>1, <4>2
    <3>3. \A x \in Windows : window[x] = "mapped" => x \in Range(a.layer)
      <4> TAKE x \in Windows
      <4>1. CASE x = w BY <4>1, <2>2
      <4>2. CASE x # w BY <4>2, <1>4, <2>2 DEF Layered
      <4> QED BY <4>1, <4>2
    <3> QED BY <1>4, <2>3, <2>5, <3>2, <3>3 DEF Layered
  <2>11. Choice(t)
    <3>1. CASE a.current = w BY <3>1, <2>2, <2>3, <2>5 DEF Choice
    <3>2. CASE a.current # w BY <3>2, <1>4, <2>2, <2>3, <2>5 DEF Choice
    <3> QED BY <3>1, <3>2
  <2>12. KeyTrue(t, seat.keys) BY <1>2, <2>3, KeyKept
  <2>13. OnlyOf(seat, t, Freed) BY <1>2, <2>3 DEF OnlyOf, Freed
  <2>14. Whole(t)
    BY <2>4, <2>7, <2>8, <2>9, <2>10, <2>11, <2>12, <2>13, WholeAfter DEF IInv
  <2> QED BY <2>1, <2>14 DEF IInv
<1>7. CASE ~(fades /\ seat.window[w] = "mapped")
  <2>1. seat' = Free(a, w) BY <1>3, <1>7
  <2> QED BY <2>1, <1>5, FreeStep
<1> QED BY <1>6, <1>7

\* A window's fade ends.
LEMMA FadeOutDoneStep ==
  ASSUME IInv, NEW w \in Windows, FadeOutDone(w)
  PROVE  IInv'
<1>1. seat' = Free(seat, w) BY DEF FadeOutDone, Becomes
<1> QED BY <1>1, FreeStep DEF IInv

\* A client asks to be moved by the pointer.
LEMMA ClientMoveStep ==
  ASSUME IInv, ClientMove
  PROVE  IInv'
<1> DEFINE t == MoveOrResize(seat)
           B == seat.buttons
<1>1. Shaped(seat) /\ Good(seat, B, B, seat.keys) BY DEF IInv, Whole
<1>2. seat' = t /\ seat.pfocus # None /\ seat.button_count > 0
  BY DEF ClientMove, Becomes
<1>3. B # {}
  <2>1. B = {} => seat.button_count = 0 BY <1>1, FS_EmptySet DEF Good, Counted
  <2> QED BY <1>2, <2>1
<1>4. /\ Shaped(t) /\ OnlyOf(seat, t, Moved) /\ Good(t, B, B, seat.keys)
  BY <1>1, <1>2, <1>3, MoveOrResizeFacts
<1> HIDE DEF t
<1>5. /\ t.buttons = B /\ t.keys = seat.keys /\ t.repeats = seat.repeats
      /\ t.strays = seat.strays
  BY <1>4 DEF OnlyOf, Fields, Moved
<1>6. Whole(t) BY <1>4, <1>5 DEF Whole, IInv
<1> QED BY <1>2, <1>6 DEF IInv

\* A client starts a drag.
LEMMA StartDragStep ==
  ASSUME IInv, StartDrag
  PROVE  IInv'
<1> DEFINE a == ClearPointerFocus(seat)
           c == SetKeyboardFocus(a, None)
           t == [c EXCEPT !.pgrab = "drag", !.moving = None,
                          !.kgrab = "drag", !.key = "none",
                          !.current = None, !.letGo = TRUE]
           B == seat.buttons
           K == seat.keys
           fs == {"pgrab", "moving", "kgrab", "key", "current", "letGo"}
<1>1. Shaped(seat) /\ Good(seat, B, B, K) BY DEF IInv, Whole
<1>2. seat' = t /\ seat.button_count = 1 BY DEF StartDrag, Becomes
<1>3. /\ Shaped(a) /\ OnlyOf(seat, a, {"pfocus", "pressed", "kept"}) /\ a.pfocus = None
  BY <1>1, ClearPointerFocusFacts
<1> HIDE DEF a
<1>4. KeyTrue(a, K) BY <1>1, <1>3, KeyKept DEF Good, Rest
<1>5. /\ Shaped(c) /\ OnlyOf(a, c, {"kfocus", "entered", "believes", "stale"})
      /\ c.kfocus = None /\ c.entered = None
  BY <1>3, <1>4, SetKeyboardFocusFacts DEF Owners
<1> HIDE DEF c
<1>6. /\ Rec(t) /\ OnlyOf(c, t, fs)
      /\ t.pgrab = "drag" /\ t.moving = None /\ t.kgrab = "drag" /\ t.key = "none"
      /\ t.current = None /\ t.letGo = TRUE
  BY <1>5 DEF Shaped, Fields, OnlyOf, Rec
<1> HIDE DEF t
<1>7. Shaped(t)
  <2>1. /\ t.pgrab \in Types.pgrab /\ t.kgrab \in Types.kgrab
        /\ t.key \in Types.key /\ t.current \in Types.current
        /\ t.letGo \in Types.letGo /\ t.moving \in Types.moving
    BY <1>6, TypeOf DEF Owners
  <2> QED BY <2>1, <1>5, <1>6, ShapedAfter
<1> DEFINE ts == fs \cup {"pfocus", "pressed", "kept", "kfocus", "entered", "believes", "stale"}
<1>8. OnlyOf(seat, t, ts) BY <1>3, <1>5, <1>6 DEF OnlyOf
<1>9. t.pfocus = None /\ t.kfocus = None /\ t.entered = None
  BY <1>3, <1>5, <1>6 DEF OnlyOf, Fields
<1>10. PointerTrue(t, B) /\ KeyTrue(t, K) /\ Focus(t)
  BY <1>9 DEF PointerTrue, KeyTrue, Focus
<1>11. PointerHeld(t, B)
  <2>1. B = {} => seat.button_count = 0 BY <1>1, FS_EmptySet DEF Good, Counted
  <2> QED BY <1>2, <2>1 DEF PointerHeld
<1>12. DragsBoth(t) /\ Switching(t) /\ Binding(t, K)
  BY <1>6 DEF DragsBoth, Switching, Binding
<1>13. Owner(t) BY <1>6 DEF Owner, Ownerless
<1>14. Layered(t) BY <1>1, <1>8, LayeredKept DEF Good, Rest
<1>15. Choice(t) BY <1>6, SeatAssumption DEF Choice
<1>16. Counted(t, B) BY <1>1, <1>8, CountedKept DEF Good
<1>17. /\ t.buttons = B /\ t.keys = K /\ t.repeats = seat.repeats
       /\ t.strays = seat.strays
  BY <1>8 DEF OnlyOf, Fields
<1>18. Whole(t)
  BY <1>7, <1>10, <1>11, <1>12, <1>13, <1>14, <1>15, <1>16, <1>17
     DEF Whole, Good, Rest, IInv
<1> QED BY <1>2, <1>18 DEF IInv

\* The source of the drag is destroyed.
LEMMA DragSourceDestroyedStep ==
  ASSUME IInv, NEW w \in Pickable, DragSourceDestroyed(w)
  PROVE  IInv'
<1> DEFINE t == EndDrag(seat, w)
           B == seat.buttons
           fs == {"pgrab", "pfocus", "pressed", "kept", "kgrab"}
<1>1. Shaped(seat) /\ Good(seat, B, B, seat.keys) BY DEF IInv, Whole
<1>2. seat' = t /\ seat.pgrab = "drag" BY DEF DragSourceDestroyed, Becomes
<1>3. MayPick(seat, w) BY PickableFacts
<1>4. seat.button_count = 0 => B = {}
  BY <1>1, ButtonsFinite, FS_EmptySet DEF Good, Counted
<1>5. /\ Shaped(t) /\ OnlyOf(seat, t, fs)
      /\ t.pgrab = "default" /\ t.kgrab = "default" /\ PointerTrue(t, B)
  BY <1>1, <1>2, <1>3, <1>4, EndDragFacts DEF Good
<1> HIDE DEF t
<1>6. seat.kgrab = "drag" BY <1>1, <1>2 DEF Good, DragsBoth
<1>7. Rest(t, seat.keys) BY <1>1, <1>5, <1>6, DragRest DEF Good
<1>8. PointerHeld(t, B) /\ DragsBoth(t) BY <1>5 DEF PointerHeld, DragsBoth
<1>9. Counted(t, B) BY <1>1, <1>5, CountedKept DEF Good
<1>10. /\ t.buttons = B /\ t.keys = seat.keys /\ t.repeats = seat.repeats
       /\ t.strays = seat.strays
  BY <1>5 DEF OnlyOf, Fields
<1>11. Whole(t) BY <1>5, <1>7, <1>8, <1>9, <1>10 DEF Whole, Good, IInv
<1> QED BY <1>2, <1>11 DEF IInv

\* Every behaviour keeps the invariant.
LEMMA Invariance ==
  Spec => []IInv
<1>1. Init => IInv BY InitWhole
<1>2. IInv /\ [Next]_seat => IInv'
  <2> SUFFICES ASSUME IInv, [Next]_seat PROVE IInv' OBVIOUS
  <2>1. ASSUME NEW state \in SUBSET Buttons, NEW w \in Pickable, Mouse(state, w)
        PROVE  IInv'
    BY <2>1, MouseStep
  <2>01. CASE HelperBinds BY <2>01, HelperStep DEF HelperBinds, Becomes
  <2>02. CASE HelperGone BY <2>02, HelperStep DEF HelperGone, Becomes
  <2>2. ASSUME NEW w \in Pickable, Repick(w) PROVE IInv' BY <2>2, RepickStep
  <2>3. ASSUME NEW k \in Keys, NEW press \in BOOLEAN, PushScanFrag(k, press)
        PROVE  IInv'
    BY <2>3, PushScanFragStep
  <2>4. ASSUME NEW w \in Windows, SeatGetKeyboard(w) PROVE IInv'
    BY <2>4, SeatGetKeyboardStep
  <2>5. ASSUME NEW w \in Windows, KeyboardRelease(w) PROVE IInv'
    BY <2>5, KeyboardReleaseStep
  <2>6. ASSUME NEW w \in Windows, Map(w) PROVE IInv' BY <2>6, MapStep
  <2>7. ASSUME NEW w \in Windows, Unmap(w) PROVE IInv' BY <2>7, UnmapStep
  <2>8. ASSUME NEW w \in Windows, NEW fades \in BOOLEAN, Close(w, fades)
        PROVE  IInv'
    BY <2>8, CloseStep
  <2>9. ASSUME NEW w \in Windows, FadeOutDone(w) PROVE IInv'
    BY <2>9, FadeOutDoneStep
  <2>10. CASE ClientMove BY <2>10, ClientMoveStep
  <2>11. CASE StartDrag BY <2>11, StartDragStep
  <2>12. ASSUME NEW w \in Pickable, DragSourceDestroyed(w) PROVE IInv'
    BY <2>12, DragSourceDestroyedStep
  <2>13. CASE UNCHANGED seat BY <2>13 DEF IInv
  <2>14. CASE Aborted BY <2>13, <2>14 DEF Aborted
  <2> QED BY <2>1, <2>01, <2>02, <2>2, <2>3, <2>4, <2>5, <2>6, <2>7, <2>8, <2>9, <2>10,
             <2>11, <2>12, <2>13, <2>14 DEF Next
<1> QED BY <1>1, <1>2, PTL DEF Spec

-----------------------------------------------------------------------------
(* The theorems.                                                           *)

\* However windows are mapped, unmapped, closed and switched between, the
\* window with the keyboard exists and is the one the shell holds for
\* activated, and while windows are mapped one has it unless it was let go
\* (weston_surface_unmap, focus_state_surface_destroy, the switcher).
THEOREM FocusTheorem == Spec => []FocusKept
<1>1. IInv => FocusKept
  <2> SUFFICES ASSUME IInv PROVE FocusKept OBVIOUS
  <2>1. TypeOK BY TypeCorrect DEF IInv
  <2>2. Shaped(seat) /\ Focus(seat) /\ Owner(seat)
    BY DEF IInv, Whole, Good, Rest
  <2>3. FocusAgrees BY <2>2 DEF FocusAgrees, Focus
  <2>4. KeyboardHasOwner
    <3>1. seat.letGo \in BOOLEAN BY <2>2, TypesAre
    <3> QED BY <2>2, <3>1 DEF KeyboardHasOwner, Owner, Ownerless
  <2> QED BY <2>1, <2>3, <2>4 DEF FocusKept
<1> QED BY <1>1, Invariance, PTL

\* The count that keeps the compositor awake is that of the keys and buttons
\* held, but for the repeats and the releases of no key that it counted too
\* (notify_key, notify_button).
THEOREM IdleTheorem == Spec => []IdleInhibitExact
<1>1. IInv => IdleInhibitExact
  BY DEF IInv, Whole, Good, Counted, IdleInhibitExact
<1> QED BY <1>1, Invariance, PTL

\* Whatever grabs and helper clients come and go, the client of the pointer knows
\* the buttons that are held and that of the keyboard the keys, unless a grab kept
\* one from it (a shell grab begun without a helper, a switch, a drag).
THEOREM ClientsTheorem == Spec => []ClientsTold
<1>1. IInv => ClientsTold
  <2> SUFFICES ASSUME IInv PROVE ClientsTold OBVIOUS
  <2>1. PointerTrue(seat, seat.buttons) /\ KeyTrue(seat, seat.keys)
    BY DEF IInv, Whole, Good, Rest
  <2>2. PointerClientTrue BY <2>1 DEF PointerTrue, Knows, PointerClientTrue
  <2>3. KeyboardClientTrue BY <2>1 DEF KeyTrue, KeyboardClientTrue
  <2> QED BY <2>2, <2>3 DEF ClientsTold
<1> QED BY <1>1, Invariance, PTL

\* No grab outlives the button, the key or the modifier that holds it, and a
\* drag has both grabs or none.
THEOREM GrabsTheorem == Spec => []GrabsEnd
<1>1. IInv => GrabsEnd
  <2> SUFFICES ASSUME IInv PROVE GrabsEnd OBVIOUS
  <2>1. /\ Switching(seat) /\ Binding(seat, seat.keys) /\ DragsBoth(seat)
        /\ PointerHeld(seat, seat.buttons)
    BY DEF IInv, Whole, Good, Rest
  <2> QED BY <2>1 DEF Switching, Binding, DragsBoth, PointerHeld, GrabsEnd
<1> QED BY <1>1, Invariance, PTL
=============================================================================
