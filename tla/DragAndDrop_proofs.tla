-------------------------- MODULE DragAndDrop_proofs --------------------------
(***************************************************************************)
(* What TLAPS proves of DragAndDrop, for any number of clients, sources    *)
(* and offers: its safety properties.  The functions of data-device.c on   *)
(* the record "d" have lemmas that say what they change.                   *)
(***************************************************************************)
EXTENDS DragAndDrop, TLAPS

Fields == {"new", "device", "window", "source", "offer", "kind", "drag", "focus",
           "resource", "held", "other", "again", "crashed", "seen"}

\* The record "d" is one, and its fields have their types.
Shaped(c) ==
  /\ DOMAIN c = Fields
  /\ c.new \in SUBSET Clients /\ c.device \in SUBSET Clients
  /\ c.window \in SUBSET Clients
  /\ c.source \in [Sources -> Source] /\ c.offer \in [Offers -> Offer]
  /\ c.kind \in {"none", "pointer", "touch"} /\ c.drag \in Sources \cup {None}
  /\ c.focus \in Clients \cup {None, Freed}
  /\ c.resource \in Clients \cup {None} /\ c.held \in BOOLEAN /\ c.other \in BOOLEAN
  /\ c.again \in BOOLEAN /\ c.crashed \in BOOLEAN /\ c.seen \in SUBSET Odd

\* Only the fields fs change from c to e.
OnlyOf(c, e, fs) == \A f \in Fields \ fs : e[f] = c[f]

Performed(src) == "drop_performed" \in src.heard

\* Who points to whom
Links(c) ==
  /\ \A s \in Sources : LET o == c.source[s].offer
                        IN o # None => /\ c.source[s].life = "live"
                                       /\ c.offer[o].live /\ c.offer[o].source = s
  /\ \A o \in Offers : ~c.offer[o].live => c.offer[o] = NoOffer
  /\ \A o \in Offers : c.offer[o].source # None =>
                         c.source[c.offer[o].source].life = "live"
  /\ c.drag # None => c.source[c.drag].life = "live"

\* The focus_resource is alive, and of the window under the device unless the
\* window of that client was destroyed.
AtFocus(c) ==
  c.resource \in c.device /\ (c.focus = c.resource \/ c.resource \notin c.window)

\* Where the drag is
Place(c) ==
  /\ c.kind = "none" => /\ c.drag = None /\ c.resource = None /\ c.focus = None
                        /\ ~c.held /\ ~c.other
  /\ c.kind # "none" => c.drag # None \/ c.crashed
  /\ c.resource # None => c.focus # None /\ AtFocus(c)
  /\ c.other => "second button" \in c.seen
  /\ c.resource # None /\ c.drag # None =>
       LET o == c.source[c.drag].offer IN o # None => c.offer[o].client = c.resource

\* A source that was never dragged has no offer and heard nothing.
Born(c, s) ==
  LET src == c.source[s] IN
  ~src.seat /\ ~Performed(src) => src.offer = None /\ src.heard = {}

\* What else one source knows of its own life
Life(c, s) ==
  LET src == c.source[s] IN
  /\ Performed(src) => src.set
  /\ ~src.set => src.action = None /\ src.told = None /\ src.actions = {}
  /\ src.set => src.owner \in c.new
  /\ src.accepted /\ src.offer # None => c.offer[src.offer].took
  /\ "dnd_finished" \in src.heard /\ c.new = Clients => Performed(src)

\* What is so of the source that is dragged, until something odd happens
Calm(c) ==
  LET src == c.source[c.drag] IN
  c.drag # None =>
    /\ src.seat \/ Performed(src)
    /\ "second button" \notin c.seen => src.seat /\ ~Performed(src)
    /\ c.seen = {} => /\ src.heard \cap {"dnd_finished", "cancelled"} = {}
                      /\ c.resource # None => src.offer # None
                      /\ src.offer # None => c.focus # None

\* Both ends know the action, until a second button keeps a drag going.
Agree(c, s) ==
  LET src == c.source[s] IN
  /\ src.set /\ ~Performed(src) => src.told = src.action
  /\ \A o \in Offers : c.offer[o].source = s /\ src.offer # o =>
                         Performed(src) /\ src.offer = None
  /\ src.set /\ src.offer # None =>
       LET off == c.offer[src.offer] IN
       /\ off.in_ask => Performed(src)
       /\ ~off.in_ask =>
            /\ src.told = src.action /\ src.action \in src.actions \cup {None}
            /\ off.client \in c.new =>
                 off.told = src.action /\ src.action \in off.actions \cup {None}

\* What always holds, what the end of a drag leaves, and what also holds while
\* it goes on.
Loose(c) ==
  /\ Shaped(c) /\ Links(c) /\ \A s \in Sources : Life(c, s)
  /\ "second button" \notin c.seen => \A s \in Sources : Agree(c, s)
  /\ c.crashed => c.seen # {}
Core(c) == Loose(c) /\ \A s \in Sources : Born(c, s)
Full(c) == Core(c) /\ Place(c) /\ Calm(c)

IInv == Full(d)

-----------------------------------------------------------------------------
(* Changing one source, one offer, or fields of the drag.                  *)

SourceFields == {"life", "owner", "offer", "accepted", "seat", "set", "actions",
                 "action", "compositor", "told", "heard"}
OfferFields == {"live", "client", "source", "in_ask", "actions", "preferred",
                "told", "took"}

\* Only the fields fs change from one source or offer to another.
SrcBut(r, q, fs) == \A f \in SourceFields \ fs : q[f] = r[f]
OffBut(r, q, fs) == \A f \in OfferFields \ fs : q[f] = r[f]

Events == {"drop_performed", "dnd_finished", "cancelled"}

LEMMA SomeClientIs == SomeClient \in Clients
  BY DragAssumption DEF SomeClient

LEMMA SourceTypes ==
  ASSUME NEW r \in Source
  PROVE  /\ DOMAIN r = SourceFields
         /\ r.life \in {"unborn", "live", "gone"} /\ r.owner \in Clients
         /\ r.offer \in Offers \cup {None}
         /\ r.accepted \in BOOLEAN /\ r.seat \in BOOLEAN /\ r.set \in BOOLEAN
         /\ r.actions \in SUBSET Actions /\ r.action \in Actions \cup {None}
         /\ r.compositor \in {"copy", None} /\ r.told \in Actions \cup {None}
         /\ r.heard \in SUBSET Events
  BY DEF Source, SourceFields, Events

LEMMA OfferTypes ==
  ASSUME NEW r \in Offer
  PROVE  /\ DOMAIN r = OfferFields
         /\ r.live \in BOOLEAN /\ r.client \in Clients
         /\ r.source \in Sources \cup {None} /\ r.in_ask \in BOOLEAN
         /\ r.actions \in SUBSET Actions /\ r.preferred \in Actions \cup {None}
         /\ r.told \in Actions \cup {None} /\ r.took \in BOOLEAN
  BY DEF Offer, OfferFields

LEMMA NoOfferIs ==
  /\ NoOffer \in Offer /\ ~NoOffer.live /\ NoOffer.source = None
  BY SomeClientIs DEF NoOffer, Offer

LEMMA NewSourceIs ==
  ASSUME NEW c \in Clients
  PROVE  /\ NewSource(c) \in Source
         /\ NewSource(c).life = "live" /\ NewSource(c).owner = c
         /\ NewSource(c).offer = None /\ NewSource(c).accepted = FALSE
         /\ NewSource(c).seat = FALSE /\ NewSource(c).set = FALSE
         /\ NewSource(c).actions = {} /\ NewSource(c).action = None
         /\ NewSource(c).told = None /\ NewSource(c).heard = {}
<1>1. /\ "live" \in {"unborn", "live", "gone"} /\ None \in Offers \cup {None}
      /\ FALSE \in BOOLEAN /\ {} \in SUBSET Actions
      /\ None \in Actions \cup {None} /\ None \in {"copy", None}
      /\ {} \in SUBSET {"drop_performed", "dnd_finished", "cancelled"}
  OBVIOUS
<1>2. NewSource(c) \in Source BY <1>1, Zenon DEF NewSource, Source
<1> QED BY <1>2 DEF NewSource

\* What only differs in the fields of the drag.
LEMMA FlatFacts ==
  ASSUME NEW c, Shaped(c), NEW e, DOMAIN e = Fields, e.source = c.source,
         e.offer = c.offer, e.new = c.new
  PROVE  /\ Links(c) /\ (e.drag = None \/ e.drag = c.drag) => Links(e)
         /\ \A s \in Sources : Life(c, s) => Life(e, s)
         /\ \A s \in Sources : Born(c, s) => Born(e, s)
         /\ \A s \in Sources : Agree(c, s) => Agree(e, s)
<1>1. Links(c) /\ (e.drag = None \/ e.drag = c.drag) => Links(e)
  BY DEF Links
<1>2. \A s \in Sources : Life(c, s) => Life(e, s) BY DEF Life
<1>4. \A s \in Sources : Born(c, s) => Born(e, s) BY DEF Born
<1>3. \A s \in Sources : Agree(c, s) => Agree(e, s) BY DEF Agree
<1> QED BY <1>1, <1>2, <1>3, <1>4

LEMMA PutSource ==
  ASSUME NEW c, Shaped(c), NEW s \in Sources, NEW r \in Source
  PROVE  LET e == [c EXCEPT !.source[s] = r] IN
         /\ Shaped(e) /\ OnlyOf(c, e, {"source"}) /\ e.source[s] = r
         /\ \A x \in Sources \ {s} : e.source[x] = c.source[x]
<1> DEFINE tab == [c.source EXCEPT ![s] = r]
           e == [c EXCEPT !.source = tab]
<1>1. /\ tab \in [Sources -> Source] /\ tab[s] = r
      /\ \A x \in Sources \ {s} : tab[x] = c.source[x]
  BY DEF Shaped
<1> HIDE DEF tab
<1>2. DOMAIN e = Fields BY DEF Shaped
<1>3. e.source = tab BY DEF Shaped, Fields
<1>4. \A f \in Fields \ {"source"} : e[f] = c[f] BY DEF Shaped, Fields
<1> HIDE DEF e
<1>5. /\ e.new = c.new /\ e.device = c.device /\ e.window = c.window
      /\ e.offer = c.offer /\ e.kind = c.kind /\ e.drag = c.drag
      /\ e.focus = c.focus /\ e.resource = c.resource /\ e.held = c.held
      /\ e.other = c.other /\ e.again = c.again /\ e.crashed = c.crashed
      /\ e.seen = c.seen
  BY <1>4 DEF Fields
<1>6. Shaped(e) BY <1>1, <1>2, <1>3, <1>5 DEF Shaped
<1> QED BY <1>1, <1>3, <1>4, <1>6 DEF e, tab, OnlyOf

LEMMA PutOffer ==
  ASSUME NEW c, Shaped(c), NEW o \in Offers, NEW r \in Offer
  PROVE  LET e == [c EXCEPT !.offer[o] = r] IN
         /\ Shaped(e) /\ OnlyOf(c, e, {"offer"}) /\ e.offer[o] = r
         /\ \A x \in Offers \ {o} : e.offer[x] = c.offer[x]
<1> DEFINE tab == [c.offer EXCEPT ![o] = r]
           e == [c EXCEPT !.offer = tab]
<1>1. /\ tab \in [Offers -> Offer] /\ tab[o] = r
      /\ \A x \in Offers \ {o} : tab[x] = c.offer[x]
  BY DEF Shaped
<1> HIDE DEF tab
<1>2. DOMAIN e = Fields BY DEF Shaped
<1>3. e.offer = tab BY DEF Shaped, Fields
<1>4. \A f \in Fields \ {"offer"} : e[f] = c[f] BY DEF Shaped, Fields
<1> HIDE DEF e
<1>5. /\ e.new = c.new /\ e.device = c.device /\ e.window = c.window
      /\ e.source = c.source /\ e.kind = c.kind /\ e.drag = c.drag
      /\ e.focus = c.focus /\ e.resource = c.resource /\ e.held = c.held
      /\ e.other = c.other /\ e.again = c.again /\ e.crashed = c.crashed
      /\ e.seen = c.seen
  BY <1>4 DEF Fields
<1>6. Shaped(e) BY <1>1, <1>2, <1>3, <1>5 DEF Shaped
<1> QED BY <1>1, <1>3, <1>4, <1>6 DEF e, tab, OnlyOf

\* What the two may not touch
LEMMA OnlyTablesFacts ==
  ASSUME NEW c, NEW e, OnlyOf(c, e, {"source", "offer"})
  PROVE  /\ e.new = c.new /\ e.device = c.device /\ e.window = c.window
         /\ e.kind = c.kind /\ e.drag = c.drag /\ e.focus = c.focus
         /\ e.resource = c.resource /\ e.held = c.held /\ e.other = c.other
         /\ e.again = c.again /\ e.crashed = c.crashed /\ e.seen = c.seen
  BY DEF OnlyOf, Fields

-----------------------------------------------------------------------------
(* The negotiation: data_offer_choose_action, data_offer_update_action.    *)

\* What is chosen is what both offer, or nothing.
LEMMA ChooseFacts ==
  ASSUME NEW c, Shaped(c), NEW o \in Offers, c.offer[o].source # None
  PROVE  LET a == ChooseAction(c, o)  src == c.source[c.offer[o].source] IN
         /\ a \in Actions \cup {None}
         /\ src.owner \in c.new => a \in src.actions \cup {None}
         /\ c.offer[o].client \in c.new => a \in c.offer[o].actions \cup {None}
<1> DEFINE a == ChooseAction(c, o)
           off == c.offer[o]
           s == c.source[off.source]
           target == IF off.client \in c.new THEN off.actions ELSE {"copy"}
           preferred == IF off.client \in c.new THEN off.preferred ELSE None
           available == target \cap (IF s.owner \in c.new THEN s.actions ELSE {"copy"})
<1>1. off \in Offer /\ s \in Source
  <2>1. off \in Offer BY DEF Shaped
  <2>2. off.source \in Sources BY <2>1, OfferTypes
  <2> QED BY <2>1, <2>2 DEF Shaped
<1>2. available \subseteq {"copy", "ask"}
  <2>1. off.actions \subseteq {"copy", "ask"} BY <1>1, OfferTypes DEF Actions
  <2> QED BY <2>1
<1>3. a = CASE available = {} -> None
            [] s.seat /\ s.compositor \in available -> s.compositor
            [] ~(s.seat /\ s.compositor \in available)
                 /\ preferred \in available -> preferred
            [] OTHER -> IF "copy" \in available THEN "copy" ELSE "ask"
  BY DEF ChooseAction
<1>4. a \in available \cup {None}
  <2> HIDE DEF available, preferred, a
  <2>1. CASE available = {} BY <1>3, <2>1
  <2>2. CASE available # {}
    <3>1. CASE s.seat /\ s.compositor \in available BY <1>3, <2>2, <3>1
    <3>2. CASE ~(s.seat /\ s.compositor \in available)
      <4>1. CASE preferred \in available BY <1>3, <2>2, <3>2, <4>1
      <4>2. CASE preferred \notin available
        <5>1. a = IF "copy" \in available THEN "copy" ELSE "ask"
          BY <1>3, <2>2, <3>2, <4>2
        <5> QED BY <1>2, <2>2, <5>1
      <4> QED BY <4>1, <4>2
    <3> QED BY <3>1, <3>2
  <2> QED BY <2>1, <2>2
<1>5. /\ s.owner \in c.new => available \subseteq s.actions
      /\ off.client \in c.new => available \subseteq off.actions
  OBVIOUS
<1> HIDE DEF available, a
<1> QED BY <1>2, <1>4, <1>5 DEF Actions, a

LEMMA UpdateFacts ==
  ASSUME NEW c, Shaped(c), NEW o \in Offers, c.offer[o].source # None
  PROVE  LET s == c.offer[o].source
             e == UpdateAction(c, o)
             a == ChooseAction(c, o) IN
         /\ s \in Sources
         /\ Shaped(e) /\ OnlyOf(c, e, {"source", "offer"})
         /\ \A x \in Sources \ {s} : e.source[x] = c.source[x]
         /\ \A x \in Offers \ {o} : e.offer[x] = c.offer[x]
         /\ SrcBut(c.source[s], e.source[s], {"action", "told"})
         /\ OffBut(c.offer[o], e.offer[o], {"told"})
         /\ ~c.source[s].set => e = c
         /\ c.source[s].set => e.source[s].action = a
         /\ c.source[s].set /\ c.source[s].owner \in c.new /\ ~c.offer[o].in_ask
              /\ c.source[s].told = c.source[s].action => e.source[s].told = a
         /\ c.source[s].set /\ c.offer[o].client \in c.new /\ ~c.offer[o].in_ask =>
              e.offer[o].told = IF c.source[s].action = a THEN c.offer[o].told ELSE a
<1> DEFINE s == c.offer[o].source
           e == UpdateAction(c, o)
           a == ChooseAction(c, o)
           r == [c.source[s] EXCEPT !.action = a]
           u == [c EXCEPT !.source[s] = r]
<1>0. c.offer[o] \in Offer BY DEF Shaped
<1>01. s \in Sources BY <1>0, OfferTypes
<1>1. c.source[s] \in Source /\ c.offer[o] \in Offer BY <1>0, <1>01 DEF Shaped
<1>2. a \in Actions \cup {None} BY ChooseFacts
<1> HIDE DEF a
<1>3. CASE ~c.source[s].set \/ c.source[s].action = a
  <2>1. e = c BY <1>3 DEF UpdateAction, a
  <2> HIDE DEF e
  <2> QED BY <1>01, <1>3, <2>1 DEF OnlyOf, SrcBut, OffBut, e, a
<1>4. CASE c.source[s].set /\ c.source[s].action # a
  <2>1. r \in Source BY <1>1, <1>2, Zenon DEF Source
  <2>2. r.action = a /\ SrcBut(c.source[s], r, {"action"})
    BY <1>1, SourceTypes DEF SrcBut, SourceFields
  <2> HIDE DEF r
  <2>3. /\ Shaped(u) /\ OnlyOf(c, u, {"source"}) /\ u.source[s] = r
        /\ \A x \in Sources \ {s} : u.source[x] = c.source[x]
    BY <1>01, <2>1, PutSource
  <2>4. u = [c EXCEPT !.source[s].action = a] BY DEF r
  <2>5. u.offer = c.offer BY <2>3 DEF OnlyOf, Fields
  <2>6. CASE c.offer[o].in_ask
    <3>1. e = u BY <1>4, <2>4, <2>6 DEF UpdateAction, a
    <3> HIDE DEF u, e
    <3>2. OnlyOf(c, e, {"source", "offer"}) BY <2>3, <3>1 DEF OnlyOf
    <3>3. SrcBut(c.source[s], e.source[s], {"action", "told"})
      BY <2>2, <2>3, <3>1 DEF SrcBut
    <3>4. e.offer = c.offer BY <2>5, <3>1
    <3>5. OffBut(c.offer[o], e.offer[o], {"told"}) BY <3>4 DEF OffBut
    <3> QED BY <1>4, <2>2, <2>3, <2>6, <3>1, <3>2, <3>3, <3>4, <3>5, <1>01
        DEF e, a
  <2>7. CASE ~c.offer[o].in_ask
    <3> DEFINE ts == IF c.source[s].owner \in c.new THEN a ELSE u.source[s].told
               to == IF c.offer[o].client \in c.new THEN a ELSE u.offer[o].told
               q == [u.source[s] EXCEPT !.told = ts]
               v == [u EXCEPT !.source[s] = q]
               t == [v.offer[o] EXCEPT !.told = to]
               w == [v EXCEPT !.offer[o] = t]
    <3>0. e = [[c EXCEPT !.source[s].action = a] EXCEPT
                 !.source[s].told = IF c.source[s].owner \in c.new THEN a ELSE @,
                 !.offer[o].told = IF c.offer[o].client \in c.new THEN a ELSE @]
      BY <1>4, <2>7, Zenon DEF UpdateAction, a
    <3> HIDE DEF u, e
    <3>1. e = [u EXCEPT
                 !.source[s].told = IF c.source[s].owner \in c.new THEN a ELSE @,
                 !.offer[o].told = IF c.offer[o].client \in c.new THEN a ELSE @]
      BY <2>4, <3>0
    <3>2. ts \in Actions \cup {None} /\ to \in Actions \cup {None}
      BY <1>1, <1>2, <2>1, <2>3, <2>5, SourceTypes, OfferTypes
    <3>3. q \in Source
      <4>1. u.source[s] \in Source /\ ts \in Actions \cup {None}
        BY <2>1, <2>3, <3>2
      <4> HIDE DEF ts
      <4> QED BY <4>1, Zenon DEF Source
    <3>4. q.told = ts /\ SrcBut(r, q, {"told"})
      BY <2>1, <2>3, SourceTypes DEF SrcBut, SourceFields
    <3>41. c.source[s].owner \in c.new => ts = a OBVIOUS
    <3>42. to = IF c.offer[o].client \in c.new THEN a ELSE c.offer[o].told
      BY <2>5
    <3> HIDE DEF q, ts
    <3>5. /\ Shaped(v) /\ OnlyOf(u, v, {"source"}) /\ v.source[s] = q
          /\ \A x \in Sources \ {s} : v.source[x] = u.source[x]
      BY <1>01, <2>3, <3>3, PutSource
    <3>6. v.offer = c.offer BY <2>5, <3>5 DEF OnlyOf, Fields
    <3>7. w = e
      <4>1. to = IF c.offer[o].client \in c.new THEN a ELSE v.offer[o].told
        BY <2>5, <3>6
      <4> QED BY <3>1, <4>1 DEF ts, q
    <3> HIDE DEF v, to
    <3>8. t \in Offer BY <1>1, <3>2, <3>6, Zenon DEF Offer
    <3>9. t.told = to /\ OffBut(c.offer[o], t, {"told"})
      BY <1>1, <3>6, OfferTypes DEF OffBut, OfferFields
    <3> HIDE DEF t
    <3>10. /\ Shaped(w) /\ OnlyOf(v, w, {"offer"}) /\ w.offer[o] = t
           /\ \A x \in Offers \ {o} : w.offer[x] = v.offer[x]
      BY <3>5, <3>8, PutOffer
    <3> HIDE DEF w
    <3>11. w.source = v.source BY <3>10 DEF OnlyOf, Fields
    <3>12. OnlyOf(c, w, {"source", "offer"})
      BY <2>3, <3>5, <3>10 DEF OnlyOf
    <3>13. SrcBut(c.source[s], w.source[s], {"action", "told"})
      BY <2>2, <3>4, <3>5, <3>11 DEF SrcBut
    <3>14. w.source[s].action = a /\ w.source[s].told = ts
      BY <2>2, <3>4, <3>5, <3>11 DEF SrcBut, SourceFields
    <3>15. /\ \A x \in Sources \ {s} : w.source[x] = c.source[x]
           /\ \A x \in Offers \ {o} : w.offer[x] = c.offer[x]
      BY <2>3, <3>5, <3>6, <3>10, <3>11
    <3> QED BY <1>4, <3>7, <3>9, <3>10, <3>12, <3>13, <3>14, <3>15, <3>41, <3>42,
           <1>01 DEF e, a
  <2> QED BY <2>6, <2>7
<1> QED BY <1>3, <1>4

\* Agree before the action is chosen anew: of an offer just made nothing has
\* been told yet.
Nearly(c, s) ==
  LET src == c.source[s] IN
  /\ src.set /\ ~Performed(src) => src.told = src.action
  /\ \A o \in Offers : c.offer[o].source = s /\ src.offer # o =>
                         Performed(src) /\ src.offer = None
  /\ src.set /\ src.offer # None =>
       LET off == c.offer[src.offer] IN
       /\ off.in_ask => Performed(src)
       /\ ~off.in_ask =>
            /\ src.told = src.action
            /\ off.client \in c.new =>
                 off.told = src.action \/ (off.told = None /\ off.actions = {})

\* Two sources, two offers that differ at most in the action and who knows it.
AlikeS(p, q) ==
  /\ q.life = p.life /\ q.owner = p.owner /\ q.offer = p.offer
  /\ q.accepted = p.accepted /\ q.seat = p.seat /\ q.set = p.set
  /\ q.actions = p.actions /\ q.heard = p.heard
AlikeO(p, q) ==
  /\ q.live = p.live /\ q.client = p.client /\ q.source = p.source
  /\ q.in_ask = p.in_ask /\ q.actions = p.actions /\ q.took = p.took

LEMMA Pointers ==
  ASSUME NEW c, Shaped(c)
  PROVE  /\ \A x \in Sources : c.source[x].offer \in Offers \cup {None}
         /\ \A x \in Offers : c.offer[x].source \in Sources \cup {None}
         /\ c.drag \in Sources \cup {None}
<1>1. /\ \A x \in Sources : c.source[x] \in Source
      /\ \A x \in Offers : c.offer[x] \in Offer
      /\ c.drag \in Sources \cup {None}
  BY DEF Shaped
<1> QED BY <1>1, SourceTypes, OfferTypes

LEMMA AlikeFacts ==
  ASSUME NEW c, NEW e, Shaped(c), e.drag = c.drag,
         \A x \in Sources : AlikeS(c.source[x], e.source[x]),
         \A x \in Offers : AlikeO(c.offer[x], e.offer[x]),
         \A x \in Offers : ~c.offer[x].live => e.offer[x] = c.offer[x]
  PROVE  /\ Links(c) => Links(e)
         /\ /\ e.kind = c.kind /\ e.resource = c.resource /\ e.focus = c.focus
            /\ e.held = c.held /\ e.other = c.other /\ e.crashed = c.crashed
            /\ e.device = c.device /\ e.window = c.window /\ e.seen = c.seen
            => (Place(c) => Place(e)) /\ (Calm(c) => Calm(e))
<1>1. ASSUME Links(c) PROVE Links(e)
  <2>1. ASSUME NEW x \in Sources, e.source[x].offer # None
        PROVE  LET y == e.source[x].offer
               IN /\ e.source[x].life = "live"
                  /\ e.offer[y].live /\ e.offer[y].source = x
    <3>1. /\ e.source[x].offer = c.source[x].offer
          /\ e.source[x].life = c.source[x].life
      BY DEF AlikeS
    <3>2. c.source[x].offer \in Offers BY <2>1, <3>1, Pointers
    <3>3. AlikeO(c.offer[c.source[x].offer], e.offer[c.source[x].offer])
      BY <3>2
    <3>4. /\ c.source[x].life = "live" /\ c.offer[c.source[x].offer].live
          /\ c.offer[c.source[x].offer].source = x
      BY <1>1, <2>1, <3>1 DEF Links
    <3> QED BY <3>1, <3>3, <3>4 DEF AlikeO
  <2>2. ASSUME NEW x \in Offers, ~e.offer[x].live PROVE e.offer[x] = NoOffer
    BY <1>1, <2>2 DEF Links, AlikeO
  <2>3. ASSUME NEW x \in Offers, e.offer[x].source # None
        PROVE  e.source[e.offer[x].source].life = "live"
    <3>1. e.offer[x].source = c.offer[x].source BY DEF AlikeO
    <3>2. c.offer[x].source \in Sources BY <2>3, <3>1, Pointers
    <3>3. c.source[c.offer[x].source].life = "live"
      BY <1>1, <2>3, <3>1 DEF Links
    <3> QED BY <3>1, <3>2, <3>3 DEF AlikeS
  <2>4. ASSUME e.drag # None PROVE e.source[e.drag].life = "live"
    <3>1. c.drag \in Sources BY <2>4, Pointers
    <3>2. c.source[c.drag].life = "live" BY <1>1, <2>4 DEF Links
    <3> QED BY <3>1, <3>2 DEF AlikeS
  <2> QED BY <2>1, <2>2, <2>3, <2>4 DEF Links
<1>2. ASSUME /\ e.kind = c.kind /\ e.resource = c.resource /\ e.focus = c.focus
             /\ e.held = c.held /\ e.other = c.other /\ e.crashed = c.crashed
             /\ e.device = c.device /\ e.window = c.window /\ e.seen = c.seen
      PROVE  (Place(c) => Place(e)) /\ (Calm(c) => Calm(e))
  <2>1. c.drag # None => AlikeS(c.source[c.drag], e.source[c.drag]) BY Pointers
  <2>2. c.drag # None /\ c.source[c.drag].offer # None =>
          AlikeO(c.offer[c.source[c.drag].offer], e.offer[c.source[c.drag].offer])
    BY Pointers
  <2>3. Place(c) => Place(e)
    <3> SUFFICES ASSUME Place(c) PROVE Place(e) OBVIOUS
    <3>1. ASSUME e.resource # None /\ e.drag # None,
                 e.source[e.drag].offer # None
          PROVE  e.offer[e.source[e.drag].offer].client = e.resource
      <4>1. c.resource # None /\ c.drag # None BY <1>2, <3>1
      <4>2. e.source[e.drag].offer = c.source[c.drag].offer
        BY <2>1, <4>1 DEF AlikeS
      <4>3. c.offer[c.source[c.drag].offer].client = c.resource
        BY <3>1, <4>1, <4>2 DEF Place
      <4> QED BY <1>2, <2>2, <3>1, <4>1, <4>2, <4>3 DEF AlikeO
    <3>2. /\ c.kind = "none" => /\ c.drag = None /\ c.resource = None /\ c.focus = None
                                /\ ~c.held /\ ~c.other
          /\ c.kind # "none" => c.drag # None \/ c.crashed
          /\ c.resource # None => c.focus # None /\ AtFocus(c)
          /\ c.other => "second button" \in c.seen
      BY DEF Place
    <3>3. /\ e.kind = "none" => /\ e.drag = None /\ e.resource = None /\ e.focus = None
                                /\ ~e.held /\ ~e.other
          /\ e.kind # "none" => e.drag # None \/ e.crashed
          /\ e.resource # None => e.focus # None /\ AtFocus(e)
          /\ e.other => "second button" \in e.seen
      BY <1>2, <3>2 DEF AtFocus
    <3> QED BY <3>1, <3>3 DEF Place
  <2>4. Calm(c) => Calm(e)
    <3> SUFFICES ASSUME Calm(c), e.drag # None
                 PROVE  Calm(e)
      BY DEF Calm
    <3>1. /\ e.source[e.drag].offer = c.source[c.drag].offer
          /\ e.source[e.drag].seat = c.source[c.drag].seat
          /\ e.source[e.drag].heard = c.source[c.drag].heard
      BY <2>1 DEF AlikeS
    <3>2. c.drag # None OBVIOUS
    <3> QED BY <1>2, <3>1, <3>2, Zenon DEF Calm, Performed
  <2> QED BY <2>3, <2>4
<1> QED BY <1>1, <1>2

\* The choice makes both ends agree, and leaves the rest as it was.
LEMMA UpdateKeeps ==
  ASSUME NEW c, Shaped(c), Links(c), NEW o \in Offers, c.offer[o].source # None,
         \A x \in Sources : Life(c, x), c.crashed => c.seen # {},
         "second button" \notin c.seen =>
           /\ Nearly(c, c.offer[o].source)
           /\ \A x \in Sources \ {c.offer[o].source} : Agree(c, x)
  PROVE  LET e == UpdateAction(c, o) IN
         /\ Loose(e) /\ OnlyOf(c, e, {"source", "offer"})
         /\ Place(c) => Place(e)
         /\ Calm(c) => Calm(e)
         /\ \A x \in Sources : Born(c, x) => Born(e, x)
         /\ \A x \in Sources : /\ e.source[x].offer = c.source[x].offer
                               /\ e.source[x].seat = c.source[x].seat
                               /\ e.source[x].heard = c.source[x].heard
         /\ \A x \in Offers : e.offer[x].client = c.offer[x].client
<1> DEFINE s == c.offer[o].source
           e == UpdateAction(c, o)
           a == ChooseAction(c, o)
<1>1. /\ s \in Sources /\ Shaped(e) /\ OnlyOf(c, e, {"source", "offer"})
      /\ \A x \in Sources \ {s} : e.source[x] = c.source[x]
      /\ \A x \in Offers \ {o} : e.offer[x] = c.offer[x]
      /\ SrcBut(c.source[s], e.source[s], {"action", "told"})
      /\ OffBut(c.offer[o], e.offer[o], {"told"})
      /\ ~c.source[s].set => e = c
      /\ c.source[s].set => e.source[s].action = a
      /\ c.source[s].set /\ c.source[s].owner \in c.new /\ ~c.offer[o].in_ask
           /\ c.source[s].told = c.source[s].action => e.source[s].told = a
      /\ c.source[s].set /\ c.offer[o].client \in c.new /\ ~c.offer[o].in_ask =>
           e.offer[o].told = IF c.source[s].action = a THEN c.offer[o].told ELSE a
  BY UpdateFacts, ZenonT(40)
<1>2. /\ a \in Actions \cup {None}
      /\ c.source[s].owner \in c.new => a \in c.source[s].actions \cup {None}
      /\ c.offer[o].client \in c.new => a \in c.offer[o].actions \cup {None}
  BY ChooseFacts
<1>3. c.offer[o].live BY NoOfferIs DEF Links
<1>4. s # None BY <1>1, DragAssumption
<1> HIDE DEF a, e
<1>5. /\ e.new = c.new /\ e.device = c.device /\ e.window = c.window
      /\ e.kind = c.kind /\ e.drag = c.drag /\ e.focus = c.focus
      /\ e.resource = c.resource /\ e.held = c.held /\ e.other = c.other
      /\ e.again = c.again /\ e.crashed = c.crashed /\ e.seen = c.seen
  BY <1>1, OnlyTablesFacts
<1>6. \A x \in Sources : AlikeS(c.source[x], e.source[x])
  <2>1. AlikeS(c.source[s], e.source[s])
    BY <1>1 DEF SrcBut, SourceFields, AlikeS
  <2> HIDE DEF s
  <2> QED BY <1>1, <2>1 DEF AlikeS
<1>7. \A x \in Offers : AlikeO(c.offer[x], e.offer[x])
  <2>1. AlikeO(c.offer[o], e.offer[o])
    BY <1>1 DEF OffBut, OfferFields, AlikeO
  <2> QED BY <1>1, <2>1 DEF AlikeO
<1>8. /\ \A x \in Sources : c.source[x].offer \in Offers \cup {None}
      /\ \A x \in Offers : c.offer[x].source \in Sources \cup {None}
  BY Pointers
<1> HIDE DEF s
<1>9. /\ Links(e)
      /\ (Place(c) => Place(e)) /\ (Calm(c) => Calm(e))
  <2>1. \A x \in Offers : ~c.offer[x].live => e.offer[x] = c.offer[x]
    BY <1>1, <1>3
  <2> QED BY <1>5, <1>6, <1>7, <2>1, AlikeFacts
<1>10. \A x \in Sources : Life(e, x)
  <2> SUFFICES ASSUME NEW x \in Sources PROVE Life(e, x) OBVIOUS
  <2>1. Life(c, x) OBVIOUS
  <2>2. AlikeS(c.source[x], e.source[x]) BY <1>6
  <2>3. c.source[x].set \/ e.source[x] = c.source[x] BY <1>1
  <2>4. c.source[x].offer # None =>
          AlikeO(c.offer[c.source[x].offer], e.offer[c.source[x].offer])
    BY <1>7, <1>8
  <2> QED BY <1>5, <2>1, <2>2, <2>3, <2>4 DEF Life, Performed, AlikeS, AlikeO
<1>11. ASSUME "second button" \notin e.seen, NEW x \in Sources
       PROVE  Agree(e, x)
  <2>1. CASE x # s
    <3>1. Agree(c, x) BY <1>5, <1>11, <2>1 DEF s
    <3>2. e.source[x] = c.source[x] BY <1>1, <2>1
    <3>3. c.source[x].offer # None => e.offer[c.source[x].offer] = c.offer[c.source[x].offer]
      <4>1. c.source[x].offer # None => c.offer[c.source[x].offer].source = x
        BY DEF Links
      <4> QED BY <1>1, <1>8, <2>1, <4>1 DEF s
    <3>4. \A y \in Offers : e.offer[y].source = c.offer[y].source
      BY <1>7 DEF AlikeO
    <3>5. \A y \in Offers : e.offer[y].source = x /\ e.source[x].offer # y =>
                              Performed(e.source[x]) /\ e.source[x].offer = None
      BY <3>1, <3>2, <3>4 DEF Agree
    <3>6. e.new = c.new BY <1>5
    <3>7. CASE c.source[x].offer = None BY <3>1, <3>2, <3>5, <3>7 DEF Agree
    <3>8. CASE c.source[x].offer # None
      <4>1. e.offer[e.source[x].offer] = c.offer[c.source[x].offer]
        BY <3>2, <3>3, <3>8
      <4> QED BY <3>1, <3>2, <3>5, <3>6, <4>1, Zenon DEF Agree
    <3> QED BY <3>7, <3>8
  <2>2. CASE x = s
    <3>1. Nearly(c, s) BY <1>5, <1>11 DEF s
    <3>2. \A y \in Offers : e.offer[y].source = s /\ e.source[s].offer # y =>
                              Performed(e.source[s]) /\ e.source[s].offer = None
      <4> SUFFICES ASSUME NEW y \in Offers, e.offer[y].source = s,
                          e.source[s].offer # y
                   PROVE  Performed(e.source[s]) /\ e.source[s].offer = None
        OBVIOUS
      <4>1. AlikeS(c.source[s], e.source[s]) /\ AlikeO(c.offer[y], e.offer[y])
        BY <1>1, <1>6, <1>7
      <4>2. c.offer[y].source = s /\ c.source[s].offer # y
        BY <4>1 DEF AlikeS, AlikeO
      <4>3. Performed(c.source[s]) /\ c.source[s].offer = None
        BY <3>1, <4>2 DEF Nearly
      <4> QED BY <4>1, <4>3 DEF Performed, AlikeS
    <3>3. CASE ~c.source[s].set
      BY <1>1, <1>6, <2>2, <3>2, <3>3 DEF Agree
    <3>4. CASE c.source[s].set /\ c.source[s].offer # o
      <4>1. Performed(c.source[s]) /\ c.source[s].offer = None
        BY <3>1, <3>4 DEF Nearly, s
      <4> QED BY <1>1, <1>6, <2>2, <3>2, <4>1 DEF Agree, Performed, AlikeS, AlikeO
    <3>5. CASE c.source[s].set /\ c.source[s].offer = o
      <4>1. c.source[s].owner \in c.new BY <1>1, <3>5 DEF Life
      <4>2. o # None BY DragAssumption
      <4>3. CASE c.offer[o].in_ask
        <5>1. Performed(c.source[s]) BY <3>1, <3>5, <4>2, <4>3 DEF Nearly
        <5> QED BY <1>1, <1>6, <1>7, <2>2, <3>2, <3>5, <4>3, <5>1
            DEF Agree, Performed, AlikeS, AlikeO
      <4>4. CASE ~c.offer[o].in_ask
        <5>1. c.source[s].told = c.source[s].action
          BY <3>1, <3>5, <4>2, <4>4 DEF Nearly
        <5>2. e.source[s].told = a /\ e.source[s].action = a
          BY <1>1, <3>5, <4>1, <4>4, <5>1
        <5>3. c.offer[o].client \in c.new => e.offer[o].told = a
          <6> SUFFICES ASSUME c.offer[o].client \in c.new
                       PROVE  e.offer[o].told = a
            OBVIOUS
          <6>1. c.offer[o].told = c.source[s].action
                  \/ (c.offer[o].told = None /\ c.offer[o].actions = {})
            BY <3>1, <3>5, <4>2, <4>4 DEF Nearly
          <6>2. c.offer[o].actions = {} => a = None BY <1>2
          <6> QED BY <1>1, <3>5, <4>4, <6>1, <6>2
        <5>4. a \in c.source[s].actions \cup {None} BY <1>2, <4>1
        <5>5. e.source[s].offer = o /\ ~e.offer[o].in_ask
          BY <1>1, <1>6, <1>7, <3>5, <4>4 DEF AlikeS, AlikeO
        <5>6. c.offer[o].client \in c.new =>
                e.offer[o].told = a /\ a \in e.offer[o].actions \cup {None}
          BY <1>2, <1>7, <5>3 DEF AlikeO
        <5> QED BY <1>1, <1>5, <1>6, <1>7, <2>2, <3>2, <5>2, <5>4, <5>5, <5>6
            DEF Agree, AlikeS, AlikeO, Performed
      <4> QED BY <4>3, <4>4
    <3> QED BY <3>3, <3>4, <3>5
  <2> QED BY <2>1, <2>2
<1>12. Loose(e) BY <1>1, <1>5, <1>9, <1>10, <1>11 DEF Loose
<1>14. \A x \in Sources : Born(c, x) => Born(e, x)
  BY <1>6 DEF Born, AlikeS, Performed
<1>13. /\ \A x \in Sources : /\ e.source[x].offer = c.source[x].offer
                            /\ e.source[x].seat = c.source[x].seat
                            /\ e.source[x].heard = c.source[x].heard
       /\ \A x \in Offers : e.offer[x].client = c.offer[x].client
  BY <1>6, <1>7 DEF AlikeS, AlikeO
<1> QED BY <1>1, <1>9, <1>12, <1>13, <1>14 DEF e

-----------------------------------------------------------------------------
(* The drag moves on and ends: weston_drag_set_focus.                      *)

\* The end of a drag leaves sources and offers alone.
LEMMA EndKeeps ==
  ASSUME NEW c, Core(c)
  PROVE  LET e == EndDrag(c) IN
         /\ Full(e) /\ e.crashed = c.crashed /\ e.seen = c.seen
         /\ e.source = c.source /\ e.offer = c.offer /\ e.drag = None
         /\ e.kind = "none" /\ e.window = c.window
<1> DEFINE left == IF c.resource = None THEN c
                   ELSE [c EXCEPT !.resource = None, !.focus = None]
           n == SetFocus(c, None, "other", None)
           e == EndDrag(c)
<1>0. Shaped(c) BY DEF Core, Loose
<1>1. /\ DOMAIN left = Fields
      /\ \A f \in Fields \ {"resource", "focus"} : left[f] = c[f]
  BY <1>0 DEF Shaped, Fields
<1>2. n = left \/ n = [left EXCEPT !.seen = left.seen \cup {"offer let go"}]
  BY DEF SetFocus
<1> HIDE DEF left, n
<1>3. /\ DOMAIN n = Fields
      /\ \A f \in Fields \ {"resource", "focus", "seen"} : n[f] = c[f]
  BY <1>1, <1>2
<1>4. e = [n EXCEPT !.kind = "none", !.drag = None, !.focus = None,
                    !.resource = None, !.held = FALSE, !.other = FALSE,
                    !.seen = c.seen]
  BY DEF EndDrag, n
<1> HIDE DEF e
<1>5. DOMAIN e = Fields BY <1>3, <1>4
<1>6. /\ e.kind = "none" /\ e.drag = None /\ e.focus = None
      /\ e.resource = None /\ e.held = FALSE /\ e.other = FALSE
      /\ e.seen = c.seen
  BY <1>3, <1>4 DEF Fields
<1>7. \A f \in {"new", "device", "window", "source", "offer", "again", "crashed"} :
        e[f] = n[f]
  BY <1>3, <1>4 DEF Fields
<1>8. /\ e.new = c.new /\ e.device = c.device /\ e.window = c.window
      /\ e.source = c.source /\ e.offer = c.offer /\ e.again = c.again
      /\ e.crashed = c.crashed
  BY <1>3, <1>7 DEF Fields
<1>9. Shaped(e) BY <1>0, <1>5, <1>6, <1>8 DEF Shaped
<1>10. Core(e)
  <2>1. /\ Links(e) /\ \A s \in Sources : Life(e, s) /\ Born(e, s)
        /\ \A s \in Sources : Agree(c, s) => Agree(e, s)
    BY <1>0, <1>5, <1>6, <1>8, FlatFacts DEF Core, Loose
  <2> QED BY <1>6, <1>8, <1>9, <2>1 DEF Core, Loose
<1>11. Place(e) /\ Calm(e)
  <2>1. /\ Freed # None /\ "none" = "none" BY DragAssumption
  <2> QED BY <1>6, <2>1 DEF Place, Calm
<1> QED BY <1>6, <1>8, <1>10, <1>11 DEF e, Full

\* The drag stays over a window, perhaps one known to be gone.
LEMMA StayKeeps ==
  ASSUME NEW c, Full(c), NEW view \in c.window, c.focus = Freed
  PROVE  Full([c EXCEPT !.focus = view])
<1> DEFINE e == [c EXCEPT !.focus = view]
<1>0. Shaped(c) BY DEF Full, Core, Loose
<1>1. /\ DOMAIN e = Fields /\ e.focus = view
      /\ \A f \in Fields \ {"focus"} : e[f] = c[f]
  BY <1>0 DEF Shaped, Fields
<1> HIDE DEF e
<1>2. /\ e.new = c.new /\ e.device = c.device /\ e.window = c.window
      /\ e.source = c.source /\ e.offer = c.offer /\ e.again = c.again
      /\ e.crashed = c.crashed /\ e.kind = c.kind /\ e.drag = c.drag
      /\ e.resource = c.resource /\ e.held = c.held /\ e.other = c.other
      /\ e.seen = c.seen
  BY <1>1 DEF Fields
<1>3. view \in Clients /\ view # None /\ view # Freed
  BY <1>0, DragAssumption DEF Shaped
<1>4. Shaped(e) BY <1>0, <1>1, <1>2, <1>3 DEF Shaped
<1>5. Core(e)
  <2>1. /\ Links(e) /\ \A s \in Sources : Life(e, s) /\ Born(e, s)
        /\ \A s \in Sources : Agree(c, s) => Agree(e, s)
    BY <1>0, <1>1, <1>2, FlatFacts DEF Full, Core, Loose
  <2> QED BY <1>2, <1>4, <2>1 DEF Full, Core, Loose
<1>6. c.kind # "none"
  <2>1. Freed # None BY DragAssumption
  <2> QED BY <2>1 DEF Full, Place
<1>7. Place(e)
  <2>1. c.resource # None => e.focus # None /\ AtFocus(e)
    <3> SUFFICES ASSUME c.resource # None PROVE e.focus # None /\ AtFocus(e) OBVIOUS
    <3>1. AtFocus(c) BY DEF Full, Place
    <3>2. c.resource # Freed BY <1>0, DragAssumption DEF Shaped
    <3> QED BY <1>1, <1>2, <1>3, <3>1, <3>2 DEF AtFocus
  <2> QED BY <1>2, <1>6, <2>1 DEF Full, Place
<1>8. Calm(e) BY <1>1, <1>2, <1>3 DEF Full, Calm
<1> QED BY <1>5, <1>7, <1>8 DEF Full, e

\* The target is left: there is no resource, and no focus unless there was no
\* resource before.
LeftOf(c) ==
  IF c.resource = None THEN c ELSE [c EXCEPT !.resource = None, !.focus = None]

LEMMA LeftFacts ==
  ASSUME NEW c, Core(c), Place(c), c.kind # "none"
  PROVE  LET e == LeftOf(c) IN
         /\ Core(e) /\ Place(e) /\ e.resource = None
         /\ OnlyOf(c, e, {"resource", "focus"})
<1> DEFINE e == LeftOf(c)
<1>1. CASE c.resource = None
  <2>1. e = c BY <1>1 DEF LeftOf
  <2>2. c.resource = None BY <1>1
  <2> QED BY <2>1, <2>2 DEF OnlyOf
<1>2. CASE c.resource # None
  <2>0. Shaped(c) BY DEF Core, Loose
  <2>1. /\ DOMAIN e = Fields /\ e.resource = None /\ e.focus = None
        /\ \A f \in Fields \ {"resource", "focus"} : e[f] = c[f]
    BY <1>2, <2>0 DEF LeftOf, Shaped, Fields
  <2> HIDE DEF e
  <2>2. /\ e.new = c.new /\ e.device = c.device /\ e.window = c.window
        /\ e.source = c.source /\ e.offer = c.offer /\ e.again = c.again
        /\ e.crashed = c.crashed /\ e.kind = c.kind /\ e.drag = c.drag
        /\ e.held = c.held /\ e.other = c.other /\ e.seen = c.seen
    BY <2>1 DEF Fields
  <2>3. Shaped(e) BY <2>0, <2>1, <2>2 DEF Shaped
  <2>4. Core(e)
    <3>1. /\ Links(e) /\ \A s \in Sources : Life(e, s) /\ Born(e, s)
          /\ \A s \in Sources : Agree(c, s) => Agree(e, s)
      BY <2>0, <2>1, <2>2, FlatFacts DEF Core, Loose
    <3> QED BY <2>2, <2>3, <3>1 DEF Core, Loose
  <2>5. Freed # None BY DragAssumption
  <2>6. Place(e) BY <2>1, <2>2, <2>5 DEF Place
  <2> QED BY <2>1, <2>4, <2>6 DEF e, OnlyOf
<1> QED BY <1>1, <1>2 DEF Core, Loose, Shaped

LEMMA UnlinkFacts ==
  ASSUME NEW c, Shaped(c), c.drag # None
  PROVE  LET e == Unlink(c)  s == c.drag  old == c.source[c.drag].offer IN
         /\ Shaped(e) /\ OnlyOf(c, e, {"source", "offer"})
         /\ e.source[s].offer = None
         /\ SrcBut(c.source[s], e.source[s], {"offer"})
         /\ \A x \in Sources \ {s} : e.source[x] = c.source[x]
         /\ \A x \in Offers : e.offer[x] = IF x = old THEN NoOffer ELSE c.offer[x]
<1> DEFINE s == c.drag
           old == c.source[s].offer
           e == Unlink(c)
<1>1. s \in Sources /\ old \in Offers \cup {None} BY Pointers
<1>2. CASE old = None
  <2>1. e = c BY <1>2 DEF Unlink
  <2>2. \A x \in Offers : x # old BY <1>2, DragAssumption
  <2> HIDE DEF e
  <2> QED BY <1>2, <2>1, <2>2 DEF OnlyOf, SrcBut, e
<1>3. CASE old # None
  <2> DEFINE u == [c EXCEPT !.offer[old] = NoOffer]
             r == [u.source[s] EXCEPT !.offer = None]
             v == [u EXCEPT !.source[s] = r]
  <2>1. e = v BY <1>3 DEF Unlink
  <2>2. /\ Shaped(u) /\ OnlyOf(c, u, {"offer"}) /\ u.offer[old] = NoOffer
        /\ \A x \in Offers \ {old} : u.offer[x] = c.offer[x]
    BY <1>1, <1>3, NoOfferIs, PutOffer
  <2> HIDE DEF u
  <2>3. u.source = c.source BY <2>2 DEF OnlyOf, Fields
  <2>4. c.source[s] \in Source BY <1>1 DEF Shaped
  <2>5. r \in Source
    <3>1. None \in Offers \cup {None} OBVIOUS
    <3> QED BY <2>3, <2>4, <3>1, Zenon DEF Source
  <2>6. r.offer = None /\ SrcBut(c.source[s], r, {"offer"})
    BY <2>3, <2>4, SourceTypes DEF SrcBut, SourceFields
  <2> HIDE DEF r
  <2>7. /\ Shaped(v) /\ OnlyOf(u, v, {"source"}) /\ v.source[s] = r
        /\ \A x \in Sources \ {s} : v.source[x] = u.source[x]
    BY <1>1, <2>2, <2>5, PutSource
  <2> HIDE DEF v, e
  <2>8. v.offer = u.offer BY <2>7 DEF OnlyOf, Fields
  <2>9. OnlyOf(c, v, {"source", "offer"}) BY <2>2, <2>7 DEF OnlyOf
  <2> QED BY <2>1, <2>2, <2>3, <2>6, <2>7, <2>8, <2>9 DEF e
<1> QED BY <1>2, <1>3

-----------------------------------------------------------------------------
(* What a step has to show of the source and the offer it changes.         *)

\* Only the drag and what was seen change.
LEMMA FlatKeeps ==
  ASSUME NEW c, Loose(c), NEW e, Shaped(e), e.source = c.source,
         e.offer = c.offer, e.new = c.new, e.drag = None \/ e.drag = c.drag,
         c.seen \subseteq e.seen, e.crashed => e.seen # {}
  PROVE  Loose(e) /\ \A x \in Sources : Born(c, x) => Born(e, x)
<1>1. Shaped(c) /\ DOMAIN e = Fields BY DEF Loose, Shaped
<1>2. /\ Links(e)
      /\ \A s \in Sources : Life(c, s) => Life(e, s)
      /\ \A s \in Sources : Born(c, s) => Born(e, s)
      /\ \A s \in Sources : Agree(c, s) => Agree(e, s)
  BY <1>1, FlatFacts DEF Loose
<1> QED BY <1>2 DEF Loose

\* One source and one offer of it change, or neither, and nothing else.
Touched(c, e, s, o) ==
  /\ OnlyOf(c, e, {"source", "offer"})
  /\ \A x \in Sources \ {s} : e.source[x] = c.source[x]
  /\ \A y \in Offers \ {o} : e.offer[y] = c.offer[y]
  /\ o # None => /\ c.offer[o].source \in {s, None}
                 /\ e.offer[o].source \in {s, None}
                 /\ e.offer[o].live \/ e.offer[o] = NoOffer
SourceBasics(c, e, s) ==
  s # None => /\ e.source[s].life = "live"
              /\ e.source[s].offer # None =>
                   /\ e.offer[e.source[s].offer].live
                   /\ e.offer[e.source[s].offer].source = s
              /\ Life(e, s)
OthersAgree(e, s) ==
  "second button" \notin e.seen => \A x \in Sources \ {s} : Agree(e, x)
AgreesNow(c, e, s) ==
  s # None /\ "second button" \notin c.seen => Agree(e, s)
PointsSame(c, e, s) ==
  s # None /\ e.source[s].offer # None =>
    /\ e.source[s].offer = c.source[s].offer
    /\ e.offer[e.source[s].offer].client = c.offer[e.source[s].offer].client

LEMMA TouchBasics ==
  ASSUME NEW c, Loose(c), NEW e, Shaped(e),
         NEW s \in Sources \cup {None}, NEW o \in Offers \cup {None},
         Touched(c, e, s, o), SourceBasics(c, e, s)
  PROVE  /\ Links(e) /\ \A x \in Sources : Life(e, x)
         /\ OthersAgree(e, s) /\ e.seen = c.seen /\ e.crashed = c.crashed
         /\ \A x \in Sources \ {s} : Born(c, x) => Born(e, x)
         /\ c.drag # s /\ Calm(c) => Calm(e)
         /\ Place(c) /\ PointsSame(c, e, s) => Place(e)
<1>0. Shaped(c) BY DEF Loose
<1>1. /\ e.new = c.new /\ e.device = c.device /\ e.window = c.window
      /\ e.kind = c.kind /\ e.drag = c.drag /\ e.focus = c.focus
      /\ e.resource = c.resource /\ e.held = c.held /\ e.other = c.other
      /\ e.again = c.again /\ e.crashed = c.crashed /\ e.seen = c.seen
  BY OnlyTablesFacts DEF Touched
<1>2. /\ \A x \in Sources : c.source[x].offer \in Offers \cup {None}
      /\ \A x \in Offers : c.offer[x].source \in Sources \cup {None}
      /\ c.drag \in Sources \cup {None} /\ None \notin Sources /\ None \notin Offers
  BY <1>0, Pointers, DragAssumption
<1>3. \A x \in Sources \ {s} :
        c.source[x].offer # None => e.offer[c.source[x].offer] = c.offer[c.source[x].offer]
  <2> SUFFICES ASSUME NEW x \in Sources \ {s}, c.source[x].offer # None
               PROVE  e.offer[c.source[x].offer] = c.offer[c.source[x].offer]
    OBVIOUS
  <2>1. c.offer[c.source[x].offer].source = x BY DEF Loose, Links
  <2>2. c.source[x].offer # o BY <1>2, <2>1 DEF Touched
  <2> QED BY <1>2, <2>2 DEF Touched
<1>4. Links(e)
  <2>1. ASSUME NEW x \in Sources, e.source[x].offer # None
        PROVE  LET y == e.source[x].offer
               IN e.source[x].life = "live" /\ e.offer[y].live /\ e.offer[y].source = x
    <3>1. CASE x = s BY <1>2, <2>1, <3>1 DEF SourceBasics
    <3>2. CASE x # s
      <4>1. e.source[x] = c.source[x] BY <3>2 DEF Touched
      <4>2. e.offer[c.source[x].offer] = c.offer[c.source[x].offer]
        BY <1>3, <2>1, <3>2, <4>1
      <4>3. /\ c.source[x].life = "live" /\ c.offer[c.source[x].offer].live
            /\ c.offer[c.source[x].offer].source = x
        BY <2>1, <4>1 DEF Loose, Links
      <4> QED BY <4>1, <4>2, <4>3
    <3> QED BY <3>1, <3>2
  <2>2. ASSUME NEW y \in Offers, ~e.offer[y].live PROVE e.offer[y] = NoOffer
    <3>1. CASE y = o BY <1>2, <2>2, <3>1 DEF Touched
    <3>2. CASE y # o
      <4>1. e.offer[y] = c.offer[y] BY <3>2 DEF Touched
      <4> QED BY <2>2, <4>1 DEF Loose, Links
    <3> QED BY <3>1, <3>2
  <2>3. ASSUME NEW y \in Offers, e.offer[y].source # None
        PROVE  e.source[e.offer[y].source].life = "live"
    <3>1. CASE y = o BY <1>2, <2>3, <3>1 DEF Touched, SourceBasics
    <3>2. CASE y # o
      <4>1. e.offer[y] = c.offer[y] BY <3>2 DEF Touched
      <4>2. c.source[c.offer[y].source].life = "live"
        BY <2>3, <4>1 DEF Loose, Links
      <4>3. c.offer[y].source \in Sources BY <1>2, <2>3, <4>1
      <4>4. CASE c.offer[y].source = s BY <1>2, <4>1, <4>3, <4>4 DEF SourceBasics
      <4>5. CASE c.offer[y].source # s
        <5>1. e.source[c.offer[y].source] = c.source[c.offer[y].source]
          BY <4>3, <4>5 DEF Touched
        <5> QED BY <4>1, <4>2, <5>1
      <4> QED BY <4>4, <4>5
    <3> QED BY <3>1, <3>2
  <2>4. ASSUME e.drag # None PROVE e.source[e.drag].life = "live"
    <3>1. c.source[c.drag].life = "live" BY <1>1, <2>4 DEF Loose, Links
    <3>2. CASE c.drag = s BY <1>1, <2>4, <3>2 DEF SourceBasics
    <3>3. CASE c.drag # s
      <4>1. e.source[c.drag] = c.source[c.drag]
        BY <1>1, <1>2, <2>4, <3>3 DEF Touched
      <4> QED BY <1>1, <3>1, <4>1
    <3> QED BY <3>2, <3>3
  <2> QED BY <2>1, <2>2, <2>3, <2>4 DEF Links
<1>5. ASSUME NEW x \in Sources PROVE Life(e, x)
  <2>1. CASE x = s BY <1>2, <2>1 DEF SourceBasics
  <2>2. CASE x # s
    <3>1. Life(c, x) BY DEF Loose
    <3>2. e.source[x] = c.source[x] BY <2>2 DEF Touched
    <3>3. c.source[x].offer # None => e.offer[c.source[x].offer] = c.offer[c.source[x].offer]
      BY <1>3, <2>2
    <3> QED BY <1>1, <3>1, <3>2, <3>3 DEF Life
  <2> QED BY <2>1, <2>2
<1>6. ASSUME NEW x \in Sources \ {s}, "second button" \notin e.seen PROVE Agree(e, x)
  <2>1. Agree(c, x) BY <1>1, <1>6 DEF Loose
  <2>2. e.source[x] = c.source[x] BY DEF Touched
  <2>3. c.source[x].offer # None => e.offer[c.source[x].offer] = c.offer[c.source[x].offer]
    BY <1>3
  <2>4. \A y \in Offers : e.offer[y].source = x /\ e.source[x].offer # y =>
                            Performed(e.source[x]) /\ e.source[x].offer = None
    <3> SUFFICES ASSUME NEW y \in Offers, e.offer[y].source = x, e.source[x].offer # y
                 PROVE  Performed(e.source[x]) /\ e.source[x].offer = None
      OBVIOUS
    <3>1. y # o BY <1>2 DEF Touched
    <3>2. c.offer[y].source = x /\ c.source[x].offer # y BY <2>2, <3>1 DEF Touched
    <3> QED BY <2>1, <2>2, <3>2 DEF Agree
  <2>5. CASE c.source[x].offer = None BY <2>1, <2>2, <2>4, <2>5 DEF Agree
  <2>6. CASE c.source[x].offer # None
    <3>1. e.offer[e.source[x].offer] = c.offer[c.source[x].offer]
      BY <2>2, <2>3, <2>6
    <3>2. e.new = c.new BY <1>1
    <3> QED BY <2>1, <2>2, <2>4, <3>1, <3>2, Zenon DEF Agree
  <2> QED BY <2>5, <2>6
<1>7. OthersAgree(e, s)
  <2> SUFFICES ASSUME "second button" \notin e.seen, NEW x \in Sources \ {s}
               PROVE  Agree(e, x)
    BY DEF OthersAgree
  <2> QED BY <1>6
<1>8. ASSUME NEW x \in Sources \ {s}, Born(c, x) PROVE Born(e, x)
  BY <1>8 DEF Born, Touched
<1>9. c.drag # s /\ Calm(c) => Calm(e)
  <2> SUFFICES ASSUME c.drag # s, Calm(c), c.drag # None PROVE Calm(e)
    BY <1>1 DEF Calm
  <2>1. e.source[c.drag] = c.source[c.drag] BY <1>2 DEF Touched
  <2>2. /\ e.drag = c.drag /\ e.seen = c.seen /\ e.resource = c.resource
        /\ e.focus = c.focus
    BY <1>1
  <2> QED BY <2>1, <2>2, Zenon DEF Calm
<1>10. ASSUME Place(c), PointsSame(c, e, s) PROVE Place(e)
  <2>1. ASSUME e.resource # None /\ e.drag # None,
               e.source[e.drag].offer # None
        PROVE  e.offer[e.source[e.drag].offer].client = e.resource
    <3>1. c.source[c.drag].offer = e.source[e.drag].offer
      BY <1>1, <1>2, <1>10, <2>1 DEF Touched, PointsSame
    <3>2. c.offer[c.source[c.drag].offer].client = c.resource
      BY <1>1, <1>10, <2>1, <3>1 DEF Place
    <3>3. CASE c.drag = s BY <1>1, <1>10, <2>1, <3>1, <3>2, <3>3 DEF PointsSame
    <3>4. CASE c.drag # s
      <4>1. e.offer[c.source[c.drag].offer] = c.offer[c.source[c.drag].offer]
        BY <1>1, <1>2, <1>3, <2>1, <3>1, <3>4
      <4> QED BY <1>1, <3>1, <3>2, <4>1
    <3> QED BY <3>3, <3>4
  <2>2. /\ c.kind = "none" => /\ c.drag = None /\ c.resource = None /\ c.focus = None
                              /\ ~c.held /\ ~c.other
        /\ c.kind # "none" => c.drag # None \/ c.crashed
        /\ c.resource # None => c.focus # None /\ AtFocus(c)
        /\ c.other => "second button" \in c.seen
    BY <1>10 DEF Place
  <2>3. /\ e.kind = "none" => /\ e.drag = None /\ e.resource = None /\ e.focus = None
                              /\ ~e.held /\ ~e.other
        /\ e.kind # "none" => e.drag # None \/ e.crashed
        /\ e.resource # None => e.focus # None /\ AtFocus(e)
        /\ e.other => "second button" \in e.seen
    BY <1>1, <2>2 DEF AtFocus
  <2> QED BY <2>1, <2>3 DEF Place
<1> QED BY <1>1, <1>4, <1>5, <1>7, <1>8, <1>9, <1>10

LEMMA TouchKeeps ==
  ASSUME NEW c, Loose(c), NEW e, Shaped(e),
         NEW s \in Sources \cup {None}, NEW o \in Offers \cup {None},
         Touched(c, e, s, o), SourceBasics(c, e, s), AgreesNow(c, e, s)
  PROVE  Loose(e)
<1>1. /\ Links(e) /\ \A x \in Sources : Life(e, x)
      /\ OthersAgree(e, s) /\ e.seen = c.seen /\ e.crashed = c.crashed
  BY TouchBasics
<1>2. ASSUME "second button" \notin e.seen, NEW x \in Sources PROVE Agree(e, x)
  <2>1. s = x => s # None BY DragAssumption
  <2> QED BY <1>1, <1>2, <2>1 DEF OthersAgree, AgreesNow
<1> QED BY <1>1, <1>2 DEF Loose

\* No source hears of anything; no source hears of a drop.
SameHeard(c, e) == \A x \in Sources : e.source[x].heard = c.source[x].heard
NoDrop(c, e) == \A x \in Sources : Performed(e.source[x]) => Performed(c.source[x])

\* The offer made to the last target is let go.
LEMMA UnlinkKeeps ==
  ASSUME NEW c, Core(c), c.drag # None
  PROVE  LET e == Unlink(c)  s == c.drag IN
         /\ Core(e) /\ OnlyOf(c, e, {"source", "offer"})
         /\ e.source[s].offer = None
         /\ SrcBut(c.source[s], e.source[s], {"offer"})
         /\ \A x \in Offers : ~c.offer[x].live => ~e.offer[x].live
         /\ Place(c) => Place(e)
         /\ SameHeard(c, e)
<1> DEFINE s == c.drag
           old == c.source[s].offer
           e == Unlink(c)
<1>0. Shaped(c) /\ Links(c) /\ Loose(c) BY DEF Core, Loose
<1>1. /\ Shaped(e) /\ OnlyOf(c, e, {"source", "offer"})
      /\ e.source[s].offer = None
      /\ SrcBut(c.source[s], e.source[s], {"offer"})
      /\ \A x \in Sources \ {s} : e.source[x] = c.source[x]
      /\ \A x \in Offers : e.offer[x] = IF x = old THEN NoOffer ELSE c.offer[x]
  BY <1>0, UnlinkFacts
<1>2. /\ s \in Sources /\ old \in Offers \cup {None}
      /\ None \notin Sources /\ None \notin Offers
  BY <1>0, Pointers, DragAssumption
<1>3. /\ c.source[s].life = "live"
      /\ old # None => c.offer[old].source = s
  BY <1>0, <1>2 DEF Links
<1> HIDE DEF e
<1>4. /\ e.source[s].life = c.source[s].life /\ e.source[s].set = c.source[s].set
      /\ e.source[s].action = c.source[s].action
      /\ e.source[s].told = c.source[s].told
      /\ e.source[s].actions = c.source[s].actions
      /\ e.source[s].owner = c.source[s].owner
      /\ e.source[s].heard = c.source[s].heard /\ e.source[s].seat = c.source[s].seat
  BY <1>1 DEF SrcBut, SourceFields
<1>5. e.new = c.new /\ e.seen = c.seen BY <1>1, OnlyTablesFacts
<1>6. NoOffer.source = None /\ ~NoOffer.live BY NoOfferIs
<1>7. Touched(c, e, s, old)
  <2>1. old # None => e.offer[old] = NoOffer BY <1>1, <1>2
  <2>2. \A y \in Offers \ {old} : e.offer[y] = c.offer[y] BY <1>1
  <2>3. \A x \in Sources \ {s} : e.source[x] = c.source[x] BY <1>1
  <2>4. old # None => c.offer[old].source = s BY <1>3
  <2>5. OnlyOf(c, e, {"source", "offer"}) BY <1>1
  <2> HIDE DEF s, old
  <2> QED BY <1>6, <2>1, <2>2, <2>3, <2>4, <2>5 DEF Touched
<1>8. SourceBasics(c, e, s) /\ AgreesNow(c, e, s) /\ PointsSame(c, e, s)
  <2>1. Life(e, s)
    <3>1. Life(c, s) BY <1>0, <1>2 DEF Loose
    <3> HIDE DEF s
    <3> QED BY <1>1, <1>4, <1>5, <3>1 DEF Life, Performed
  <2>2. ASSUME "second button" \notin c.seen PROVE Agree(e, s)
    <3>1. Agree(c, s) BY <1>0, <1>2, <2>2 DEF Loose
    <3>2. ASSUME NEW y \in Offers, e.offer[y].source = s
          PROVE  Performed(e.source[s])
      <4>1. y # old BY <1>1, <1>2, <1>6, <3>2
      <4>2. c.offer[y].source = s BY <1>1, <3>2, <4>1
      <4> QED BY <1>4, <3>1, <4>1, <4>2 DEF Agree, Performed
    <3>3. c.source[s].set /\ ~Performed(c.source[s]) =>
            c.source[s].told = c.source[s].action
      BY <3>1 DEF Agree
    <3> HIDE DEF s
    <3> QED BY <1>1, <1>4, <3>2, <3>3 DEF Agree, Performed
  <2>3. e.source[s].life = "live" /\ e.source[s].offer = None
    BY <1>1, <1>3, <1>4
  <2> HIDE DEF s, old
  <2> QED BY <2>1, <2>2, <2>3, Zenon DEF SourceBasics, AgreesNow, PointsSame
<1>9. /\ Loose(e) /\ \A x \in Sources \ {s} : Born(c, x) => Born(e, x)
      /\ Place(c) => Place(e)
  <2> HIDE DEF s, old
  <2> QED BY <1>0, <1>1, <1>2, <1>7, <1>8, TouchKeeps, TouchBasics
<1>10. Born(e, s)
  <2>1. Born(c, s) BY <1>2 DEF Core
  <2> HIDE DEF s
  <2> QED BY <1>1, <1>4, <2>1 DEF Born, Performed
<1>11. Core(e)
  <2> HIDE DEF s, old
  <2> QED BY <1>9, <1>10 DEF Core
<1>12. \A x \in Offers : ~c.offer[x].live => ~e.offer[x].live
  BY <1>1, <1>6
<1>13. SameHeard(c, e)
  <2> HIDE DEF s
  <2> QED BY <1>1, <1>4 DEF SameHeard
<1> QED BY <1>1, <1>9, <1>11, <1>12, <1>13 DEF e

\* A second drop is one that a second button kept the drag going for.
Undropped(c, s) == "second button" \notin c.seen => ~Performed(c.source[s])

\* A new offer is made to a client of whose window the drag has come.
LEMMA SendFacts ==
  ASSUME NEW c, Core(c), NEW s \in Sources, c.source[s].life = "live",
         c.source[s].offer = None,
         Undropped(c, s),
         NEW o \in Offers, ~c.offer[o].live, NEW client \in Clients
  PROVE  LET e == SendOffer(c, s, o, client) IN
         /\ Loose(e) /\ OnlyOf(c, e, {"source", "offer"})
         /\ \A x \in Sources \ {s} : Born(e, x)
         /\ e.source[s].offer = o /\ e.offer[o].client = client
         /\ e.source[s].seat = c.source[s].seat
         /\ SameHeard(c, e)
<1> DEFINE n == [NoOffer EXCEPT !.live = TRUE, !.client = client, !.source = s]
           u == [c EXCEPT !.offer[o] = n]
           r == [u.source[s] EXCEPT !.offer = o, !.accepted = FALSE]
           v == [u EXCEPT !.source[s] = r]
<1>0. Shaped(c) /\ Links(c) /\ Loose(c) BY DEF Core, Loose
<1>1. SendOffer(c, s, o, client) = UpdateAction(v, o) BY DEF SendOffer
<1>2. None \notin Sources /\ None \notin Offers BY DragAssumption
<1>3. n \in Offer
  <2>1. s \in Sources \cup {None} /\ TRUE \in BOOLEAN OBVIOUS
  <2> QED BY NoOfferIs, <2>1, Zenon DEF Offer
<1>4. /\ n.live /\ n.client = client /\ n.source = s /\ n.in_ask = FALSE
      /\ n.actions = {} /\ n.told = None
  BY DEF NoOffer
<1> HIDE DEF n
<1>5. /\ Shaped(u) /\ OnlyOf(c, u, {"offer"}) /\ u.offer[o] = n
      /\ \A x \in Offers \ {o} : u.offer[x] = c.offer[x]
  BY <1>0, <1>3, PutOffer
<1> HIDE DEF u
<1>6. u.source = c.source BY <1>5 DEF OnlyOf, Fields
<1>7. c.source[s] \in Source BY <1>0 DEF Shaped
<1>8. r \in Source
  <2>1. o \in Offers \cup {None} /\ FALSE \in BOOLEAN OBVIOUS
  <2> QED BY <1>6, <1>7, <2>1, Zenon DEF Source
<1>9. /\ r.offer = o /\ r.accepted = FALSE
      /\ SrcBut(c.source[s], r, {"offer", "accepted"})
  BY <1>6, <1>7, SourceTypes DEF SrcBut, SourceFields
<1> HIDE DEF r
<1>10. /\ Shaped(v) /\ OnlyOf(u, v, {"source"}) /\ v.source[s] = r
       /\ \A x \in Sources \ {s} : v.source[x] = u.source[x]
  BY <1>5, <1>8, PutSource
<1> HIDE DEF v
<1>11. v.offer = u.offer BY <1>10 DEF OnlyOf, Fields
<1>12. OnlyOf(c, v, {"source", "offer"}) BY <1>5, <1>10 DEF OnlyOf
<1>13. /\ v.new = c.new /\ v.drag = c.drag /\ v.crashed = c.crashed
       /\ v.seen = c.seen
  BY <1>12, OnlyTablesFacts
<1>14. /\ r.life = "live" /\ r.set = c.source[s].set /\ r.owner = c.source[s].owner
       /\ r.action = c.source[s].action /\ r.told = c.source[s].told
       /\ r.actions = c.source[s].actions
       /\ r.heard = c.source[s].heard /\ r.seat = c.source[s].seat
  BY <1>9 DEF SrcBut, SourceFields
<1>15. /\ \A x \in Sources \ {s} : v.source[x] = c.source[x]
       /\ \A x \in Offers \ {o} : v.offer[x] = c.offer[x]
       /\ v.source[s] = r /\ v.offer[o] = n
  BY <1>5, <1>6, <1>10, <1>11
<1>16. c.offer[o].source = None
  <2>1. c.offer[o] = NoOffer BY <1>0 DEF Links
  <2> QED BY <2>1, NoOfferIs
<1>17. Touched(c, v, s, o)
  BY <1>4, <1>12, <1>15, <1>16 DEF Touched
<1>18. SourceBasics(c, v, s)
  <2>1. Life(c, s) BY <1>0 DEF Loose
  <2>2. Life(v, s) BY <1>9, <1>13, <1>14, <1>15, <2>1 DEF Life, Performed
  <2> QED BY <1>4, <1>9, <1>14, <1>15, <2>2 DEF SourceBasics
<1>20. /\ Links(v) /\ \A x \in Sources : Life(v, x)
       /\ OthersAgree(v, s) /\ \A x \in Sources \ {s} : Born(c, x) => Born(v, x)
  BY <1>0, <1>10, <1>17, <1>18, TouchBasics
<1>22. ASSUME "second button" \notin v.seen PROVE Nearly(v, s)
  <2>1. Agree(c, s) /\ ~Performed(c.source[s])
    BY <1>0, <1>13, <1>22 DEF Loose, Undropped
  <2>2. ASSUME NEW y \in Offers, v.offer[y].source = s, v.source[s].offer # y
        PROVE  FALSE
    <3>1. y # o BY <1>9, <1>15, <2>2
    <3>2. c.offer[y].source = s /\ c.source[s].offer # y
      BY <1>2, <1>15, <2>2, <3>1
    <3> QED BY <2>1, <3>2 DEF Agree
  <2>3. r.set => r.told = r.action BY <1>14, <2>1 DEF Agree
  <2> QED BY <1>4, <1>9, <1>15, <2>2, <2>3 DEF Nearly
<1>23. /\ v.offer[o].source = s /\ s # None BY <1>2, <1>4, <1>15
<1>24. v.crashed => v.seen # {} BY <1>0, <1>13 DEF Loose
<1>28. "second button" \notin v.seen =>
         /\ Nearly(v, v.offer[o].source)
         /\ \A x \in Sources \ {v.offer[o].source} : Agree(v, x)
  BY <1>20, <1>22, <1>23 DEF OthersAgree
<1>29. v.offer[o].source # None BY <1>23
<1> DEFINE e == UpdateAction(v, o)
<1>25. /\ Loose(e) /\ OnlyOf(v, e, {"source", "offer"})
       /\ \A x \in Sources : Born(v, x) => Born(e, x)
       /\ \A x \in Sources : /\ e.source[x].offer = v.source[x].offer
                             /\ e.source[x].seat = v.source[x].seat
                             /\ e.source[x].heard = v.source[x].heard
       /\ \A x \in Offers : e.offer[x].client = v.offer[x].client
  BY <1>10, <1>20, <1>24, <1>28, <1>29, UpdateKeeps
<1> HIDE DEF e
<1>26. OnlyOf(c, e, {"source", "offer"}) BY <1>12, <1>25 DEF OnlyOf
<1>27. \A x \in Sources \ {s} : Born(v, x) BY <1>20 DEF Core
<1>31. /\ e.source[s].offer = o /\ e.source[s].seat = c.source[s].seat
       /\ e.source[s].heard = c.source[s].heard /\ e.offer[o].client = client
  <2>1. /\ e.source[s].offer = v.source[s].offer
        /\ e.source[s].seat = v.source[s].seat
        /\ e.source[s].heard = v.source[s].heard
    BY <1>25
  <2>2. e.offer[o].client = v.offer[o].client BY <1>25
  <2>3. v.source[s] = r /\ v.offer[o] = n BY <1>15
  <2> QED BY <1>4, <1>9, <1>14, <2>1, <2>2, <2>3
<1>32. SameHeard(c, e)
  <2> SUFFICES ASSUME NEW x \in Sources
               PROVE  e.source[x].heard = c.source[x].heard
    BY DEF SameHeard
  <2>1. e.source[x].heard = v.source[x].heard BY <1>25
  <2>2. v.source[x].heard = c.source[x].heard BY <1>14, <1>15
  <2> QED BY <2>1, <2>2
<1> QED BY <1>1, <1>25, <1>26, <1>27, <1>31, <1>32 DEF e

\* The drag is over a window of a client that gets an offer.
Entered(c, o, view) ==
  [SendOffer(c, c.drag, o, view) EXCEPT !.focus = view, !.resource = view]

LEMMA EnterKeeps ==
  ASSUME NEW c, Core(c), Place(c), c.kind # "none", c.drag # None,
         c.source[c.drag].offer = None,
         Undropped(c, c.drag),
         NEW o \in Offers, ~c.offer[o].live, NEW view \in Clients, view \in c.device
  PROVE  LET e == Entered(c, o, view)  s == c.drag IN
         /\ Loose(e) /\ Place(e) /\ \A x \in Sources \ {s} : Born(e, x)
         /\ e.drag = s /\ e.focus = view /\ e.seen = c.seen
         /\ e.crashed = c.crashed /\ e.source[s].offer = o
         /\ e.source[s].seat = c.source[s].seat
         /\ SameHeard(c, e)
<1> DEFINE s == c.drag
           n == SendOffer(c, s, o, view)
           e == Entered(c, o, view)
<1>0. Shaped(c) /\ s \in Sources /\ c.source[s].life = "live"
  <2>1. Shaped(c) /\ Links(c) BY DEF Core, Loose
  <2> QED BY <2>1, Pointers DEF Links
<1>1. /\ Loose(n) /\ OnlyOf(c, n, {"source", "offer"})
      /\ \A x \in Sources \ {s} : Born(n, x)
      /\ n.source[s].offer = o /\ n.offer[o].client = view
      /\ n.source[s].seat = c.source[s].seat
      /\ SameHeard(c, n)
  <2>1. c.source[s].offer = None /\ Undropped(c, s) OBVIOUS
  <2> HIDE DEF s
  <2> QED BY <1>0, <2>1, SendFacts
<1>2. /\ n.new = c.new /\ n.device = c.device /\ n.window = c.window
      /\ n.kind = c.kind /\ n.drag = c.drag /\ n.held = c.held
      /\ n.other = c.other /\ n.again = c.again /\ n.crashed = c.crashed
      /\ n.seen = c.seen
  BY <1>1, OnlyTablesFacts
<1>3. e = [n EXCEPT !.focus = view, !.resource = view] BY DEF Entered
<1> HIDE DEF n, e
<1>4. Shaped(n) BY <1>1 DEF Loose
<1>5. /\ DOMAIN e = Fields /\ e.focus = view /\ e.resource = view
      /\ \A f \in Fields \ {"resource", "focus"} : e[f] = n[f]
  BY <1>3, <1>4 DEF Shaped, Fields
<1>6. /\ e.new = n.new /\ e.device = n.device /\ e.window = n.window
      /\ e.source = n.source /\ e.offer = n.offer /\ e.again = n.again
      /\ e.crashed = n.crashed /\ e.kind = n.kind /\ e.drag = n.drag
      /\ e.held = n.held /\ e.other = n.other /\ e.seen = n.seen
  BY <1>5 DEF Fields
<1>7. Shaped(e) BY <1>4, <1>5, <1>6 DEF Shaped
<1>8. Loose(e) /\ \A x \in Sources : Born(n, x) => Born(e, x)
  <2>1. e.crashed => e.seen # {} BY <1>1, <1>6 DEF Loose
  <2> QED BY <1>1, <1>6, <1>7, <2>1, FlatKeeps
<1>9. Place(e)
  <2>1. view # None /\ view # Freed BY DragAssumption
  <2>2. e.kind # "none" /\ e.drag # None BY <1>2, <1>6
  <2>3. e.other => "second button" \in e.seen BY <1>2, <1>6 DEF Place
  <2>4. e.offer[e.source[e.drag].offer].client = e.resource
    BY <1>1, <1>2, <1>5, <1>6
  <2>5. AtFocus(e) BY <1>2, <1>5, <1>6 DEF AtFocus
  <2>6. e.focus # None /\ e.focus # Freed BY <1>5, <2>1
  <2> QED BY <2>2, <2>3, <2>4, <2>5, <2>6 DEF Place
<1>10. SameHeard(c, e) BY <1>1, <1>6 DEF SameHeard
<1> QED BY <1>1, <1>2, <1>5, <1>6, <1>8, <1>9, <1>10 DEF e

\* weston_drag_set_focus, of a drag that goes on
LEMMA FocusKeeps ==
  ASSUME NEW c, Full(c), ~c.crashed, c.kind # "none",
         NEW view \in c.window \cup {None}, c.focus # view, NEW read \in Reads,
         NEW o \in Offers, ~c.offer[o].live,
         ~(c.focus = Freed /\ view # None /\ read = "crash")
  PROVE  LET e == SetFocus(c, view, read, o) IN Full(e) /\ SameHeard(c, e)
<1> DEFINE left == LeftOf(c)
           s == c.drag
           w == Unlink(left)
           e == SetFocus(c, view, read, o)
<1>0. /\ Shaped(c) /\ Core(c) /\ Place(c) /\ Calm(c) /\ s \in Sources /\ s # None
      /\ view = None \/ view \in Clients
  <2>1. Shaped(c) /\ Core(c) /\ Place(c) /\ Calm(c) BY DEF Full, Core, Loose
  <2>2. s # None BY <2>1 DEF Place
  <2> QED BY <2>1, <2>2, Pointers DEF Shaped
<1>1. /\ Core(left) /\ Place(left) /\ left.resource = None
      /\ OnlyOf(c, left, {"resource", "focus"})
  BY <1>0, LeftFacts
<1>2. /\ left.source = c.source /\ left.offer = c.offer /\ left.drag = s
      /\ left.kind = c.kind /\ left.seen = c.seen /\ left.device = c.device
      /\ left.crashed = c.crashed /\ left.new = c.new /\ left.window = c.window
      /\ left.held = c.held /\ left.other = c.other /\ left.again = c.again
  BY <1>1 DEF OnlyOf, Fields
<1>3. /\ c.source[s].seat \/ Performed(c.source[s])
      /\ "second button" \notin c.seen => c.source[s].seat /\ ~Performed(c.source[s])
      /\ c.seen = {} => c.source[s].heard \cap {"dnd_finished", "cancelled"} = {}
  BY <1>0 DEF Calm
<1>4. CASE view # None /\ c.focus = Freed /\ read = "same"
  <2>1. e = [c EXCEPT !.focus = view] BY <1>4 DEF SetFocus
  <2>2. SameHeard(c, [c EXCEPT !.focus = view])
    BY <1>0 DEF Shaped, Fields, SameHeard
  <2> QED BY <1>4, <2>1, <2>2, StayKeeps
<1>5. CASE view = None
  <2>1. e = [left EXCEPT !.seen = left.seen \cup {"offer let go"}]
    BY <1>0, <1>5 DEF SetFocus, LeftOf
  <2> HIDE DEF left, e
  <2>2. Shaped(left) /\ Loose(left) BY <1>1 DEF Core, Loose
  <2>3. /\ DOMAIN e = Fields /\ e.seen = left.seen \cup {"offer let go"}
        /\ \A f \in Fields \ {"seen"} : e[f] = left[f]
    BY <2>1, <2>2 DEF Shaped, Fields
  <2>4. /\ e.new = left.new /\ e.device = left.device /\ e.window = left.window
        /\ e.source = left.source /\ e.offer = left.offer /\ e.again = left.again
        /\ e.crashed = left.crashed /\ e.kind = left.kind /\ e.drag = left.drag
        /\ e.held = left.held /\ e.other = left.other /\ e.focus = left.focus
        /\ e.resource = left.resource
    BY <2>3 DEF Fields
  <2>5. e.seen \in SUBSET Odd BY <2>2, <2>3 DEF Shaped, Odd
  <2>6. Shaped(e) BY <2>2, <2>3, <2>4, <2>5 DEF Shaped
  <2>7. Loose(e) /\ \A x \in Sources : Born(left, x) => Born(e, x)
    BY <2>2, <2>3, <2>4, <2>6, FlatKeeps
  <2>8. Place(e) BY <1>1, <2>3, <2>4 DEF Place
  <2>9. Calm(e) BY <1>2, <1>3, <2>3, <2>4 DEF Calm
  <2>10. SameHeard(c, e) BY <1>2, <2>4 DEF SameHeard
  <2> QED BY <1>1, <2>7, <2>8, <2>9, <2>10 DEF Full, Core, e
<1>6. CASE ~(view # None /\ c.focus = Freed /\ read = "same") /\ view # None
  <2>1. e = IF view \notin c.device THEN w ELSE Entered(w, o, view)
    <3>1. e = IF view \notin c.device THEN w
              ELSE [SendOffer(w, c.drag, o, view) EXCEPT !.focus = view, !.resource = view]
      BY <1>0, <1>6 DEF SetFocus, LeftOf
    <3>2. w.drag = c.drag
      <4>1. OnlyOf(left, w, {"source", "offer"}) BY <1>0, <1>1, <1>2, UnlinkKeeps
      <4> QED BY <1>2, <4>1, OnlyTablesFacts
    <3> QED BY <3>1, <3>2 DEF Entered
  <2> HIDE DEF left, e
  <2>2. /\ Core(w) /\ OnlyOf(left, w, {"source", "offer"})
        /\ w.source[s].offer = None
        /\ SrcBut(left.source[s], w.source[s], {"offer"})
        /\ \A x \in Offers : ~left.offer[x].live => ~w.offer[x].live
        /\ Place(w) /\ SameHeard(left, w)
    BY <1>0, <1>1, <1>2, UnlinkKeeps
  <2> HIDE DEF w
  <2>3. /\ w.drag = s /\ w.kind # "none" /\ w.resource = None /\ w.seen = c.seen
        /\ w.device = c.device
    BY <1>1, <1>2, <2>2, OnlyTablesFacts
  <2>4. w.source[s].seat = c.source[s].seat /\ w.source[s].heard = c.source[s].heard
    BY <1>2, <2>2 DEF SrcBut, SourceFields
  <2>7. SameHeard(c, w) BY <1>2, <2>2 DEF SameHeard
  <2>5. CASE view \notin c.device
    <3>1. Calm(w)
      <4> HIDE DEF s
      <4> QED BY <1>3, <2>2, <2>3, <2>4 DEF Calm, Performed
    <3> QED BY <2>1, <2>2, <2>5, <2>7, <3>1 DEF Full, e
  <2>6. CASE view \in c.device
    <3>1. e = Entered(w, o, view) BY <2>1, <2>6
    <3>2. /\ Undropped(w, s)
          /\ ~w.offer[o].live /\ view \in Clients
      BY <1>0, <1>2, <1>3, <1>6, <2>2, <2>3, <2>4 DEF Performed, Undropped
    <3>3. /\ Loose(e) /\ Place(e) /\ \A x \in Sources \ {s} : Born(e, x)
          /\ e.drag = s /\ e.focus = view /\ e.seen = w.seen
          /\ e.source[s].offer = o
          /\ e.source[s].seat = w.source[s].seat
          /\ SameHeard(w, e)
      <4>1. /\ Core(w) /\ Place(w) /\ w.kind # "none" /\ w.drag # None
            /\ w.source[w.drag].offer = None /\ view \in w.device
            /\ Undropped(w, w.drag)
        BY <1>0, <2>2, <2>3, <2>6, <3>2
      <4>2. /\ Loose(Entered(w, o, view)) /\ Place(Entered(w, o, view))
            /\ \A x \in Sources \ {w.drag} : Born(Entered(w, o, view), x)
            /\ Entered(w, o, view).drag = w.drag
            /\ Entered(w, o, view).focus = view
            /\ Entered(w, o, view).seen = w.seen
            /\ Entered(w, o, view).source[w.drag].offer = o
            /\ Entered(w, o, view).source[w.drag].seat = w.source[w.drag].seat
            /\ SameHeard(w, Entered(w, o, view))
        BY <3>2, <4>1, EnterKeeps
      <4> HIDE DEF s
      <4> QED BY <2>3, <3>1, <4>2
    <3>6. e.source[s].heard = w.source[s].heard
      <4> HIDE DEF s
      <4> QED BY <1>0, <3>3 DEF SameHeard
    <3>4. Born(e, s) BY <1>3, <2>4, <3>3, <3>6 DEF Born, Performed
    <3>5. Calm(e)
      <4>1. o # None /\ view # None BY <1>6, DragAssumption
      <4> HIDE DEF s
      <4> QED BY <1>3, <2>3, <2>4, <3>3, <3>6, <4>1 DEF Calm, Performed
    <3>7. SameHeard(c, e) BY <2>7, <3>3 DEF SameHeard
    <3> QED BY <3>3, <3>4, <3>5, <3>7 DEF Full, Core, e
  <2> QED BY <2>5, <2>6 DEF e
<1> QED BY <1>4, <1>5, <1>6

-----------------------------------------------------------------------------
(* One lemma for every action, of the invariant and of who hears of a drop. *)

\* Only the drag changes: it loses its resource, or its focus is freed.
LEMMA FlatFull ==
  ASSUME NEW c, Full(c), NEW e, Shaped(e), e.source = c.source,
         e.offer = c.offer, e.new = c.new, e.drag = c.drag,
         c.seen \subseteq e.seen, e.crashed => e.seen # {}, Place(e),
         e.resource # None => c.resource # None, e.focus = None => c.focus = None
  PROVE  Full(e) /\ NoDrop(c, e)
<1>1. Loose(c) /\ \A x \in Sources : Born(c, x) BY DEF Full, Core
<1>2. Loose(e) /\ \A x \in Sources : Born(c, x) => Born(e, x)
  BY <1>1, FlatKeeps
<1>3. Core(e) BY <1>1, <1>2 DEF Core
<1>4. Calm(e)
  <2>1. Calm(c) BY DEF Full
  <2>2. /\ "second button" \notin e.seen => "second button" \notin c.seen
        /\ e.seen = {} => c.seen = {}
    OBVIOUS
  <2> QED BY <2>1, <2>2, Zenon DEF Calm
<1> QED BY <1>3, <1>4 DEF Full, NoDrop

LEMMA ReleaseDeviceKeeps ==
  ASSUME Full(d), NEW c \in Clients, ReleaseDevice(c)
  PROVE  Full(d') /\ NoDrop(d, d')
<1>0. Shaped(d) /\ Place(d) BY DEF Full, Core, Loose
<1>1. d' = [d EXCEPT !.device = d.device \ {c},
                     !.resource = IF d.resource = c THEN None ELSE d.resource]
  BY DEF ReleaseDevice
<1> DEFINE e == d'
<1> HIDE DEF e
<1>2. /\ DOMAIN e = Fields /\ e.device = d.device \ {c}
      /\ e.resource = (IF d.resource = c THEN None ELSE d.resource)
      /\ \A f \in Fields \ {"device", "resource"} : e[f] = d[f]
  BY <1>0, <1>1 DEF Shaped, Fields, e
<1>3. /\ e.new = d.new /\ e.window = d.window /\ e.source = d.source
      /\ e.offer = d.offer /\ e.kind = d.kind /\ e.drag = d.drag
      /\ e.focus = d.focus /\ e.held = d.held /\ e.other = d.other
      /\ e.again = d.again /\ e.crashed = d.crashed /\ e.seen = d.seen
  BY <1>2 DEF Fields
<1>4. e.resource \in Clients \cup {None} /\ e.device \in SUBSET Clients
  BY <1>0, <1>2 DEF Shaped
<1>5. Shaped(e) BY <1>0, <1>2, <1>3, <1>4 DEF Shaped
<1>6. Place(e) BY <1>0, <1>2, <1>3 DEF Place, AtFocus, Shaped
<1>7. e.crashed => e.seen # {} BY <1>3 DEF Full, Core, Loose
<1> QED BY <1>2, <1>3, <1>5, <1>6, <1>7, FlatFull DEF e

LEMMA DestroyWindowKeeps ==
  ASSUME Full(d), NEW c \in Clients, DestroyWindow(c)
  PROVE  Full(d') /\ NoDrop(d, d')
<1>0. Shaped(d) /\ Place(d) BY DEF Full, Core, Loose
<1>1. /\ d' = [d EXCEPT !.window = d.window \ {c},
                        !.focus = IF d.focus = c THEN Freed ELSE d.focus]
      /\ c # None /\ Freed # None
  BY DragAssumption DEF DestroyWindow
<1> DEFINE e == d'
<1> HIDE DEF e
<1>2. /\ DOMAIN e = Fields /\ e.window = d.window \ {c}
      /\ e.focus = (IF d.focus = c THEN Freed ELSE d.focus)
      /\ \A f \in Fields \ {"window", "focus"} : e[f] = d[f]
  BY <1>0, <1>1 DEF Shaped, Fields, e
<1>3. /\ e.new = d.new /\ e.device = d.device /\ e.source = d.source
      /\ e.offer = d.offer /\ e.kind = d.kind /\ e.drag = d.drag
      /\ e.resource = d.resource /\ e.held = d.held /\ e.other = d.other
      /\ e.again = d.again /\ e.crashed = d.crashed /\ e.seen = d.seen
  BY <1>2 DEF Fields
<1>4. e.window \in SUBSET Clients /\ e.focus \in Clients \cup {None, Freed}
  BY <1>0, <1>2 DEF Shaped
<1>5. Shaped(e) BY <1>0, <1>2, <1>3, <1>4 DEF Shaped
<1>6. Place(e)
  BY <1>0, <1>1, <1>2, <1>3 DEF Place, AtFocus, Shaped
<1>7. e.crashed => e.seen # {} BY <1>3 DEF Full, Core, Loose
<1>8. e.focus = None => d.focus = None BY <1>1, <1>2
<1> QED BY <1>3, <1>5, <1>6, <1>7, <1>8, FlatFull DEF e

LEMMA StartDragNoSourceKeeps ==
  ASSUME Full(d), NEW c \in Clients, StartDragNoSource(c)
  PROVE  Full(d') /\ NoDrop(d, d')
<1>0. Shaped(d) /\ Place(d) BY DEF Full, Core, Loose
<1>1. /\ d' = [d EXCEPT !.kind = "pointer", !.crashed = TRUE,
                        !.seen = d.seen \cup {"no source"}]
      /\ d.kind = "none"
  BY DEF StartDragNoSource
<1> DEFINE e == d'
<1> HIDE DEF e
<1>2. /\ DOMAIN e = Fields /\ e.kind = "pointer" /\ e.crashed = TRUE
      /\ e.seen = d.seen \cup {"no source"}
      /\ \A f \in Fields \ {"kind", "crashed", "seen"} : e[f] = d[f]
  BY <1>0, <1>1 DEF Shaped, Fields, e
<1>3. /\ e.new = d.new /\ e.device = d.device /\ e.source = d.source
      /\ e.offer = d.offer /\ e.window = d.window /\ e.drag = d.drag
      /\ e.resource = d.resource /\ e.held = d.held /\ e.other = d.other
      /\ e.again = d.again /\ e.focus = d.focus
  BY <1>2 DEF Fields
<1>4. e.seen \in SUBSET Odd BY <1>0, <1>2 DEF Shaped, Odd
<1>5. Shaped(e) BY <1>0, <1>2, <1>3, <1>4 DEF Shaped
<1>6. Freed # None BY DragAssumption
<1>7. Place(e) BY <1>0, <1>1, <1>2, <1>3, <1>6 DEF Place
<1>8. d.seen \subseteq e.seen /\ e.seen # {} BY <1>2
<1> QED BY <1>2, <1>3, <1>5, <1>7, <1>8, FlatFull DEF e

\* The grab goes, and with it the drag.
LEMMA EndDragKeeps ==
  ASSUME Full(d), d' = EndDrag(d)
  PROVE  Full(d') /\ NoDrop(d, d')
<1>1. Full(d') /\ d'.source = d.source BY EndKeeps DEF Full
<1> QED BY <1>1 DEF NoDrop

\* The buttons of the grab, and a NULL pointer followed
LEMMA ButtonsKeep ==
  ASSUME Full(d), NEW held \in BOOLEAN, NEW other \in BOOLEAN, NEW again \in BOOLEAN,
         NEW crashed \in BOOLEAN, NEW seen \in SUBSET Odd, d.seen \subseteq seen,
         d.kind = "none" => ~held /\ ~other, crashed => seen # {},
         other => "second button" \in seen, d.crashed => crashed
  PROVE  LET e == [d EXCEPT !.held = held, !.other = other, !.again = again,
                            !.crashed = crashed, !.seen = seen]
         IN Full(e) /\ NoDrop(d, e)
<1>0. Shaped(d) /\ Place(d) BY DEF Full, Core, Loose
<1> DEFINE e == [d EXCEPT !.held = held, !.other = other, !.again = again,
                          !.crashed = crashed, !.seen = seen]
<1>2. /\ DOMAIN e = Fields /\ e.held = held /\ e.other = other /\ e.again = again
      /\ e.crashed = crashed /\ e.seen = seen
      /\ \A f \in Fields \ {"held", "other", "again", "crashed", "seen"} : e[f] = d[f]
  BY <1>0 DEF Shaped, Fields
<1> HIDE DEF e
<1>3. /\ e.new = d.new /\ e.device = d.device /\ e.source = d.source
      /\ e.offer = d.offer /\ e.window = d.window /\ e.drag = d.drag
      /\ e.resource = d.resource /\ e.kind = d.kind /\ e.focus = d.focus
  BY <1>2 DEF Fields
<1>5. Shaped(e) BY <1>0, <1>2, <1>3 DEF Shaped
<1>7. Place(e) BY <1>0, <1>2, <1>3 DEF Place, AtFocus
<1> QED BY <1>2, <1>3, <1>5, <1>7, FlatFull DEF e

LEMMA OtherButtonKeeps ==
  ASSUME Full(d), OtherButton
  PROVE  Full(d') /\ NoDrop(d, d')
<1>0. /\ Shaped(d) /\ Place(d) /\ d.kind # "none"
      /\ d.crashed => d.seen # {}
  BY DEF Full, Core, Loose, OtherButton
<1>1. /\ d.held \in BOOLEAN /\ d.other \in BOOLEAN /\ d.again \in BOOLEAN
      /\ d.crashed \in BOOLEAN /\ d.seen \in SUBSET Odd
      /\ DOMAIN d = Fields
  BY <1>0 DEF Shaped
<1>2. d.other => "second button" \in d.seen BY <1>0 DEF Place
<1>3. CASE ~d.other /\ d' = [d EXCEPT !.other = TRUE, !.seen = @ \cup {"second button"}]
  <2>1. d' = [d EXCEPT !.held = d.held, !.other = TRUE, !.again = d.again,
                       !.crashed = d.crashed, !.seen = d.seen \cup {"second button"}]
    BY <1>1, <1>3 DEF Fields
  <2>2. d.seen \cup {"second button"} \in SUBSET Odd BY <1>1 DEF Odd
  <2> QED BY <1>0, <1>1, <2>1, <2>2, ButtonsKeep
<1>4. CASE d' = [d EXCEPT !.other = FALSE]
  <2>1. d' = [d EXCEPT !.held = d.held, !.other = FALSE, !.again = d.again,
                       !.crashed = d.crashed, !.seen = d.seen]
    BY <1>1, <1>4 DEF Fields
  <2> QED BY <1>0, <1>1, <2>1, ButtonsKeep
<1>5. CASE d' = EndDrag(d) BY <1>5, EndDragKeeps
<1>6. CASE d' = [d EXCEPT !.held = TRUE, !.again = TRUE]
  <2>1. d' = [d EXCEPT !.held = TRUE, !.other = d.other, !.again = TRUE,
                       !.crashed = d.crashed, !.seen = d.seen]
    BY <1>1, <1>6 DEF Fields
  <2> QED BY <1>0, <1>1, <1>2, <2>1, ButtonsKeep
<1> QED BY <1>3, <1>4, <1>5, <1>6 DEF OtherButton

LEMMA FocusStepKeeps ==
  ASSUME Full(d), ~d.crashed, NEW view \in Clients \cup {None}, NEW read \in Reads,
         Focus(view, read)
  PROVE  Full(d') /\ NoDrop(d, d')
<1> DEFINE o == CHOOSE o \in FreeOffers(d) : TRUE
<1>1. o \in FreeOffers(d) BY DEF Focus
<1> HIDE DEF o
<1>2. /\ o \in Offers /\ ~d.offer[o].live BY <1>1 DEF FreeOffers
<1>3. /\ d.kind # "none" /\ d.focus # view /\ view \in d.window \cup {None}
      /\ d' = SetFocus(d, view, read, o)
  BY DEF Focus, o
<1>4. CASE ~(d.focus = Freed /\ view # None /\ read = "crash")
  <2>1. Full(d') /\ SameHeard(d, d') BY <1>2, <1>3, <1>4, FocusKeeps
  <2> QED BY <2>1 DEF SameHeard, NoDrop, Performed
<1>5. CASE d.focus = Freed /\ view # None /\ read = "crash"
  <2>0. Shaped(d) /\ Place(d) BY DEF Full, Core, Loose
  <2>1. d' = [d EXCEPT !.crashed = TRUE, !.seen = d.seen \cup {"window gone"}]
    BY <1>3, <1>5 DEF SetFocus
  <2>2. /\ d.held \in BOOLEAN /\ d.other \in BOOLEAN /\ d.again \in BOOLEAN
        /\ DOMAIN d = Fields
    BY <2>0 DEF Shaped
  <2>3. d' = [d EXCEPT !.held = d.held, !.other = d.other, !.again = d.again,
                       !.crashed = TRUE, !.seen = d.seen \cup {"window gone"}]
    BY <2>1, <2>2 DEF Fields
  <2>4. d.seen \cup {"window gone"} \in SUBSET Odd BY <2>0 DEF Shaped, Odd
  <2>5. /\ d.kind = "none" => ~d.held /\ ~d.other
        /\ d.other => "second button" \in d.seen
    BY <2>0 DEF Place
  <2> QED BY <2>2, <2>3, <2>4, <2>5, ButtonsKeep
<1> QED BY <1>4, <1>5

\* A step that changes one source and one of its offers keeps the invariant
\* if what it leaves of them fits.
OwnPart(c, e, s) ==
  s # None => Born(e, s) /\ (c.drag = s => Calm(e))

LEMMA TouchFull ==
  ASSUME NEW c, Full(c), NEW e, Shaped(e),
         NEW s \in Sources \cup {None}, NEW o \in Offers \cup {None},
         Touched(c, e, s, o), SourceBasics(c, e, s), AgreesNow(c, e, s),
         PointsSame(c, e, s), OwnPart(c, e, s)
  PROVE  Full(e)
<1>1. /\ Loose(c) /\ Place(c) /\ Calm(c) /\ \A x \in Sources : Born(c, x)
  BY DEF Full, Core
<1>2. /\ Loose(e)
      /\ \A x \in Sources \ {s} : Born(c, x) => Born(e, x)
      /\ c.drag # s /\ Calm(c) => Calm(e)
      /\ Place(c) /\ PointsSame(c, e, s) => Place(e)
  BY <1>1, TouchKeeps, TouchBasics
<1>3. ASSUME NEW x \in Sources PROVE Born(e, x)
  <2>1. s = x => s # None BY DragAssumption
  <2> QED BY <1>1, <1>2, <2>1 DEF OwnPart
<1>4. Calm(e)
  <2>1. CASE c.drag # s BY <1>1, <1>2, <2>1
  <2>2. CASE c.drag = s /\ s # None BY <2>2 DEF OwnPart
  <2>3. CASE c.drag = s /\ s = None
    <3>1. e.drag = None
      <4>1. OnlyOf(c, e, {"source", "offer"}) BY DEF Touched
      <4> QED BY <2>3, <4>1, OnlyTablesFacts
    <3> QED BY <3>1 DEF Calm
  <2> QED BY <2>1, <2>2, <2>3
<1> QED BY <1>1, <1>2, <1>3, <1>4 DEF Full, Core

\* Only a source changes.
LEMMA SourceTouched ==
  ASSUME NEW c, Shaped(c), NEW s \in Sources, NEW r \in Source
  PROVE  LET e == [c EXCEPT !.source[s] = r] IN
         /\ Shaped(e) /\ Touched(c, e, s, None) /\ e.source[s] = r
         /\ e.offer = c.offer /\ e.new = c.new /\ e.seen = c.seen
         /\ e.drag = c.drag /\ e.focus = c.focus /\ e.resource = c.resource
<1> DEFINE e == [c EXCEPT !.source[s] = r]
<1>1. /\ Shaped(e) /\ OnlyOf(c, e, {"source"}) /\ e.source[s] = r
      /\ \A x \in Sources \ {s} : e.source[x] = c.source[x]
  BY PutSource
<1> HIDE DEF e
<1>2. /\ e.offer = c.offer /\ e.new = c.new /\ e.seen = c.seen
      /\ e.drag = c.drag /\ e.focus = c.focus /\ e.resource = c.resource
  BY <1>1 DEF OnlyOf, Fields
<1>3. OnlyOf(c, e, {"source", "offer"}) BY <1>1 DEF OnlyOf
<1>4. Touched(c, e, s, None) BY <1>1, <1>2, <1>3 DEF Touched
<1> QED BY <1>1, <1>2, <1>4 DEF e

\* What else follows for who heard of a drop
LEMMA TouchNoDrop ==
  ASSUME NEW c, NEW e, NEW s, NEW o, Touched(c, e, s, o),
         s \in Sources /\ Performed(e.source[s]) => Performed(c.source[s])
  PROVE  NoDrop(c, e)
<1> SUFFICES ASSUME NEW x \in Sources, Performed(e.source[x])
             PROVE  Performed(c.source[x])
  BY DEF NoDrop
<1>1. CASE x = s BY <1>1
<1>2. CASE x # s
  <2>1. e.source[x] = c.source[x] BY <1>2 DEF Touched
  <2> QED BY <2>1
<1> QED BY <1>1, <1>2

LEMMA CreateSourceKeeps ==
  ASSUME Full(d), NEW c \in Clients, NEW s \in Sources, CreateSource(c, s)
  PROVE  Full(d') /\ NoDrop(d, d')
<1> DEFINE r == NewSource(c)
           e == d'
<1>0. Shaped(d) /\ Links(d) /\ None \notin Sources
  BY DragAssumption DEF Full, Core, Loose
<1>1. /\ r \in Source /\ r.life = "live" /\ r.offer = None /\ r.accepted = FALSE
      /\ r.seat = FALSE /\ r.set = FALSE /\ r.actions = {} /\ r.action = None
      /\ r.told = None /\ r.heard = {}
  BY NewSourceIs
<1> HIDE DEF r
<1>2. e = [d EXCEPT !.source[s] = r] /\ d.source[s].life = "unborn"
  BY DEF CreateSource, r
<1> HIDE DEF e
<1>3. /\ Shaped(e) /\ Touched(d, e, s, None) /\ e.source[s] = r
      /\ e.offer = d.offer
  BY <1>0, <1>1, <1>2, SourceTouched
<1>4. SourceBasics(d, e, s)
  <2>1. Life(e, s) BY <1>1, <1>3 DEF Life, Performed
  <2> QED BY <1>1, <1>3, <2>1 DEF SourceBasics
<1>5. AgreesNow(d, e, s)
  <2>1. ASSUME NEW y \in Offers PROVE e.offer[y].source # s
    BY <1>0, <1>2, <1>3 DEF Links
  <2> QED BY <1>1, <1>3, <2>1 DEF AgreesNow, Agree
<1>6. PointsSame(d, e, s) BY <1>1, <1>3 DEF PointsSame
<1>7. OwnPart(d, e, s)
  <2>1. Born(e, s) BY <1>1, <1>3 DEF Born
  <2>2. d.drag # s BY <1>0, <1>2 DEF Links
  <2> QED BY <2>1, <2>2 DEF OwnPart
<1>8. Full(e) BY <1>3, <1>4, <1>5, <1>6, <1>7, TouchFull
<1>9. ~Performed(e.source[s]) BY <1>1, <1>3 DEF Performed
<1> QED BY <1>3, <1>8, <1>9, TouchNoDrop DEF e

LEMMA SourceSetActionsKeeps ==
  ASSUME Full(d), NEW s \in Sources, NEW a \in SUBSET Actions, SourceSetActions(s, a)
  PROVE  Full(d') /\ NoDrop(d, d')
<1> DEFINE p == d.source[s]
           r == [p EXCEPT !.actions = a, !.set = TRUE]
           e == d'
<1>0. /\ Shaped(d) /\ Links(d) /\ Life(d, s) /\ Born(d, s) /\ Calm(d)
      /\ "second button" \notin d.seen => Agree(d, s)
  BY DEF Full, Core, Loose
<1>1. /\ p.life = "live" /\ p.owner \in d.new /\ ~p.set /\ ~p.seat
      /\ e = [d EXCEPT !.source[s] = r]
  BY DEF SourceSetActions
<1>2. p \in Source BY <1>0 DEF Shaped
<1>3. ~Performed(p) /\ p.action = None /\ p.told = None
  BY <1>0, <1>1 DEF Life
<1>4. p.offer = None /\ p.heard = {} BY <1>0, <1>1, <1>3 DEF Born
<1> HIDE DEF p, e
<1>5. r \in Source
  <2>1. TRUE \in BOOLEAN OBVIOUS
  <2> QED BY <1>2, <2>1, Zenon DEF Source
<1>6. /\ r.life = "live" /\ r.owner \in d.new /\ r.offer = None /\ r.set
      /\ r.action = None /\ r.told = None /\ r.heard = {}
  BY <1>1, <1>2, <1>3, <1>4, SourceTypes DEF SourceFields
<1> HIDE DEF r
<1>7. /\ Shaped(e) /\ Touched(d, e, s, None) /\ e.source[s] = r
      /\ e.offer = d.offer /\ e.new = d.new
  <2>1. e = [d EXCEPT !.source[s] = r] /\ Shaped(d) BY <1>0, <1>1
  <2> QED BY <1>5, <2>1, SourceTouched
<1>8. SourceBasics(d, e, s)
  <2>1. Life(e, s) BY <1>6, <1>7 DEF Life, Performed
  <2> QED BY <1>6, <1>7, <2>1 DEF SourceBasics
<1>9. AgreesNow(d, e, s)
  <2> SUFFICES ASSUME "second button" \notin d.seen PROVE Agree(e, s)
    BY DEF AgreesNow
  <2>1. ASSUME NEW y \in Offers PROVE e.offer[y].source # s
    <3>1. y # None BY DragAssumption
    <3> QED BY <1>0, <1>3, <1>4, <1>7, <3>1 DEF Agree, p
  <2> QED BY <1>6, <1>7, <2>1 DEF Agree
<1>10. PointsSame(d, e, s) BY <1>6, <1>7 DEF PointsSame
<1>11. OwnPart(d, e, s)
  <2>1. Born(e, s) BY <1>6, <1>7 DEF Born
  <2>2. d.drag # s
    <3>1. s # None BY DragAssumption
    <3> QED BY <1>0, <1>1, <1>3, <3>1 DEF Calm, p
  <2> QED BY <2>1, <2>2 DEF OwnPart
<1>12. Full(e) BY <1>7, <1>8, <1>9, <1>10, <1>11, TouchFull
<1>13. ~Performed(e.source[s]) BY <1>6, <1>7 DEF Performed
<1> QED BY <1>7, <1>12, <1>13, TouchNoDrop DEF e

\* The action is chosen anew of what both ends agreed on.
LEMMA UpdateFull ==
  ASSUME NEW c, Full(c), NEW o \in Offers, c.offer[o].source # None
  PROVE  Full(UpdateAction(c, o)) /\ NoDrop(c, UpdateAction(c, o))
<1>1. /\ Loose(c) /\ Shaped(c) /\ Links(c) /\ Place(c) /\ Calm(c)
      /\ \A x \in Sources : Life(c, x) /\ Born(c, x)
  BY DEF Full, Core, Loose
<1>2. c.offer[o].source \in Sources BY <1>1, Pointers
<1>3. "second button" \notin c.seen =>
        /\ Nearly(c, c.offer[o].source)
        /\ \A x \in Sources \ {c.offer[o].source} : Agree(c, x)
  <2> SUFFICES ASSUME "second button" \notin c.seen
               PROVE  /\ Nearly(c, c.offer[o].source)
                      /\ \A x \in Sources \ {c.offer[o].source} : Agree(c, x)
    OBVIOUS
  <2>1. \A x \in Sources : Agree(c, x) BY <1>1 DEF Loose
  <2>2. Agree(c, c.offer[o].source) BY <1>2, <2>1
  <2>3. Nearly(c, c.offer[o].source) BY <2>2 DEF Agree, Nearly
  <2> QED BY <2>1, <2>3
<1>4. c.crashed => c.seen # {} BY <1>1 DEF Loose
<1> DEFINE e == UpdateAction(c, o)
<1>0. Shaped(c) /\ Links(c) /\ \A x \in Sources : Life(c, x) BY <1>1
<1>5. Calm(c) => Calm(e) BY <1>0, <1>3, <1>4, UpdateKeeps
<1>6. Loose(e) BY <1>0, <1>3, <1>4, UpdateKeeps
<1>61. Place(c) => Place(e) BY <1>0, <1>3, <1>4, UpdateKeeps
<1>62. \A x \in Sources : Born(c, x) => Born(e, x)
  BY <1>0, <1>3, <1>4, UpdateKeeps
<1>63. \A x \in Sources : e.source[x].heard = c.source[x].heard
  BY <1>0, <1>3, <1>4, UpdateKeeps
<1> HIDE DEF e
<1>7. Full(e) BY <1>1, <1>5, <1>6, <1>61, <1>62 DEF Full, Core
<1>8. NoDrop(c, e) BY <1>63 DEF NoDrop, Performed
<1> QED BY <1>7, <1>8 DEF e

LEMMA ModifiersKeep ==
  ASSUME Full(d), ~d.crashed, NEW action \in {"copy", None}, Modifiers(action)
  PROVE  Full(d') /\ NoDrop(d, d')
<1> DEFINE s == d.drag
           p == d.source[s]
           r == [p EXCEPT !.compositor = action]
           u == [d EXCEPT !.source[s] = r]
<1>0. /\ Shaped(d) /\ Links(d) /\ Place(d) /\ Calm(d) /\ d.kind # "none"
      /\ None \notin Sources /\ None \notin Offers
  BY DragAssumption DEF Full, Core, Loose, Modifiers
<1>1. CASE d.kind = "touch"
  <2>1. /\ d.held \in BOOLEAN /\ d.other \in BOOLEAN /\ d.again \in BOOLEAN
        /\ d.seen \in SUBSET Odd /\ DOMAIN d = Fields
        /\ d.other => "second button" \in d.seen
    BY <1>0 DEF Shaped, Place
  <2>2. d' = [d EXCEPT !.held = d.held, !.other = d.other, !.again = d.again,
                       !.crashed = TRUE, !.seen = d.seen \cup {"modifiers in touch"}]
    BY <1>1, <2>1 DEF Modifiers, Fields
  <2>3. d.seen \cup {"modifiers in touch"} \in SUBSET Odd BY <2>1 DEF Odd
  <2> QED BY <1>0, <2>1, <2>2, <2>3, ButtonsKeep
<1>2. CASE d.kind # "touch"
  <2>1. s \in Sources BY <1>0, Pointers DEF Place
  <2>2. d' = IF p.offer = None THEN u ELSE UpdateAction(u, p.offer)
    BY <1>2 DEF Modifiers
  <2>3. p \in Source /\ p.life = "live" BY <1>0, <2>1 DEF Shaped, Links
  <2>4. /\ Life(d, s) /\ Born(d, s)
        /\ "second button" \notin d.seen => Agree(d, s)
    BY <2>1 DEF Full, Core, Loose
  <2>5. p.offer # None => /\ p.offer \in Offers /\ d.offer[p.offer].live
                          /\ d.offer[p.offer].source = s
    BY <1>0, <2>1, Pointers DEF Links
  <2> HIDE DEF p
  <2>6. r \in Source BY <2>3, Zenon DEF Source
  <2>7. SrcBut(p, r, {"compositor"}) BY <2>3, SourceTypes DEF SrcBut, SourceFields
  <2> HIDE DEF r
  <2>8. /\ r.life = p.life /\ r.owner = p.owner /\ r.offer = p.offer
        /\ r.accepted = p.accepted /\ r.seat = p.seat /\ r.set = p.set
        /\ r.actions = p.actions /\ r.action = p.action /\ r.told = p.told
        /\ r.heard = p.heard
    BY <2>7 DEF SrcBut, SourceFields
  <2>9. /\ Shaped(u) /\ Touched(d, u, s, None) /\ u.source[s] = r
        /\ u.offer = d.offer /\ u.new = d.new /\ u.seen = d.seen
        /\ u.drag = d.drag /\ u.focus = d.focus /\ u.resource = d.resource
    BY <1>0, <2>1, <2>6, SourceTouched
  <2> HIDE DEF u, s
  <2>10. SourceBasics(d, u, s)
    <3>1. Life(u, s) BY <2>4, <2>8, <2>9 DEF Life, Performed, p
    <3> QED BY <2>3, <2>5, <2>8, <2>9, <3>1 DEF SourceBasics
  <2>11. AgreesNow(d, u, s)
    BY <2>4, <2>8, <2>9 DEF AgreesNow, Agree, Performed, p
  <2>12. PointsSame(d, u, s) BY <2>8, <2>9 DEF PointsSame, p
  <2>13. OwnPart(d, u, s)
    <3>1. Born(u, s) BY <2>4, <2>8, <2>9 DEF Born, Performed, p
    <3>2. Calm(u)
      <4>1. u.drag = s /\ s = d.drag BY <2>9 DEF s
      <4> QED BY <1>0, <2>8, <2>9, <4>1 DEF Calm, Performed, p
    <3> QED BY <3>1, <3>2 DEF OwnPart
  <2>14. Full(u)
    BY <2>1, <2>9, <2>10, <2>11, <2>12, <2>13, TouchFull
  <2>15. NoDrop(d, u)
    <3>1. Performed(u.source[s]) => Performed(d.source[s])
      BY <2>8, <2>9 DEF Performed, p
    <3> QED BY <2>9, <3>1, TouchNoDrop
  <2>16. CASE p.offer = None BY <2>2, <2>14, <2>15, <2>16
  <2>17. CASE p.offer # None
    <3>1. p.offer \in Offers /\ u.offer[p.offer].source # None
      BY <1>0, <2>1, <2>5, <2>9, <2>17
    <3>2. Full(d') /\ NoDrop(u, d') BY <2>2, <2>14, <2>17, <3>1, UpdateFull
    <3> QED BY <2>15, <3>2 DEF NoDrop
  <2> QED BY <2>16, <2>17
<1> QED BY <1>1, <1>2

LEMMA AcceptKeeps ==
  ASSUME Full(d), NEW o \in Offers, NEW yes \in BOOLEAN, Accept(o, yes)
  PROVE  Full(d') /\ NoDrop(d, d')
<1> DEFINE s == d.offer[o].source
           p == d.source[s]
           r == [p EXCEPT !.accepted = yes]
           u == [d EXCEPT !.source[s] = r]
           q == d.offer[o]
           t == [q EXCEPT !.took = yes]
           v == [u EXCEPT !.offer[o] = t]
<1>0. /\ Shaped(d) /\ Links(d) /\ Calm(d)
      /\ None \notin Sources /\ None \notin Offers
  BY DragAssumption DEF Full, Core, Loose
<1>1. /\ s \in Sources /\ s # None /\ p.offer = o /\ q.live
  BY <1>0, Pointers DEF Accept, Timely
<1>2. /\ Life(d, s) /\ Born(d, s) /\ p.life = "live"
      /\ "second button" \notin d.seen => Agree(d, s)
  BY <1>0, <1>1 DEF Full, Core, Loose, Links
<1>3. p \in Source /\ q \in Offer BY <1>0, <1>1 DEF Shaped
<1>4. d' = [d EXCEPT !.source[s].accepted = yes, !.offer[o].took = yes]
  BY DEF Accept
<1>41. q.source = s OBVIOUS
<1>5. d' = v
  <2>1. u.offer[o] = d.offer[o] BY <1>0 DEF Shaped, Fields
  <2> QED BY <1>4, <2>1
<1> HIDE DEF p, q
<1>6. r \in Source BY <1>3, Zenon DEF Source
<1>7. r.accepted = yes /\ SrcBut(p, r, {"accepted"})
  BY <1>3, SourceTypes DEF SrcBut, SourceFields
<1>8. t \in Offer BY <1>3, Zenon DEF Offer
<1>9. t.took = yes /\ OffBut(q, t, {"took"})
  BY <1>3, OfferTypes DEF OffBut, OfferFields
<1> HIDE DEF r, t
<1>10. /\ r.life = p.life /\ r.owner = p.owner /\ r.offer = p.offer
       /\ r.seat = p.seat /\ r.set = p.set
       /\ r.actions = p.actions /\ r.action = p.action /\ r.told = p.told
       /\ r.heard = p.heard
  BY <1>7 DEF SrcBut, SourceFields
<1>11. /\ t.live = q.live /\ t.client = q.client /\ t.source = q.source
       /\ t.in_ask = q.in_ask /\ t.actions = q.actions /\ t.told = q.told
  BY <1>9 DEF OffBut, OfferFields
<1>12. /\ Shaped(u) /\ Touched(d, u, s, None) /\ u.source[s] = r
       /\ u.offer = d.offer
  BY <1>0, <1>1, <1>6, SourceTouched
<1> HIDE DEF u
<1>13. /\ Shaped(v) /\ OnlyOf(u, v, {"offer"}) /\ v.offer[o] = t
       /\ \A x \in Offers \ {o} : v.offer[x] = u.offer[x]
  BY <1>8, <1>12, PutOffer
<1> HIDE DEF v, s
<1>14. v.source = u.source BY <1>13 DEF OnlyOf, Fields
<1>15. OnlyOf(d, v, {"source", "offer"}) BY <1>12, <1>13 DEF OnlyOf, Touched
<1>16. /\ v.new = d.new /\ v.drag = d.drag /\ v.focus = d.focus
       /\ v.resource = d.resource /\ v.seen = d.seen
  BY <1>15, OnlyTablesFacts
<1>17. Touched(d, v, s, o)
  <2>1. t.live /\ t.source = s /\ d.offer[o].source = s
    BY <1>1, <1>11, <1>41 DEF q, s
  <2> QED BY <1>12, <1>13, <1>14, <1>15, <2>1 DEF Touched
<1>18. SourceBasics(d, v, s)
  <2>1. Life(v, s)
    <3>1. v.source[s] = r /\ v.offer[o] = t /\ r.offer = o /\ v.new = d.new
      BY <1>1, <1>10, <1>12, <1>13, <1>14, <1>16
    <3>2. Life(d, s) /\ p = d.source[s] BY <1>2 DEF p
    <3>3. r.accepted => t.took BY <1>7, <1>9
    <3> QED BY <1>10, <3>1, <3>2, <3>3 DEF Life, Performed
  <2>2. v.source[s] = r /\ v.offer[o] = t /\ r.offer = o /\ r.life = "live"
    BY <1>1, <1>2, <1>10, <1>12, <1>13, <1>14
  <2>3. t.live /\ t.source = s BY <1>1, <1>11, <1>41 DEF q, s
  <2> QED BY <2>1, <2>2, <2>3 DEF SourceBasics
<1>19. AgreesNow(d, v, s)
  <2> SUFFICES ASSUME "second button" \notin d.seen PROVE Agree(v, s)
    BY DEF AgreesNow
  <2>1. Agree(d, s) BY <1>2
  <2>2. \A y \in Offers : v.offer[y].source = d.offer[y].source
    BY <1>11, <1>12, <1>13 DEF q
  <2>3. \A y \in Offers : v.offer[y].source = s => r.offer = y
    BY <1>0, <1>1, <1>10, <2>1, <2>2 DEF Agree, p
  <2>4. v.source[s] = r /\ v.offer[o] = t BY <1>12, <1>13, <1>14
  <2>5. /\ q = d.offer[d.source[s].offer] /\ p = d.source[s]
        /\ r.offer = o
    BY <1>1, <1>10 DEF q, p
  <2> QED BY <1>10, <1>11, <1>16, <2>1, <2>3, <2>4, <2>5 DEF Agree, Performed
<1>20. PointsSame(d, v, s)
  BY <1>1, <1>10, <1>11, <1>12, <1>13, <1>14 DEF PointsSame, p, q
<1>21. OwnPart(d, v, s)
  <2>1. Born(v, s) BY <1>2, <1>10, <1>12, <1>14 DEF Born, Performed, p
  <2>2. ASSUME d.drag = s PROVE Calm(v)
    <3>1. d.source[s] = p /\ v.source[s] = r BY <1>12, <1>14 DEF p
    <3>2. Performed(r) = Performed(p) BY <1>10 DEF Performed
    <3> QED BY <1>0, <1>10, <1>16, <2>2, <3>1, <3>2 DEF Calm
  <2> QED BY <2>1, <2>2 DEF OwnPart
<1>22. Full(v)
  BY <1>1, <1>13, <1>17, <1>18, <1>19, <1>20, <1>21, TouchFull
<1>23. Performed(v.source[s]) => Performed(d.source[s])
  BY <1>10, <1>12, <1>14 DEF Performed, p
<1> QED BY <1>5, <1>17, <1>22, <1>23, TouchNoDrop

LEMMA OfferSetActionsKeeps ==
  ASSUME Full(d), NEW o \in Offers, NEW a \in SUBSET Actions,
         NEW preferred \in Actions \cup {None}, OfferSetActions(o, a, preferred)
  PROVE  Full(d') /\ NoDrop(d, d')
<1> DEFINE s == d.offer[o].source
           q == d.offer[o]
           t == [q EXCEPT !.actions = a, !.preferred = preferred]
           u == [d EXCEPT !.offer[o] = t]
           e == UpdateAction(u, o)
<1>0. /\ Shaped(d) /\ Links(d) /\ Calm(d) /\ Loose(d) /\ Place(d)
      /\ None \notin Sources /\ None \notin Offers
  BY DragAssumption DEF Full, Core, Loose
<1>1. /\ s \in Sources /\ s # None /\ q.live /\ d' = e
      /\ d.source[s].life = "live"
  BY <1>0, Pointers, NoOfferIs DEF OfferSetActions, Links
<1>2. /\ \A x \in Sources : Life(d, x) /\ Born(d, x)
      /\ Life(d, s)
  BY <1>1 DEF Full, Core, Loose
<1>3. q \in Offer BY <1>0 DEF Shaped
<1>4. q.source = s /\ q = d.offer[o] OBVIOUS
<1> HIDE DEF q, s
<1>5. t \in Offer BY <1>3, Zenon DEF Offer
<1>6. OffBut(q, t, {"actions", "preferred"})
  BY <1>3, OfferTypes DEF OffBut, OfferFields
<1> HIDE DEF t
<1>7. /\ t.live = q.live /\ t.client = q.client /\ t.source = q.source
      /\ t.in_ask = q.in_ask /\ t.took = q.took /\ t.told = q.told
  BY <1>6 DEF OffBut, OfferFields
<1>8. /\ Shaped(u) /\ OnlyOf(d, u, {"offer"}) /\ u.offer[o] = t
      /\ \A x \in Offers \ {o} : u.offer[x] = d.offer[x]
  BY <1>0, <1>5, PutOffer
<1> HIDE DEF u
<1>9. u.source = d.source BY <1>8 DEF OnlyOf, Fields
<1>10. OnlyOf(d, u, {"source", "offer"}) BY <1>8 DEF OnlyOf
<1>11. /\ u.new = d.new /\ u.drag = d.drag /\ u.focus = d.focus
       /\ u.resource = d.resource /\ u.seen = d.seen /\ u.crashed = d.crashed
  BY <1>10, OnlyTablesFacts
<1>12. \A x \in Offers : /\ u.offer[x].live = d.offer[x].live
                         /\ u.offer[x].client = d.offer[x].client
                         /\ u.offer[x].source = d.offer[x].source
                         /\ u.offer[x].in_ask = d.offer[x].in_ask
                         /\ u.offer[x].took = d.offer[x].took
                         /\ u.offer[x].told = d.offer[x].told
  BY <1>4, <1>7, <1>8
<1>13. d.source[s].offer \in Offers \cup {None} BY <1>0, <1>1, Pointers
<1>14. Touched(d, u, s, o)
  BY <1>1, <1>4, <1>7, <1>8, <1>9, <1>10 DEF Touched
<1>15. SourceBasics(d, u, s)
  <2>1. Life(u, s) BY <1>2, <1>9, <1>11, <1>12, <1>13 DEF Life
  <2>2. d.source[s].offer # None => /\ d.offer[d.source[s].offer].live
                                    /\ d.offer[d.source[s].offer].source = s
    BY <1>0, <1>1 DEF Links
  <2> QED BY <1>1, <1>9, <1>12, <1>13, <2>1, <2>2 DEF SourceBasics
<1>16. PointsSame(d, u, s) BY <1>9, <1>12, <1>13 DEF PointsSame
<1>17. /\ Links(u) /\ \A x \in Sources : Life(u, x)
       /\ OthersAgree(u, s) /\ Place(u)
  BY <1>0, <1>1, <1>8, <1>14, <1>15, <1>16, TouchBasics
<1>18. Calm(u) /\ \A x \in Sources : Born(u, x)
  <2>1. Calm(u) BY <1>0, <1>9, <1>11, Zenon DEF Calm
  <2> QED BY <1>2, <1>9, <2>1 DEF Born
<1>19. ASSUME "second button" \notin u.seen PROVE Nearly(u, s)
  <2>1. Agree(d, s) BY <1>0, <1>1, <1>11, <1>19 DEF Loose
  <2>2. \A y \in Offers : u.offer[y].source = s /\ u.source[s].offer # y =>
                            Performed(u.source[s]) /\ u.source[s].offer = None
    BY <1>9, <1>12, <2>1 DEF Agree
  <2> QED BY <1>9, <1>11, <1>12, <1>13, <2>1, <2>2 DEF Agree, Nearly
<1>20. u.offer[o].source = s BY <1>4, <1>7, <1>8
<1>21. "second button" \notin u.seen =>
         /\ Nearly(u, u.offer[o].source)
         /\ \A x \in Sources \ {u.offer[o].source} : Agree(u, x)
  BY <1>17, <1>19, <1>20 DEF OthersAgree
<1>22. u.crashed => u.seen # {} BY <1>0, <1>11 DEF Loose
<1>23. u.offer[o].source # None BY <1>1, <1>20
<1>24. /\ Loose(e) /\ Place(e) /\ Calm(e)
       /\ \A x \in Sources : Born(u, x) => Born(e, x)
       /\ \A x \in Sources : e.source[x].heard = u.source[x].heard
  BY <1>8, <1>17, <1>18, <1>21, <1>22, <1>23, UpdateKeeps
<1> HIDE DEF e
<1>25. Full(e) BY <1>18, <1>24 DEF Full, Core
<1>26. NoDrop(d, e) BY <1>9, <1>24 DEF NoDrop, Performed
<1> QED BY <1>1, <1>25, <1>26

\* The drag begins, before its first focus.
Began(c, s, kind) == [c EXCEPT !.kind = kind, !.drag = s, !.held = (kind = "pointer")]

LEMMA BeganFacts ==
  ASSUME Full(d), NEW s \in Sources, NEW kind \in {"pointer", "touch"},
         d.kind = "none", d.source[s].life = "live"
  PROVE  LET c == Began(d, s, kind) IN
         /\ Core(c) /\ Place(c) /\ c.kind # "none" /\ c.drag = s
         /\ c.focus = None /\ c.resource = None /\ c.source = d.source
         /\ c.offer = d.offer /\ c.device = d.device /\ c.window = d.window
         /\ c.crashed = d.crashed /\ c.seen = d.seen
<1> DEFINE c == Began(d, s, kind)
<1>0. Shaped(d) /\ Place(d) /\ Core(d) /\ Loose(d) BY DEF Full, Core, Loose
<1>1. /\ DOMAIN c = Fields /\ c.kind = kind /\ c.drag = s
      /\ c.held = (kind = "pointer")
      /\ \A f \in Fields \ {"kind", "drag", "held"} : c[f] = d[f]
  BY <1>0 DEF Shaped, Fields, Began
<1> HIDE DEF c
<1>2. /\ c.new = d.new /\ c.device = d.device /\ c.window = d.window
      /\ c.source = d.source /\ c.offer = d.offer /\ c.again = d.again
      /\ c.crashed = d.crashed /\ c.focus = d.focus /\ c.resource = d.resource
      /\ c.other = d.other /\ c.seen = d.seen
  BY <1>1 DEF Fields
<1>3. Shaped(c) BY <1>0, <1>1, <1>2 DEF Shaped
<1>4. d.resource = None /\ d.focus = None /\ ~d.other BY <1>0 DEF Place
<1>5. Links(c)
  <2>1. Links(d) BY <1>0 DEF Loose
  <2>2. c.drag # None => c.source[c.drag].life = "live" BY <1>1, <1>2
  <2>3. c.source = d.source /\ c.offer = d.offer BY <1>2
  <2> QED BY <2>1, <2>2, <2>3, SMT DEF Links
<1>6. /\ \A x \in Sources : Life(d, x) => Life(c, x)
      /\ \A x \in Sources : Born(d, x) => Born(c, x)
      /\ \A x \in Sources : Agree(d, x) => Agree(c, x)
  BY <1>0, <1>1, <1>2, FlatFacts
<1>7. Core(c) BY <1>0, <1>2, <1>3, <1>5, <1>6 DEF Core, Loose
<1>8. s # None /\ Freed # None BY DragAssumption
<1>9. Place(c) BY <1>1, <1>2, <1>4, <1>8 DEF Place
<1> QED BY <1>1, <1>2, <1>4, <1>7, <1>9 DEF c

LEMMA StartDragKeeps ==
  ASSUME Full(d), ~d.crashed, NEW s \in Sources, NEW kind \in {"pointer", "touch"},
         StartDrag(s, kind)
  PROVE  Full(d') /\ NoDrop(d, d')
<1> DEFINE o == CHOOSE o \in FreeOffers(d) : TRUE
           c == Began(d, s, kind)
           view == d.source[s].owner
           e == SetFocus(c, view, "other", o)
           r == [e.source[s] EXCEPT !.seat = TRUE]
           w == [e EXCEPT !.source[s] = r]
<1>1. o \in FreeOffers(d) BY DEF StartDrag
<1> HIDE DEF o
<1>2. o \in Offers /\ ~d.offer[o].live /\ o # None /\ s # None
  BY <1>1, DragAssumption DEF FreeOffers
<1>3. /\ d.kind = "none" /\ d.source[s].life = "live" /\ ~d.source[s].seat
      /\ ~Performed(d.source[s]) /\ view \in d.device /\ view \in d.window
      /\ d' = w
  BY DEF StartDrag, Started, Performed, Began, o
<1>4. d.source[s].offer = None /\ d.source[s].heard = {}
  BY <1>3 DEF Full, Core, Born
<1>5. /\ Core(c) /\ Place(c) /\ c.kind # "none" /\ c.drag = s
      /\ c.focus = None /\ c.resource = None /\ c.source = d.source
      /\ c.offer = d.offer /\ c.device = d.device /\ c.seen = d.seen
  BY <1>3, BeganFacts
<1> HIDE DEF c
<1>6. view \in Clients /\ view # None /\ view # Freed
  <2>1. d.device \subseteq Clients BY DEF Full, Core, Loose, Shaped
  <2> QED BY <1>3, <2>1, DragAssumption
<1> HIDE DEF view
<1>7. e = Entered(c, o, view)
  <2>1. Unlink(c) = c BY <1>4, <1>5 DEF Unlink
  <2>2. None # Freed BY DragAssumption
  <2>3. e = [SendOffer(Unlink(c), c.drag, o, view) EXCEPT !.focus = view, !.resource = view]
    BY <1>2, <1>3, <1>5, <1>6, <2>2 DEF SetFocus
  <2> QED BY <2>1, <2>3 DEF Entered
<1>8. /\ Loose(e) /\ Place(e) /\ \A x \in Sources \ {s} : Born(e, x)
      /\ e.drag = s /\ e.focus = view /\ e.source[s].offer = o
      /\ SameHeard(c, e)
  <2>1. /\ c.drag # None /\ c.source[c.drag].offer = None
        /\ Undropped(c, c.drag) /\ ~c.offer[o].live /\ view \in c.device
    BY <1>2, <1>3, <1>4, <1>5 DEF Undropped
  <2>2. /\ Loose(Entered(c, o, view)) /\ Place(Entered(c, o, view))
        /\ \A x \in Sources \ {c.drag} : Born(Entered(c, o, view), x)
        /\ Entered(c, o, view).drag = c.drag
        /\ Entered(c, o, view).focus = view
        /\ Entered(c, o, view).source[c.drag].offer = o
        /\ SameHeard(c, Entered(c, o, view))
    BY <1>2, <1>5, <1>6, <2>1, EnterKeeps
  <2> QED BY <1>5, <1>7, <2>2
<1> HIDE DEF e
<1>9. /\ Shaped(e) /\ Links(e) /\ e.source[s] \in Source /\ Life(e, s)
      /\ e.source[s].heard = {} /\ e.source[s].life = "live"
  <2>1. Shaped(e) /\ Links(e) /\ Life(e, s) BY <1>8 DEF Loose
  <2>2. e.source[s].heard = {} BY <1>4, <1>5, <1>8 DEF SameHeard
  <2> QED BY <1>2, <1>8, <2>1, <2>2 DEF Shaped, Links
<1>10. r \in Source
  <2>1. TRUE \in BOOLEAN OBVIOUS
  <2> QED BY <1>9, <2>1, Zenon DEF Source
<1>11. r.seat = TRUE /\ SrcBut(e.source[s], r, {"seat"})
  BY <1>9, SourceTypes DEF SrcBut, SourceFields
<1> HIDE DEF r
<1>12. /\ r.life = "live" /\ r.owner = e.source[s].owner /\ r.offer = o
       /\ r.accepted = e.source[s].accepted /\ r.set = e.source[s].set
       /\ r.actions = e.source[s].actions /\ r.action = e.source[s].action
       /\ r.told = e.source[s].told /\ r.heard = {}
  BY <1>8, <1>9, <1>11 DEF SrcBut, SourceFields
<1>13. /\ Shaped(w) /\ Touched(e, w, s, None) /\ w.source[s] = r
       /\ w.offer = e.offer /\ w.new = e.new /\ w.seen = e.seen
       /\ w.drag = e.drag /\ w.focus = e.focus /\ w.resource = e.resource
  BY <1>9, <1>10, SourceTouched
<1> HIDE DEF w
<1>14. SourceBasics(e, w, s)
  <2>1. Life(w, s) BY <1>8, <1>9, <1>12, <1>13 DEF Life, Performed
  <2>2. e.offer[o].live /\ e.offer[o].source = s BY <1>2, <1>8, <1>9 DEF Links
  <2> QED BY <1>12, <1>13, <2>1, <2>2 DEF SourceBasics
<1>15. AgreesNow(e, w, s)
  <2> SUFFICES ASSUME "second button" \notin e.seen PROVE Agree(w, s)
    BY DEF AgreesNow
  <2>1. Agree(e, s) BY <1>8 DEF Loose
  <2>2. /\ r.life = e.source[s].life /\ r.owner = e.source[s].owner
        /\ r.offer = e.source[s].offer /\ r.set = e.source[s].set
        /\ r.actions = e.source[s].actions /\ r.action = e.source[s].action
        /\ r.told = e.source[s].told
        /\ Performed(r) = Performed(e.source[s])
    BY <1>8, <1>9, <1>12 DEF Performed
  <2>3. w.source[s] = r /\ w.offer = e.offer /\ w.new = e.new BY <1>13
  <2> QED BY <2>1, <2>2, <2>3 DEF Agree
<1>16. PointsSame(e, w, s) BY <1>8, <1>12, <1>13 DEF PointsSame
<1>17. /\ Loose(w) /\ Place(w) /\ \A x \in Sources \ {s} : Born(w, x)
  BY <1>8, <1>13, <1>14, <1>15, <1>16, TouchKeeps, TouchBasics
<1>18. Born(w, s) BY <1>11, <1>13 DEF Born
<1>19. Calm(w) BY <1>2, <1>6, <1>8, <1>11, <1>12, <1>13 DEF Calm, Performed
<1>20. Full(w) BY <1>17, <1>18, <1>19 DEF Full, Core
<1>21. NoDrop(d, w)
  <2>1. NoDrop(e, w)
    <3>1. Performed(w.source[s]) => Performed(e.source[s])
      BY <1>9, <1>12, <1>13 DEF Performed
    <3> QED BY <1>13, <3>1, TouchNoDrop
  <2>2. \A x \in Sources : e.source[x].heard = d.source[x].heard
    BY <1>5, <1>8 DEF SameHeard
  <2> QED BY <2>1, <2>2 DEF NoDrop, Performed
<1> QED BY <1>3, <1>20, <1>21 DEF w

-----------------------------------------------------------------------------
(* What a source is told, and the end of offers.                           *)

SetSource(c, s, r) == [c EXCEPT !.source[s] = r]
TellSource(c, r, event) ==
  IF r.owner \notin c.new THEN r ELSE [r EXCEPT !.heard = @ \cup {event}]

\* Of the record u, which is c or c with another source s
PutsSource(u, c, s, r) ==
  /\ u.source[s] = r /\ u.new = c.new /\ u.offer = c.offer /\ Shaped(u)
  /\ \A q : SetSource(u, s, q) = SetSource(c, s, q)

LEMMA PutsSourceSame ==
  ASSUME NEW c, Shaped(c), NEW s \in Sources
  PROVE  PutsSource(c, c, s, c.source[s])
  BY DEF PutsSource

LEMMA PutsSourceFacts ==
  ASSUME NEW c, NEW s \in Sources, NEW u, NEW b, PutsSource(u, c, s, b), NEW r \in Source
  PROVE  PutsSource(SetSource(u, s, r), c, s, r)
<1> DEFINE tab == [u.source EXCEPT ![s] = r]
           w == [u EXCEPT !.source = tab]
<1>1. w = SetSource(u, s, r) BY DEF SetSource
<1>2. Shaped(u) /\ "source" \in DOMAIN u /\ "new" \in DOMAIN u /\ "offer" \in DOMAIN u
      /\ s \in DOMAIN u.source
  BY DEF PutsSource, Shaped, Fields
<1>3. Shaped(w) BY <1>1, <1>2, PutSource DEF SetSource
<1>4. w.source = tab /\ w.new = u.new /\ w.offer = u.offer BY <1>2
<1>5. tab[s] = r BY <1>2
<1>6. ASSUME NEW q PROVE SetSource(w, s, q) = SetSource(u, s, q)
  <2>1. [tab EXCEPT ![s] = q] = [u.source EXCEPT ![s] = q] BY <1>2
  <2> HIDE DEF tab
  <2>2. SetSource(w, s, q) = [w EXCEPT !.source = [w.source EXCEPT ![s] = q]]
    BY DEF SetSource
  <2>3. SetSource(u, s, q) = [u EXCEPT !.source = [u.source EXCEPT ![s] = q]]
    BY DEF SetSource
  <2>4. \A t : [w EXCEPT !.source = t] = [u EXCEPT !.source = t] BY <1>2
  <2> HIDE DEF w
  <2> QED BY <1>4, <2>1, <2>2, <2>3, <2>4
<1> HIDE DEF w, tab
<1> QED BY <1>1, <1>3, <1>4, <1>5, <1>6 DEF PutsSource

LEMMA TellSourceFacts ==
  ASSUME NEW c, NEW r \in Source, NEW event \in Events
  PROVE  LET q == TellSource(c, r, event) IN
         /\ q \in Source /\ SrcBut(r, q, {"heard"})
         /\ r.heard \subseteq q.heard /\ q.heard \subseteq r.heard \cup {event}
<1> DEFINE q == TellSource(c, r, event)
<1>1. CASE r.owner \notin c.new
  <2>1. q = r BY <1>1 DEF TellSource
  <2> HIDE DEF q
  <2> QED BY <2>1 DEF SrcBut, q
<1>2. CASE r.owner \in c.new
  <2>1. q = [r EXCEPT !.heard = r.heard \cup {event}] BY <1>2 DEF TellSource
  <2> HIDE DEF q
  <2>2. r.heard \cup {event} \in SUBSET Events BY SourceTypes
  <2>3. q \in Source BY <2>1, <2>2, Zenon DEF Source, Events
  <2>4. q.heard = r.heard \cup {event} /\ SrcBut(r, q, {"heard"})
    BY <2>1, SourceTypes DEF SrcBut, SourceFields
  <2> QED BY <2>3, <2>4 DEF q
<1> QED BY <1>1, <1>2

LEMMA TellIs ==
  ASSUME NEW c, NEW s \in Sources, NEW u, NEW r \in Source, PutsSource(u, c, s, r),
         NEW event \in Events
  PROVE  PutsSource(Tell(u, s, event), c, s, TellSource(c, r, event))
<1>0. u.source[s] = r /\ u.new = c.new BY DEF PutsSource
<1>1. CASE r.owner \notin c.new
  <2>1. Tell(u, s, event) = u BY <1>0, <1>1 DEF Tell
  <2>2. TellSource(c, r, event) = r BY <1>1 DEF TellSource
  <2> QED BY <2>1, <2>2
<1>2. CASE r.owner \in c.new
  <2>1. Tell(u, s, event) = SetSource(u, s, TellSource(c, r, event))
    BY <1>0, <1>2 DEF Tell, TellSource, SetSource
  <2>2. TellSource(c, r, event) \in Source BY TellSourceFacts
  <2> HIDE DEF TellSource
  <2> QED BY <2>1, <2>2, PutsSourceFacts
<1> QED BY <1>1, <1>2

\* A source is told of the end, and its offer is no longer current.
ToldSource(c, s, q) ==
  LET p == c.source[s] IN
  /\ q \in Source /\ SrcBut(p, q, {"told", "heard", "offer"})
  /\ q.told \in {p.told, p.action} /\ p.heard \subseteq q.heard
  /\ q.heard \subseteq p.heard \cup {"dnd_finished", "cancelled"}
FinishedSource(c, s, q) == ToldSource(c, s, q) /\ q.offer = None

LEMMA NotifyFinishIs ==
  ASSUME NEW c, Shaped(c), NEW s \in Sources, c.source[s].set
  PROVE  \E q : /\ NotifyFinish(c, s) = SetSource(c, s, q)
                /\ FinishedSource(c, s, q)
<1> DEFINE p == c.source[s]
           asked == c.offer[p.offer].in_ask /\ p.owner \in c.new
           a == IF asked THEN [p EXCEPT !.told = p.action] ELSE p
           heard == IF asked THEN [c EXCEPT !.source[s].told = p.action] ELSE c
           b == TellSource(c, a, "dnd_finished")
           q == [b EXCEPT !.offer = None]
<1>1. p \in Source BY DEF Shaped
<1>2. NotifyFinish(c, s) = [Tell(heard, s, "dnd_finished") EXCEPT !.source[s].offer = None]
  BY DEF NotifyFinish
<1>4. /\ a \in Source /\ a.told \in {p.told, p.action} /\ SrcBut(p, a, {"told"})
  <2>1. CASE asked
    <3>1. p.action \in Actions \cup {None} BY <1>1, SourceTypes
    <3>2. a = [p EXCEPT !.told = p.action] BY <2>1
    <3> HIDE DEF a, p
    <3>3. a \in Source BY <1>1, <3>1, <3>2, Zenon DEF Source
    <3>4. a.told = p.action /\ SrcBut(p, a, {"told"})
      BY <1>1, <3>2, SourceTypes DEF SrcBut, SourceFields
    <3> QED BY <3>3, <3>4
  <2>2. CASE ~asked
    <3>1. a = p BY <2>2
    <3> HIDE DEF a, p
    <3> QED BY <1>1, <3>1 DEF SrcBut
  <2> QED BY <2>1, <2>2
<1>3. PutsSource(heard, c, s, a)
  <2>1. CASE asked
    <3>1. heard = SetSource(c, s, a) BY <2>1 DEF SetSource
    <3> HIDE DEF a, heard
    <3> QED BY <1>4, <3>1, PutsSourceSame, PutsSourceFacts
  <2>2. CASE ~asked BY <2>2, PutsSourceSame
  <2> QED BY <2>1, <2>2
<1> HIDE DEF a, p, heard
<1>5. /\ b \in Source /\ SrcBut(a, b, {"heard"})
      /\ a.heard \subseteq b.heard /\ b.heard \subseteq a.heard \cup {"dnd_finished"}
  BY <1>4, TellSourceFacts DEF Events
<1>6. PutsSource(Tell(heard, s, "dnd_finished"), c, s, b)
  BY <1>3, <1>4, TellIs DEF Events
<1> HIDE DEF b
<1>7. NotifyFinish(c, s) = SetSource(c, s, q)
  <2> DEFINE u == Tell(heard, s, "dnd_finished")
  <2>1. u.source[s] = b BY <1>6 DEF PutsSource
  <2>2. NotifyFinish(c, s) = [u EXCEPT !.source[s].offer = None] BY <1>2
  <2> HIDE DEF u
  <2>3. NotifyFinish(c, s) = SetSource(u, s, q) BY <2>1, <2>2 DEF SetSource
  <2> HIDE DEF q
  <2> QED BY <1>6, <2>3 DEF u, PutsSource
<1>8. q \in Source
  <2>1. None \in Offers \cup {None} OBVIOUS
  <2> QED BY <1>5, <2>1, Zenon DEF Source
<1>9. q.offer = None /\ SrcBut(b, q, {"offer"})
  BY <1>5, SourceTypes DEF SrcBut, SourceFields
<1> HIDE DEF q
<1>10. SrcBut(p, q, {"told", "heard", "offer"}) BY <1>4, <1>5, <1>9 DEF SrcBut
<1>11. q.heard = b.heard /\ q.told = a.told /\ a.heard = p.heard
  BY <1>4, <1>5, <1>9 DEF SrcBut, SourceFields
<1>12. FinishedSource(c, s, q)
  BY <1>4, <1>5, <1>8, <1>9, <1>10, <1>11 DEF FinishedSource, ToldSource, p
<1> QED BY <1>7, <1>12

LEMMA OfferGoneIs ==
  ASSUME NEW c, Shaped(c), NEW o \in Offers, c.offer[o].source # None,
         c.source[c.offer[o].source].offer = o
  PROVE  LET s == c.offer[o].source IN
         \E q : /\ OfferGone(c, o) = SetSource(c, s, q)
                /\ FinishedSource(c, s, q)
                /\ c.new = Clients =>
                     q.heard \subseteq c.source[s].heard \cup {"cancelled"}
<1> DEFINE s == c.offer[o].source
           p == c.source[s]
           u == IF c.offer[o].client \in c.new THEN Tell(c, s, "cancelled")
                ELSE NotifyFinish(c, s)
<1>1. /\ s \in Sources /\ p \in Source /\ c.offer[o] \in Offer
  <2>1. s \in Sources /\ c.offer[o] \in Offer BY Pointers DEF Shaped
  <2> QED BY <2>1 DEF Shaped
<1>2. OfferGone(c, o) = [u EXCEPT !.source[s].offer = None] BY DEF OfferGone
<1>3. PutsSource(c, c, s, p) BY <1>1, PutsSourceSame
<1>4. c.new = Clients => c.offer[o].client \in c.new BY <1>1, OfferTypes
<1>5. \E b : /\ PutsSource(u, c, s, b) /\ ToldSource(c, s, b)
             /\ c.new = Clients => b.heard \subseteq p.heard \cup {"cancelled"}
  <2>1. CASE c.offer[o].client \in c.new
    <3> DEFINE b == TellSource(c, p, "cancelled")
    <3>1. u = Tell(c, s, "cancelled") BY <2>1
    <3> HIDE DEF u, p, s
    <3>2. PutsSource(u, c, s, b) BY <1>1, <1>3, <3>1, TellIs DEF Events
    <3>3. /\ b \in Source /\ SrcBut(p, b, {"heard"})
          /\ p.heard \subseteq b.heard /\ b.heard \subseteq p.heard \cup {"cancelled"}
      BY <1>1, TellSourceFacts DEF Events
    <3> HIDE DEF b
    <3>4. SrcBut(p, b, {"told", "heard", "offer"}) /\ b.told = p.told
      BY <3>3 DEF SrcBut, SourceFields
    <3>5. ToldSource(c, s, b) BY <3>3, <3>4 DEF ToldSource, p
    <3> QED BY <3>2, <3>3, <3>5
  <2>2. CASE c.offer[o].client \notin c.new /\ ~p.set
    <3>1. u = c BY <2>2 DEF NotifyFinish
    <3> HIDE DEF u
    <3>2. ToldSource(c, s, p) BY <1>1 DEF ToldSource, SrcBut
    <3> QED BY <1>3, <3>1, <3>2
  <2>3. CASE c.offer[o].client \notin c.new /\ p.set
    <3>1. u = NotifyFinish(c, s) BY <2>3
    <3> HIDE DEF u
    <3>2. PICK q : u = SetSource(c, s, q) /\ FinishedSource(c, s, q)
      BY <1>1, <2>3, <3>1, NotifyFinishIs
    <3>3. PutsSource(u, c, s, q)
      BY <1>1, <1>3, <3>2, PutsSourceFacts DEF FinishedSource, ToldSource
    <3>4. c.new # Clients BY <1>4, <2>3
    <3> QED BY <3>2, <3>3, <3>4 DEF FinishedSource
  <2> QED BY <2>1, <2>2, <2>3
<1>6. PICK b : /\ PutsSource(u, c, s, b) /\ ToldSource(c, s, b)
               /\ c.new = Clients => b.heard \subseteq p.heard \cup {"cancelled"}
  BY <1>5
<1> HIDE DEF u
<1> DEFINE q == [b EXCEPT !.offer = None]
<1>7. u.source[s] = b BY <1>6 DEF PutsSource
<1>8. OfferGone(c, o) = SetSource(u, s, q) BY <1>2, <1>7 DEF SetSource
<1>9. b \in Source BY <1>6 DEF ToldSource
<1>10. q \in Source
  <2>1. None \in Offers \cup {None} OBVIOUS
  <2> QED BY <1>9, <2>1, Zenon DEF Source
<1>11. q.offer = None /\ SrcBut(b, q, {"offer"})
  BY <1>9, SourceTypes DEF SrcBut, SourceFields
<1> HIDE DEF q, p, s
<1>12. OfferGone(c, o) = SetSource(c, s, q) BY <1>6, <1>8 DEF PutsSource
<1>13. q.told = b.told /\ q.heard = b.heard BY <1>11 DEF SrcBut, SourceFields
<1>14. SrcBut(p, q, {"told", "heard", "offer"})
  BY <1>6, <1>11 DEF SrcBut, ToldSource, p
<1>15. FinishedSource(c, s, q)
  BY <1>6, <1>10, <1>11, <1>13, <1>14 DEF FinishedSource, ToldSource, p
<1> QED BY <1>6, <1>12, <1>13, <1>15 DEF p, s

\* What a source knows of its life after it was told.
LEMMA FinishedFacts ==
  ASSUME NEW c, NEW s \in Sources, NEW q, FinishedSource(c, s, q)
  PROVE  LET p == c.source[s] IN
         /\ q \in Source
         /\ q.life = p.life /\ q.owner = p.owner /\ q.seat = p.seat
         /\ q.set = p.set /\ q.actions = p.actions /\ q.action = p.action
         /\ q.accepted = p.accepted /\ q.offer = None
         /\ q.told \in {p.told, p.action} /\ Performed(q) = Performed(p)
         /\ \A e : /\ Life(c, s) /\ e.source[s] = q /\ e.new = c.new
                   /\ c.new = Clients /\ "dnd_finished" \in q.heard =>
                        Performed(p) \/ "dnd_finished" \in p.heard
                   => Life(e, s)
<1> DEFINE p == c.source[s]
<1>1. /\ q \in Source /\ SrcBut(p, q, {"told", "heard", "offer"})
      /\ q.told \in {p.told, p.action} /\ p.heard \subseteq q.heard
      /\ q.heard \subseteq p.heard \cup {"dnd_finished", "cancelled"} /\ q.offer = None
  BY DEF FinishedSource, ToldSource
<1> HIDE DEF p
<1>2. /\ q.life = p.life /\ q.owner = p.owner /\ q.seat = p.seat
      /\ q.set = p.set /\ q.actions = p.actions /\ q.action = p.action
      /\ q.accepted = p.accepted
  BY <1>1 DEF SrcBut, SourceFields
<1>3. Performed(q) = Performed(p) BY <1>1 DEF Performed
<1>4. ASSUME NEW e, Life(c, s), e.source[s] = q, e.new = c.new,
             c.new = Clients /\ "dnd_finished" \in q.heard =>
               Performed(p) \/ "dnd_finished" \in p.heard
      PROVE  Life(e, s)
  <2>1. /\ Performed(p) => p.set
        /\ ~p.set => p.action = None /\ p.told = None /\ p.actions = {}
        /\ p.set => p.owner \in c.new
        /\ "dnd_finished" \in p.heard /\ c.new = Clients => Performed(p)
    BY <1>4 DEF Life, p
  <2>2. /\ Performed(q) => q.set
        /\ ~q.set => q.action = None /\ q.told = None /\ q.actions = {}
        /\ q.set => q.owner \in e.new
        /\ "dnd_finished" \in q.heard /\ e.new = Clients => Performed(q)
    BY <1>1, <1>2, <1>3, <1>4, <2>1
  <2> QED BY <1>1, <1>4, <2>2 DEF Life
<1> QED BY <1>1, <1>2, <1>3, <1>4 DEF p

LEMMA FinishKeeps ==
  ASSUME Full(d), NEW o \in Offers, Finish(o)
  PROVE  Full(d') /\ NoDrop(d, d')
<1> DEFINE s == d.offer[o].source
           p == d.source[s]
           e == d'
<1>0. /\ Shaped(d) /\ Links(d) /\ Calm(d) /\ Loose(d)
      /\ None \notin Sources /\ None \notin Offers
  BY DragAssumption DEF Full, Core, Loose
<1>1. /\ s \in Sources /\ p.offer = o /\ ~p.seat /\ p.action # None
      /\ e = NotifyFinish(d, s) /\ p.life = "live"
  BY <1>0, Pointers DEF Finish, Timely, Links
<1>2. Life(d, s) /\ Born(d, s) BY <1>1 DEF Full, Core, Loose
<1>3. p.set /\ Performed(p)
  BY <1>0, <1>1, <1>2 DEF Life, Born
<1> HIDE DEF e, s
<1>4. PICK q : e = SetSource(d, s, q) /\ FinishedSource(d, s, q)
  BY <1>0, <1>1, <1>3, NotifyFinishIs
<1>5. /\ q \in Source /\ q.life = p.life /\ q.owner = p.owner /\ q.seat = p.seat
      /\ q.set = p.set /\ q.actions = p.actions /\ q.action = p.action
      /\ q.offer = None /\ Performed(q) = Performed(p)
  BY <1>1, <1>4, FinishedFacts
<1>6. /\ Shaped(e) /\ Touched(d, e, s, None) /\ e.source[s] = q
      /\ e.offer = d.offer /\ e.new = d.new /\ e.seen = d.seen
      /\ e.drag = d.drag /\ e.focus = d.focus /\ e.resource = d.resource
  BY <1>0, <1>1, <1>4, <1>5, SourceTouched DEF SetSource
<1>7. SourceBasics(d, e, s)
  <2>1. Life(e, s) BY <1>1, <1>2, <1>3, <1>4, <1>6, FinishedFacts
  <2> QED BY <1>1, <1>5, <1>6, <2>1 DEF SourceBasics
<1>8. AgreesNow(d, e, s) BY <1>3, <1>5, <1>6 DEF AgreesNow, Agree
<1>9. PointsSame(d, e, s) BY <1>5, <1>6 DEF PointsSame
<1>10. OwnPart(d, e, s)
  <2>1. Born(e, s) BY <1>3, <1>5, <1>6 DEF Born
  <2>2. ASSUME d.drag = s PROVE Calm(e)
    <3>1. "second button" \in d.seen BY <1>0, <1>1, <2>2 DEF Calm
    <3>2. e.seen # {} /\ "second button" \in e.seen BY <1>6, <3>1
    <3>3. Performed(e.source[e.drag]) BY <1>3, <1>5, <1>6, <2>2
    <3> QED BY <3>2, <3>3 DEF Calm
  <2> QED BY <2>1, <2>2 DEF OwnPart
<1>11. Full(e) BY <1>1, <1>6, <1>7, <1>8, <1>9, <1>10, TouchFull
<1>12. NoDrop(d, e)
  <2>1. Performed(e.source[s]) => Performed(d.source[s]) BY <1>3
  <2> QED BY <1>6, <2>1, TouchNoDrop
<1> QED BY <1>11, <1>12 DEF e

\* More was seen.
LEMMA SeenMore ==
  ASSUME NEW c, Loose(c), NEW odd \in SUBSET Odd, c.seen \subseteq odd
  PROVE  LET e == [c EXCEPT !.seen = odd] IN
         /\ Loose(e) /\ \A x \in Sources : Born(c, x) => Born(e, x)
         /\ Place(c) => Place(e)
         /\ e.source = c.source /\ e.seen = odd /\ e.drag = c.drag
         /\ e.resource = c.resource /\ e.focus = c.focus
<1> DEFINE e == [c EXCEPT !.seen = odd]
<1>0. Shaped(c) BY DEF Loose
<1>1. /\ DOMAIN e = Fields /\ e.seen = odd
      /\ \A f \in Fields \ {"seen"} : e[f] = c[f]
  BY <1>0 DEF Shaped, Fields
<1> HIDE DEF e
<1>2. /\ e.new = c.new /\ e.device = c.device /\ e.window = c.window
      /\ e.source = c.source /\ e.offer = c.offer /\ e.again = c.again
      /\ e.crashed = c.crashed /\ e.focus = c.focus /\ e.resource = c.resource
      /\ e.other = c.other /\ e.kind = c.kind /\ e.drag = c.drag /\ e.held = c.held
  BY <1>1 DEF Fields
<1>3. Shaped(e) BY <1>0, <1>1, <1>2 DEF Shaped
<1>4. e.crashed => e.seen # {} BY <1>1, <1>2 DEF Loose
<1>5. Loose(e) /\ \A x \in Sources : Born(c, x) => Born(e, x)
  BY <1>1, <1>2, <1>3, <1>4, FlatKeeps
<1>6. Place(c) => Place(e)
  <2> SUFFICES ASSUME Place(c) PROVE Place(e) OBVIOUS
  <2>1. e.other => "second button" \in e.seen BY <1>1, <1>2 DEF Place
  <2> QED BY <1>2, <2>1, Zenon DEF Place, AtFocus
<1> QED BY <1>1, <1>2, <1>5, <1>6 DEF e

\* An offer is destroyed that its source has forgotten, or that has none.
LEMMA OldOfferKeeps ==
  ASSUME NEW c, Full(c), NEW o \in Offers,
         \A x \in Sources : c.source[x].offer # o
  PROVE  LET e == [c EXCEPT !.offer[o] = NoOffer] IN
         Full(e) /\ NoDrop(c, e) /\ e.seen = c.seen
<1> DEFINE e == [c EXCEPT !.offer[o] = NoOffer]
           s == c.offer[o].source
<1>0. /\ Shaped(c) /\ Links(c) /\ Loose(c) /\ Calm(c)
      /\ None \notin Sources /\ None \notin Offers
  BY DragAssumption DEF Full, Core, Loose
<1>1. s \in Sources \cup {None} BY <1>0, Pointers
<1>2. NoOffer \in Offer /\ ~NoOffer.live /\ NoOffer.source = None BY NoOfferIs
<1>3. /\ Shaped(e) /\ OnlyOf(c, e, {"offer"}) /\ e.offer[o] = NoOffer
      /\ \A x \in Offers \ {o} : e.offer[x] = c.offer[x]
  BY <1>0, <1>2, PutOffer
<1> HIDE DEF e
<1>4. /\ e.source = c.source /\ e.new = c.new /\ e.seen = c.seen
      /\ e.drag = c.drag /\ e.focus = c.focus /\ e.resource = c.resource
  BY <1>3 DEF OnlyOf, Fields
<1>5. Touched(c, e, s, o)
  <2>1. OnlyOf(c, e, {"source", "offer"}) BY <1>3 DEF OnlyOf
  <2> QED BY <1>2, <1>3, <1>4, <2>1 DEF Touched
<1>51. c.offer[o].source = s OBVIOUS
<1> HIDE DEF s
<1>6. ASSUME s # None
      PROVE  /\ s \in Sources /\ c.source[s].life = "live"
             /\ Life(c, s) /\ Born(c, s)
             /\ "second button" \notin c.seen => Agree(c, s)
             /\ c.source[s].offer # None =>
                  /\ e.offer[c.source[s].offer] = c.offer[c.source[s].offer]
                  /\ c.offer[c.source[s].offer].live
                  /\ c.offer[c.source[s].offer].source = s
  <2>1. s \in Sources BY <1>1, <1>6
  <2>2. c.source[s].life = "live" BY <1>0, <1>51, <1>6 DEF Links
  <2>3. /\ Life(c, s) /\ Born(c, s)
        /\ "second button" \notin c.seen => Agree(c, s)
    BY <2>1 DEF Full, Core, Loose
  <2>4. ASSUME c.source[s].offer # None
        PROVE  /\ e.offer[c.source[s].offer] = c.offer[c.source[s].offer]
               /\ c.offer[c.source[s].offer].live
               /\ c.offer[c.source[s].offer].source = s
    <3>1. c.source[s].offer \in Offers \ {o} BY <1>0, <2>1, <2>4, Pointers
    <3> QED BY <1>0, <1>3, <2>1, <2>4, <3>1 DEF Links
  <2> QED BY <2>1, <2>2, <2>3, <2>4
<1>7. SourceBasics(c, e, s)
  <2> SUFFICES ASSUME s # None PROVE SourceBasics(c, e, s) BY DEF SourceBasics
  <2>1. Life(e, s) BY <1>4, <1>6 DEF Life
  <2> QED BY <1>4, <1>6, <2>1 DEF SourceBasics
<1>8. AgreesNow(c, e, s)
  <2> SUFFICES ASSUME s # None, "second button" \notin c.seen PROVE Agree(e, s)
    BY DEF AgreesNow
  <2>1. Agree(c, s) BY <1>6
  <2>2. \A y \in Offers : e.offer[y].source = s /\ e.source[s].offer # y =>
                            Performed(e.source[s]) /\ e.source[s].offer = None
    <3> SUFFICES ASSUME NEW y \in Offers, e.offer[y].source = s, e.source[s].offer # y
                 PROVE  Performed(e.source[s]) /\ e.source[s].offer = None
      OBVIOUS
    <3>1. y # o BY <1>2, <1>3
    <3>2. c.offer[y].source = s BY <1>3, <3>1
    <3> QED BY <1>4, <2>1, <3>2 DEF Agree
  <2>3. CASE c.source[s].offer = None BY <1>4, <2>1, <2>2, <2>3 DEF Agree
  <2>4. CASE c.source[s].offer # None
    <3>1. e.offer[e.source[s].offer] = c.offer[c.source[s].offer]
      BY <1>4, <1>6, <2>4
    <3>2. e.source[s] = c.source[s] /\ e.new = c.new BY <1>4
    <3> QED BY <2>1, <2>2, <3>1, <3>2, Zenon DEF Agree
  <2> QED BY <2>3, <2>4
<1>9. PointsSame(c, e, s) BY <1>4, <1>6 DEF PointsSame
<1>10. OwnPart(c, e, s)
  <2>1. Calm(e) BY <1>0, <1>4, Zenon DEF Calm
  <2> QED BY <1>4, <1>6, <2>1 DEF OwnPart, Born
<1>11. Full(e) BY <1>1, <1>3, <1>5, <1>7, <1>8, <1>9, <1>10, TouchFull
<1> QED BY <1>4, <1>11 DEF NoDrop, e

\* The current offer of a source is destroyed.
OnlyCancelled(c, s, q) ==
  c.new = Clients => q.heard \subseteq c.source[s].heard \cup {"cancelled"}

LEMMA CurrentOfferKeeps ==
  ASSUME NEW c, Full(c), NEW o \in Offers, NEW s \in Sources, c.offer[o].source = s,
         c.source[s].offer = o, NEW q, FinishedSource(c, s, q),
         OnlyCancelled(c, s, q)
  PROVE  LET e == [SetSource(c, s, q) EXCEPT !.offer[o] = NoOffer] IN
         /\ Loose(e) /\ Place(e) /\ \A x \in Sources : Born(e, x)
         /\ NoDrop(c, e) /\ e.seen = c.seen
         /\ c.drag # s => Calm(e)
         /\ e.source[s].offer = None /\ e.source[s].seat = c.source[s].seat
         /\ Performed(e.source[s]) = Performed(c.source[s])
         /\ e.drag = c.drag
<1> DEFINE p == c.source[s]
           u == SetSource(c, s, q)
           e == [u EXCEPT !.offer[o] = NoOffer]
<1>0. /\ Shaped(c) /\ Links(c) /\ Loose(c) /\ Calm(c) /\ Place(c)
      /\ None \notin Sources /\ None \notin Offers
      /\ p.life = "live" /\ Life(c, s) /\ Born(c, s)
      /\ "second button" \notin c.seen => Agree(c, s)
  BY DragAssumption DEF Full, Core, Loose, Links
<1>1. /\ q \in Source /\ q.life = p.life /\ q.owner = p.owner /\ q.seat = p.seat
      /\ q.set = p.set /\ q.actions = p.actions /\ q.action = p.action
      /\ q.told \in {p.told, p.action}
      /\ q.offer = None /\ Performed(q) = Performed(p)
  BY FinishedFacts
<1>2. p.seat \/ Performed(p) BY <1>0 DEF Born
<1>3. /\ Shaped(u) /\ Touched(c, u, s, None) /\ u.source[s] = q
      /\ u.offer = c.offer
  <2>1. Shaped(c) /\ q \in Source BY <1>0, <1>1
  <2> QED BY <2>1, SourceTouched DEF SetSource
<1> HIDE DEF u
<1>4. NoOffer \in Offer /\ ~NoOffer.live /\ NoOffer.source = None BY NoOfferIs
<1>5. /\ Shaped(e) /\ OnlyOf(u, e, {"offer"}) /\ e.offer[o] = NoOffer
      /\ \A x \in Offers \ {o} : e.offer[x] = u.offer[x]
  BY <1>3, <1>4, PutOffer
<1> HIDE DEF e
<1>6. e.source = u.source BY <1>5 DEF OnlyOf, Fields
<1>7. OnlyOf(c, e, {"source", "offer"}) BY <1>3, <1>5 DEF OnlyOf, Touched
<1>8. e.new = c.new /\ e.seen = c.seen /\ e.drag = c.drag BY <1>7, OnlyTablesFacts
<1>9. Touched(c, e, s, o) BY <1>3, <1>4, <1>5, <1>6, <1>7 DEF Touched
<1>10. e.source[s] = q BY <1>3, <1>6
<1>11. SourceBasics(c, e, s)
  <2>1. Life(e, s)
    <3>1. c.new = Clients /\ "dnd_finished" \in q.heard =>
            Performed(p) \/ "dnd_finished" \in p.heard
      BY DEF OnlyCancelled
    <3>2. Life(c, s) /\ e.source[s] = q /\ e.new = c.new BY <1>0, <1>8, <1>10
    <3>3. /\ Life(c, s) /\ e.source[s] = q /\ e.new = c.new
          /\ c.new = Clients /\ "dnd_finished" \in q.heard =>
               Performed(p) \/ "dnd_finished" \in p.heard
          => Life(e, s)
      BY FinishedFacts
    <3> QED BY <3>1, <3>2, <3>3
  <2> QED BY <1>0, <1>1, <1>10, <2>1 DEF SourceBasics
<1>12. AgreesNow(c, e, s)
  <2> SUFFICES ASSUME "second button" \notin c.seen PROVE Agree(e, s)
    BY DEF AgreesNow
  <2>1. Agree(c, s) BY <1>0
  <2>2. ASSUME NEW y \in Offers, e.offer[y].source = s PROVE FALSE
    <3>1. y # o BY <1>0, <1>4, <1>5, <2>2
    <3>2. c.offer[y].source = s /\ p.offer # y BY <1>3, <1>5, <2>2, <3>1
    <3> QED BY <1>0, <2>1, <3>2 DEF Agree
  <2>3. q.set /\ ~Performed(q) => q.told = q.action BY <1>1, <2>1 DEF Agree
  <2> QED BY <1>1, <1>10, <2>2, <2>3 DEF Agree
<1>13. PointsSame(c, e, s) BY <1>1, <1>10 DEF PointsSame
<1>14. /\ Loose(e) /\ Place(e)
       /\ \A x \in Sources \ {s} : Born(c, x) => Born(e, x)
       /\ c.drag # s => Calm(e)
  <2>1. Loose(c) /\ Place(c) /\ Calm(c) BY <1>0
  <2> QED BY <1>5, <1>9, <1>11, <1>12, <1>13, <2>1, TouchKeeps, TouchBasics
<1>15. Born(e, s) BY <1>1, <1>2, <1>10 DEF Born
<1>16. \A x \in Sources : Born(e, x) BY <1>14, <1>15 DEF Full, Core
<1>17. NoDrop(c, e)
  <2>1. Performed(e.source[s]) => Performed(c.source[s]) BY <1>1, <1>10
  <2> QED BY <1>9, <2>1, TouchNoDrop
<1> QED BY <1>1, <1>8, <1>10, <1>14, <1>16, <1>17 DEF e, u

LEMMA DestroyOfferKeeps ==
  ASSUME Full(d), NEW o \in Offers, DestroyOffer(o)
  PROVE  Full(d') /\ NoDrop(d, d')
<1> DEFINE s == d.offer[o].source
           u == OfferGone(d, o)
           w == [u EXCEPT !.offer[o] = NoOffer]
           odd == IF UnderDrag(o) THEN u.seen \cup {"offer let go"} ELSE u.seen
           e == [w EXCEPT !.seen = odd]
<1>0. /\ Shaped(d) /\ Links(d) /\ Loose(d) /\ Calm(d)
      /\ None \notin Sources /\ None \notin Offers
  BY DragAssumption DEF Full, Core, Loose
<1>1. d' = [u EXCEPT !.offer[o] = NoOffer,
                     !.seen = IF UnderDrag(o) THEN @ \cup {"offer let go"} ELSE @]
  BY DEF DestroyOffer
<1>2. CASE s = None \/ d.source[s].offer # o
  <2>1. u = d BY <1>2 DEF OfferGone
  <2>2. ASSUME NEW x \in Sources, d.source[x].offer = o PROVE FALSE
    BY <1>0, <1>2, <2>2 DEF Links
  <2>3. ~UnderDrag(o)
    <3>1. d.drag \in Sources \cup {None} BY <1>0, Pointers
    <3> QED BY <2>2, <3>1 DEF UnderDrag
  <2> DEFINE v == [d EXCEPT !.offer[o] = NoOffer]
  <2>4. Full(v) /\ NoDrop(d, v) /\ v.seen = d.seen BY <2>2, OldOfferKeeps
  <2>5. d' = [v EXCEPT !.seen = d.seen]
    <3>1. d' = [d EXCEPT !.offer[o] = NoOffer, !.seen = d.seen]
      BY <1>1, <2>1, <2>3
    <3> QED BY <3>1
  <2> HIDE DEF v
  <2>6. d.seen \in SUBSET Odd BY <1>0 DEF Shaped
  <2>7. Loose(v) /\ Place(v) /\ Calm(v) /\ \A x \in Sources : Born(v, x)
    BY <2>4 DEF Full, Core
  <2>8. /\ Loose(d') /\ \A x \in Sources : Born(v, x) => Born(d', x)
        /\ Place(v) => Place(d')
        /\ d'.source = v.source /\ d'.seen = v.seen /\ d'.drag = v.drag
        /\ d'.resource = v.resource /\ d'.focus = v.focus
    BY <2>4, <2>5, <2>6, <2>7, SeenMore
  <2>9. Calm(d') BY <2>7, <2>8, Zenon DEF Calm
  <2>10. Full(d') BY <2>7, <2>8, <2>9 DEF Full, Core
  <2> QED BY <2>4, <2>8, <2>10 DEF NoDrop
<1>3. CASE s # None /\ d.source[s].offer = o
  <2>1. PICK q : /\ u = SetSource(d, s, q)
                 /\ FinishedSource(d, s, q)
                 /\ d.new = Clients =>
                      q.heard \subseteq d.source[s].heard \cup {"cancelled"}
    BY <1>0, <1>3, OfferGoneIs
  <2>2. s \in Sources BY <1>0, <1>3, Pointers
  <2>3. /\ Loose(w) /\ Place(w) /\ \A x \in Sources : Born(w, x)
        /\ NoDrop(d, w) /\ w.seen = d.seen
        /\ d.drag # s => Calm(w)
        /\ w.source[s].offer = None /\ w.source[s].seat = d.source[s].seat
        /\ Performed(w.source[s]) = Performed(d.source[s])
        /\ w.drag = d.drag
    <3>1. /\ d.offer[o].source = s /\ d.source[s].offer = o
          /\ FinishedSource(d, s, q) /\ OnlyCancelled(d, s, q)
      BY <1>3, <2>1 DEF OnlyCancelled
    <3> HIDE DEF s
    <3> DEFINE n == [SetSource(d, s, q) EXCEPT !.offer[o] = NoOffer]
    <3>2. /\ Loose(n) /\ Place(n) /\ \A x \in Sources : Born(n, x)
          /\ NoDrop(d, n) /\ n.seen = d.seen
          /\ d.drag # s => Calm(n)
          /\ n.source[s].offer = None /\ n.source[s].seat = d.source[s].seat
          /\ Performed(n.source[s]) = Performed(d.source[s])
          /\ n.drag = d.drag
      BY <2>2, <3>1, CurrentOfferKeeps, SMTT(20)
    <3>3. w = n BY <2>1
    <3> HIDE DEF n, w
    <3> QED BY <3>2, <3>3
  <2>4. u.seen = d.seen
    <3> HIDE DEF u, s
    <3> QED BY <1>0, <2>1 DEF SetSource, Shaped, Fields
  <2>5. d' = e
    <3> HIDE DEF u
    <3> QED BY <1>1
  <2>6. odd \in SUBSET Odd /\ d.seen \subseteq odd
    <3>1. d.seen \in SUBSET Odd BY <1>0 DEF Shaped
    <3> HIDE DEF u
    <3> QED BY <2>4, <3>1 DEF Odd
  <2>7. d.drag = s => odd # {}
    <3> SUFFICES ASSUME d.drag = s, d.seen = {} PROVE UnderDrag(o)
      <4> HIDE DEF u, s
      <4> QED BY <2>4
    <3> QED BY <1>0, <1>3 DEF Calm, UnderDrag
  <2> HIDE DEF u, w, odd, e
  <2>8. /\ Loose(e) /\ \A x \in Sources : Born(w, x) => Born(e, x)
        /\ Place(w) => Place(e)
        /\ e.source = w.source /\ e.seen = odd /\ e.drag = w.drag
        /\ e.resource = w.resource /\ e.focus = w.focus
    BY <2>3, <2>6, SeenMore DEF e
  <2>9. Calm(e)
    <3>1. CASE d.drag = s
      <4>1. /\ e.drag = s /\ e.source[s].seat = d.source[s].seat
            /\ Performed(e.source[s]) = Performed(d.source[s])
        BY <2>3, <2>8, <3>1
      <4>2. /\ d.source[s].seat \/ Performed(d.source[s])
            /\ "second button" \notin d.seen =>
                 d.source[s].seat /\ ~Performed(d.source[s])
        BY <1>0, <1>3, <3>1 DEF Calm
      <4>3. e.seen # {} /\ d.seen \subseteq e.seen BY <2>6, <2>7, <2>8, <3>1
      <4> HIDE DEF s
      <4> QED BY <4>1, <4>2, <4>3 DEF Calm
    <3>2. CASE d.drag # s
      <4>1. Calm(w) BY <2>3, <3>2
      <4>2. "second button" \notin e.seen => "second button" \notin w.seen
        BY <2>3, <2>6, <2>8
      <4>3. e.seen = {} => w.seen = {} BY <2>3, <2>6, <2>8
      <4> QED BY <2>8, <4>1, <4>2, <4>3, Zenon DEF Calm
    <3> QED BY <3>1, <3>2
  <2>10. Full(e) BY <2>3, <2>8, <2>9 DEF Full, Core
  <2>11. NoDrop(d, e) BY <2>3, <2>8 DEF NoDrop
  <2> QED BY <2>5, <2>10, <2>11
<1> QED BY <1>2, <1>3

-----------------------------------------------------------------------------
(* The button is released.                                                 *)

\* A drop is consented to.
Consented(c, e) ==
  \A s \in Sources :
    "drop_performed" \in e.source[s].heard \ c.source[s].heard
      => LET o == c.source[s].offer
         IN c.offer[o].took /\ c.offer[o].client = c.resource

\* All of a release but the end of the drag: what is left to show.
Released(c, e) ==
  /\ Core(e) /\ Place(e) /\ e.seen = c.seen /\ e.other = c.other
  /\ e.kind = c.kind /\ ("second button" \in c.seen => Calm(e))

LEMMA TellKeeps ==
  ASSUME NEW c, Full(c), NEW s \in Sources, s = c.drag
  PROVE  LET e == Tell(c, s, "cancelled") IN Released(c, e) /\ NoDrop(c, e)
<1> DEFINE p == c.source[s]
           q == TellSource(c, p, "cancelled")
           e == Tell(c, s, "cancelled")
<1>0. /\ Shaped(c) /\ Links(c) /\ Loose(c) /\ Calm(c) /\ Place(c) /\ Core(c)
      /\ None \notin Sources /\ None \notin Offers
      /\ Life(c, s) /\ Born(c, s)
      /\ "second button" \notin c.seen => Agree(c, s)
  BY DragAssumption DEF Full, Core, Loose
<1>1. p \in Source /\ p.life = "live" BY <1>0 DEF Shaped, Links
<1>2. /\ q \in Source /\ SrcBut(p, q, {"heard"})
      /\ p.heard \subseteq q.heard /\ q.heard \subseteq p.heard \cup {"cancelled"}
  BY <1>1, TellSourceFacts DEF Events
<1>3. CASE p.owner \notin c.new
  <2>1. e = c BY <1>3 DEF Tell
  <2> HIDE DEF e
  <2> QED BY <1>0, <2>1 DEF Released, NoDrop, e
<1>4. CASE p.owner \in c.new
  <2>1. e = SetSource(c, s, q) BY <1>4 DEF Tell, TellSource, SetSource
  <2> HIDE DEF q
  <2>2. /\ q.life = p.life /\ q.owner = p.owner /\ q.seat = p.seat
        /\ q.set = p.set /\ q.actions = p.actions /\ q.action = p.action
        /\ q.accepted = p.accepted /\ q.offer = p.offer /\ q.told = p.told
    BY <1>2 DEF SrcBut, SourceFields
  <2>3. Performed(q) = Performed(p) BY <1>2 DEF Performed
  <2> HIDE DEF e
  <2>4. /\ Shaped(e) /\ Touched(c, e, s, None) /\ e.source[s] = q
        /\ e.offer = c.offer /\ e.new = c.new /\ e.seen = c.seen
        /\ e.drag = c.drag /\ e.focus = c.focus /\ e.resource = c.resource
    <3>1. Shaped(c) /\ q \in Source BY <1>0, <1>2
    <3>2. e = [c EXCEPT !.source[s] = q] BY <2>1 DEF SetSource
    <3> QED BY <3>1, <3>2, SourceTouched
  <2>5. e.other = c.other /\ e.kind = c.kind
    <3>1. OnlyOf(c, e, {"source", "offer"}) BY <2>4 DEF Touched
    <3> QED BY <3>1, OnlyTablesFacts
  <2>6. SourceBasics(c, e, s)
    <3>1. p.offer # None => c.offer[p.offer].live /\ c.offer[p.offer].source = s
      BY <1>0 DEF Links
    <3>2. Life(c, s) /\ p = c.source[s] BY <1>0
    <3>3. "dnd_finished" \in q.heard => "dnd_finished" \in p.heard BY <1>2
    <3> HIDE DEF p
    <3>4. Life(e, s) BY <2>2, <2>3, <2>4, <3>2, <3>3 DEF Life
    <3> QED BY <1>1, <2>2, <2>4, <3>1, <3>4 DEF SourceBasics
  <2>7. AgreesNow(c, e, s)
    <3> SUFFICES ASSUME "second button" \notin c.seen PROVE Agree(e, s)
      BY DEF AgreesNow
    <3>1. Agree(c, s) /\ p = c.source[s] BY <1>0
    <3>2. e.source[s] = q /\ e.offer = c.offer /\ e.new = c.new BY <2>4
    <3> HIDE DEF p
    <3>3. q.set /\ ~Performed(q) => q.told = q.action
      BY <2>2, <2>3, <3>1 DEF Agree
    <3>4. \A o \in Offers : c.offer[o].source = s /\ q.offer # o =>
                             Performed(q) /\ q.offer = None
      BY <2>2, <2>3, <3>1 DEF Agree
    <3>5. q.set /\ q.offer # None =>
            LET off == c.offer[q.offer] IN
            /\ off.in_ask => Performed(q)
            /\ ~off.in_ask =>
                 /\ q.told = q.action /\ q.action \in q.actions \cup {None}
                 /\ off.client \in c.new =>
                      off.told = q.action /\ q.action \in off.actions \cup {None}
      BY <2>2, <2>3, <3>1 DEF Agree
    <3> QED BY <3>2, <3>3, <3>4, <3>5, Zenon DEF Agree
  <2>8. PointsSame(c, e, s) BY <2>2, <2>4 DEF PointsSame
  <2>9. /\ Loose(e) /\ Place(e)
        /\ \A x \in Sources \ {s} : Born(c, x) => Born(e, x)
    <3>1. Loose(c) /\ Place(c) /\ Calm(c) BY <1>0
    <3> QED BY <2>4, <2>6, <2>7, <2>8, <3>1, TouchKeeps, TouchBasics
  <2>10. p.seat \/ Performed(p) BY <1>0 DEF Calm
  <2>11. Born(e, s) BY <2>2, <2>3, <2>4, <2>10 DEF Born
  <2>12. Core(e) BY <2>9, <2>11 DEF Core, Full
  <2>13. ASSUME "second button" \in c.seen PROVE Calm(e)
    <3>1. e.seen # {} /\ "second button" \in e.seen BY <2>4, <2>13
    <3>2. e.source[e.drag] = q BY <2>4
    <3> QED BY <2>2, <2>3, <2>10, <3>1, <3>2 DEF Calm
  <2>14. NoDrop(c, e)
    <3>1. Performed(e.source[s]) => Performed(c.source[s]) BY <2>3, <2>4
    <3> QED BY <2>4, <3>1, TouchNoDrop
  <2> QED BY <2>4, <2>5, <2>9, <2>12, <2>13, <2>14 DEF Released, e
<1> QED BY <1>3, <1>4

LEMMA DroppedKeeps ==
  ASSUME NEW c, Full(c), NEW s \in Sources, s = c.drag, c.resource # None,
         c.source[s].accepted, c.source[s].action # None, c.source[s].offer # None
  PROVE  LET e == Dropped(c, s) IN Released(c, e) /\ Consented(c, e)
<1> DEFINE p == c.source[s]
           o == p.offer
           q == c.offer[o]
           t == [q EXCEPT !.in_ask = (p.action = "ask")]
           u == [c EXCEPT !.offer[o] = t]
           r == [p EXCEPT !.heard = @ \cup {"drop_performed"}, !.seat = FALSE]
           e == [u EXCEPT !.source[s] = r]
<1>0. /\ Shaped(c) /\ Links(c) /\ Loose(c) /\ Calm(c) /\ Place(c) /\ Core(c)
      /\ None \notin Sources /\ None \notin Offers
      /\ Life(c, s) /\ Born(c, s)
      /\ "second button" \notin c.seen => Agree(c, s)
  BY DragAssumption DEF Full, Core, Loose
<1>1. /\ p \in Source /\ p.life = "live" /\ o \in Offers /\ q \in Offer
      /\ q.live /\ q.source = s
  <2>1. o \in Offers BY <1>0, Pointers
  <2> QED BY <1>0, <2>1 DEF Shaped, Links
<1>2. /\ p.set /\ q.took
      /\ q.client = c.resource
  BY <1>0 DEF Life, Place
<1>3. Dropped(c, s) = e
  <2>1. Dropped(c, s) = [c EXCEPT !.offer[o].in_ask = (p.action = "ask"), !.source[s] = r]
    BY DEF Dropped
  <2> QED BY <2>1
<1>31. p = c.source[s] /\ o = p.offer /\ q = c.offer[o] OBVIOUS
<1> HIDE DEF p, o, q
<1>4. t \in Offer
  <2>1. (p.action = "ask") \in BOOLEAN OBVIOUS
  <2> QED BY <1>1, <2>1, Zenon DEF Offer
<1>5. OffBut(q, t, {"in_ask"}) BY <1>1, OfferTypes DEF OffBut, OfferFields
<1> HIDE DEF t
<1>6. /\ t.live = q.live /\ t.client = q.client /\ t.source = q.source
      /\ t.actions = q.actions /\ t.told = q.told /\ t.took = q.took
  BY <1>5 DEF OffBut, OfferFields
<1>7. r \in Source
  <2>1. FALSE \in BOOLEAN /\ p.heard \cup {"drop_performed"} \in SUBSET Events
    BY <1>1, SourceTypes DEF Events
  <2> QED BY <1>1, <2>1, Zenon DEF Source, Events
<1>8. /\ r.seat = FALSE /\ r.heard = p.heard \cup {"drop_performed"}
      /\ SrcBut(p, r, {"seat", "heard"})
  BY <1>1, SourceTypes DEF SrcBut, SourceFields
<1> HIDE DEF r
<1>9. /\ r.life = p.life /\ r.owner = p.owner /\ r.offer = o
      /\ r.set = p.set /\ r.actions = p.actions /\ r.action = p.action
      /\ r.accepted = p.accepted /\ r.told = p.told /\ Performed(r)
  BY <1>8, <1>31 DEF SrcBut, SourceFields, Performed
<1> HIDE DEF e
<1>10. /\ Shaped(u) /\ OnlyOf(c, u, {"offer"}) /\ u.offer[o] = t
       /\ \A x \in Offers \ {o} : u.offer[x] = c.offer[x]
  <2>1. Shaped(c) /\ o \in Offers BY <1>0, <1>1
  <2>2. u = [c EXCEPT !.offer[o] = t] OBVIOUS
  <2> HIDE DEF u
  <2> QED BY <1>4, <2>1, <2>2, PutOffer
<1> HIDE DEF u
<1>11. /\ Shaped(e) /\ OnlyOf(u, e, {"source"}) /\ e.source[s] = r
       /\ \A x \in Sources \ {s} : e.source[x] = u.source[x]
  <2>1. e = [u EXCEPT !.source[s] = r] BY DEF e
  <2> QED BY <1>7, <1>10, <2>1, PutSource
<1>12. e.offer = u.offer /\ u.source = c.source
  BY <1>10, <1>11 DEF OnlyOf, Fields
<1>13. OnlyOf(c, e, {"source", "offer"}) BY <1>10, <1>11 DEF OnlyOf
<1>14. /\ e.new = c.new /\ e.seen = c.seen /\ e.drag = c.drag
       /\ e.other = c.other /\ e.kind = c.kind
  BY <1>13, OnlyTablesFacts
<1>15. Touched(c, e, s, o)
  <2>1. \A x \in Sources \ {s} : e.source[x] = c.source[x] BY <1>11, <1>12
  <2>2. \A y \in Offers \ {o} : e.offer[y] = c.offer[y] BY <1>10, <1>12
  <2>3. /\ c.offer[o].source = s /\ e.offer[o].source = s /\ e.offer[o].live
    BY <1>1, <1>6, <1>10, <1>12, <1>31
  <2> QED BY <1>13, <2>1, <2>2, <2>3 DEF Touched
<1>16. SourceBasics(c, e, s)
  <2>1. Life(e, s)
    <3>1. e.source[s] = r /\ e.offer[r.offer] = t BY <1>9, <1>10, <1>11, <1>12
    <3>2. p.set => p.owner \in c.new BY <1>0, <1>31 DEF Life
    <3> QED BY <1>2, <1>6, <1>9, <1>14, <3>1, <3>2 DEF Life
  <2>2. e.offer[r.offer] = t BY <1>9, <1>10, <1>12
  <2> QED BY <1>1, <1>6, <1>9, <1>11, <2>1, <2>2 DEF SourceBasics
<1>17. AgreesNow(c, e, s)
  <2> SUFFICES ASSUME "second button" \notin c.seen PROVE Agree(e, s)
    BY DEF AgreesNow
  <2>1. Agree(c, s) BY <1>0
  <2>2. ~Performed(p) BY <1>0, <1>31 DEF Calm
  <2>3. ASSUME NEW y \in Offers, e.offer[y].source = s, y # o PROVE FALSE
    <3>1. c.offer[y].source = s BY <1>10, <1>12, <2>3
    <3> QED BY <1>1, <1>0, <1>31, <2>1, <2>3, <3>1 DEF Agree
  <2>4. /\ p.told = p.action /\ p.action \in p.actions \cup {None}
        /\ q.client \in c.new => q.told = p.action /\ p.action \in q.actions \cup {None}
    <3>1. ~q.in_ask BY <1>2, <1>31, <2>1, <2>2 DEF Agree
    <3> QED BY <1>2, <1>31, <2>1, <3>1 DEF Agree
  <2>5. e.source[s] = r /\ e.offer[o] = t BY <1>10, <1>11, <1>12
  <2> QED BY <1>6, <1>9, <1>14, <2>3, <2>4, <2>5 DEF Agree
<1>18. PointsSame(c, e, s)
  BY <1>6, <1>9, <1>10, <1>11, <1>12, <1>31 DEF PointsSame
<1>19. /\ Loose(e) /\ Place(e)
       /\ \A x \in Sources \ {s} : Born(c, x) => Born(e, x)
  <2>1. Loose(c) /\ Place(c) /\ Calm(c) BY <1>0
  <2> QED BY <1>1, <1>11, <1>15, <1>16, <1>17, <1>18, <2>1, TouchKeeps, TouchBasics
<1>20. Born(e, s) BY <1>9, <1>11 DEF Born
<1>21. Core(e) BY <1>19, <1>20 DEF Core, Full
<1>22. ASSUME "second button" \in c.seen PROVE Calm(e)
  <2>1. e.seen # {} /\ "second button" \in e.seen BY <1>14, <1>22
  <2>2. e.source[e.drag] = r BY <1>11, <1>14
  <2> QED BY <1>9, <2>1, <2>2 DEF Calm
<1>23. Consented(c, e)
  <2> SUFFICES ASSUME NEW x \in Sources,
                      "drop_performed" \in e.source[x].heard \ c.source[x].heard
               PROVE  LET y == c.source[x].offer
                      IN c.offer[y].took /\ c.offer[y].client = c.resource
    BY DEF Consented
  <2>1. x = s BY <1>11, <1>12
  <2> QED BY <1>2, <1>31, <2>1
<1> QED BY <1>3, <1>14, <1>19, <1>21, <1>22, <1>23 DEF Released

LEMMA ReleaseKeeps ==
  ASSUME Full(d), ~d.crashed, Release
  PROVE  Full(d') /\ Consented(d, d')
<1> DEFINE s == d.drag
           done == IF Agreed(s) THEN Dropped(d, s) ELSE Tell(d, s, "cancelled")
<1>0. /\ Shaped(d) /\ Calm(d) /\ Place(d) /\ d.kind # "none"
      /\ s \in Sources /\ s # None
  <2>1. Shaped(d) /\ Calm(d) /\ Place(d) BY DEF Full, Core, Loose
  <2>2. d.kind # "none" BY DEF Release
  <2>3. s # None BY <2>1, <2>2 DEF Place
  <2> QED BY <2>1, <2>2, <2>3, Pointers
<1>1. CASE Agreed(s) /\ d.source[s].offer = None
  <2>1. /\ d.held \in BOOLEAN /\ d.other \in BOOLEAN /\ d.again \in BOOLEAN
        /\ d.seen \in SUBSET Odd /\ DOMAIN d = Fields
        /\ d.other => "second button" \in d.seen
    BY <1>0 DEF Shaped, Place
  <2>2. d' = [d EXCEPT !.held = d.held, !.other = d.other, !.again = d.again,
                       !.crashed = TRUE, !.seen = d.seen]
    BY <1>1, <2>1 DEF Release, Fields
  <2>3. d.seen # {} BY <1>0, <1>1 DEF Calm, Agreed
  <2>4. Full(d') /\ NoDrop(d, d') BY <1>0, <2>1, <2>2, <2>3, ButtonsKeep
  <2> QED BY <2>4 DEF NoDrop, Consented, Performed
<1>2. CASE ~(Agreed(s) /\ d.source[s].offer = None)
  <2>1. d' = IF d.other THEN [done EXCEPT !.held = FALSE] ELSE EndDrag(done)
    BY <1>2 DEF Release
  <2>2. Released(d, done) /\ Consented(d, done)
    <3>1. CASE Agreed(s)
      <4>1. done = Dropped(d, s) BY <3>1
      <4> HIDE DEF done
      <4> QED BY <1>0, <1>2, <3>1, <4>1, DroppedKeeps DEF Agreed
    <3>2. CASE ~Agreed(s)
      <4>1. done = Tell(d, s, "cancelled") BY <3>2
      <4> HIDE DEF done
      <4>2. Released(d, done) /\ NoDrop(d, done) BY <1>0, <4>1, TellKeeps
      <4> QED BY <4>2 DEF NoDrop, Consented, Performed
    <3> QED BY <3>1, <3>2
  <2> HIDE DEF done
  <2>3. CASE ~d.other
    <3>1. Core(done) BY <2>2 DEF Released
    <3>2. Full(EndDrag(done)) /\ EndDrag(done).source = done.source
      BY <3>1, EndKeeps
    <3> QED BY <2>1, <2>2, <2>3, <3>2 DEF Consented
  <2>4. CASE d.other
    <3> DEFINE e == [done EXCEPT !.held = FALSE]
    <3>1. "second button" \in d.seen BY <1>0, <2>4 DEF Place
    <3>2. Full(done) BY <2>2, <3>1 DEF Released, Full
    <3>3. Shaped(done) /\ Place(done) /\ Loose(done) BY <3>2 DEF Full, Core, Loose
    <3>4. /\ DOMAIN e = Fields /\ e.held = FALSE
          /\ \A f \in Fields \ {"held"} : e[f] = done[f]
      BY <3>3 DEF Shaped, Fields
    <3> HIDE DEF e
    <3>5. /\ e.new = done.new /\ e.device = done.device /\ e.window = done.window
          /\ e.source = done.source /\ e.offer = done.offer /\ e.again = done.again
          /\ e.crashed = done.crashed /\ e.focus = done.focus
          /\ e.resource = done.resource /\ e.other = done.other
          /\ e.kind = done.kind /\ e.drag = done.drag /\ e.seen = done.seen
      BY <3>4 DEF Fields
    <3>6. Shaped(e) BY <3>3, <3>4, <3>5 DEF Shaped
    <3>7. Place(e) BY <3>3, <3>4, <3>5 DEF Place, AtFocus
    <3>8. e.crashed => e.seen # {} BY <3>3, <3>5 DEF Loose
    <3>9. Full(e) BY <3>2, <3>5, <3>6, <3>7, <3>8, FlatFull
    <3>10. Consented(d, e) BY <2>2, <3>5 DEF Consented
    <3> QED BY <2>1, <2>4, <3>9, <3>10 DEF e
  <2> QED BY <2>3, <2>4
<1> QED BY <1>1, <1>2

-----------------------------------------------------------------------------
(* A source is destroyed.                                                  *)

\* destroy_data_source, of a source that is not dragged
Forgotten(c, s) ==
  [c EXCEPT !.source[s] = [NewSource(SomeClient) EXCEPT !.life = "gone"],
            !.offer = [o \in Offers |-> IF c.offer[o].source = s
                                        THEN NoOffer ELSE c.offer[o]]]

LEMMA ForgottenKeeps ==
  ASSUME NEW c, Full(c), NEW s \in Sources, c.drag # s
  PROVE  LET e == Forgotten(c, s) IN Full(e) /\ NoDrop(c, e)
<1> DEFINE g == [NewSource(SomeClient) EXCEPT !.life = "gone"]
           off == [o \in Offers |-> IF c.offer[o].source = s
                                    THEN NoOffer ELSE c.offer[o]]
           e == Forgotten(c, s)
<1>0. /\ Shaped(c) /\ Links(c) /\ Loose(c) /\ Calm(c) /\ Place(c) /\ Core(c)
      /\ None \notin Sources /\ None \notin Offers
  BY DragAssumption DEF Full, Core, Loose
<1>1. NewSource(SomeClient) \in Source BY SomeClientIs, NewSourceIs
<1>2. g \in Source
  <2>1. "gone" \in {"unborn", "live", "gone"} OBVIOUS
  <2> QED BY <1>1, <2>1, Zenon DEF Source
<1>3. /\ g.life = "gone" /\ g.offer = None /\ g.set = FALSE /\ g.accepted = FALSE
      /\ g.actions = {} /\ g.action = None /\ g.told = None /\ g.heard = {}
  BY DEF NewSource
<1> HIDE DEF g
<1>4. off \in [Offers -> Offer]
  <2> SUFFICES ASSUME NEW o \in Offers
               PROVE  (IF c.offer[o].source = s THEN NoOffer ELSE c.offer[o]) \in Offer
    OBVIOUS
  <2>1. c.offer[o] \in Offer BY <1>0 DEF Shaped
  <2> QED BY <2>1, NoOfferIs
<1>5. \A o \in Offers : off[o] = IF c.offer[o].source = s THEN NoOffer ELSE c.offer[o]
  OBVIOUS
<1>6. e = [c EXCEPT !.source[s] = g, !.offer = off] BY DEF Forgotten, g
<1> HIDE DEF off, e
<1>7. /\ DOMAIN e = Fields /\ e.offer = off /\ e.source = [c.source EXCEPT ![s] = g]
      /\ OnlyOf(c, e, {"source", "offer"})
  BY <1>0, <1>6 DEF Shaped, Fields, OnlyOf
<1>8. /\ e.source \in [Sources -> Source] /\ e.source[s] = g
      /\ \A x \in Sources \ {s} : e.source[x] = c.source[x]
  <2>1. c.source \in [Sources -> Source] BY <1>0 DEF Shaped
  <2> QED BY <1>2, <1>7, <2>1
<1>9. /\ e.new = c.new /\ e.device = c.device /\ e.window = c.window
      /\ e.kind = c.kind /\ e.drag = c.drag /\ e.focus = c.focus
      /\ e.resource = c.resource /\ e.held = c.held /\ e.other = c.other
      /\ e.again = c.again /\ e.crashed = c.crashed /\ e.seen = c.seen
  BY <1>7, OnlyTablesFacts
<1>10. Shaped(e) BY <1>0, <1>4, <1>7, <1>8, <1>9 DEF Shaped
<1>11. \A o \in Offers : \/ c.offer[o].source = s /\ e.offer[o] = NoOffer
                         \/ c.offer[o].source # s /\ e.offer[o] = c.offer[o]
  BY <1>5, <1>7
<1>12. ASSUME NEW x \in Sources \ {s}, c.source[x].offer # None
       PROVE  e.offer[c.source[x].offer] = c.offer[c.source[x].offer]
  <2>1. c.source[x].offer \in Offers /\ c.offer[c.source[x].offer].source = x
    BY <1>0, <1>12, Pointers DEF Links
  <2> QED BY <1>11, <2>1
<1>13. Links(e)
  <2>1. ASSUME NEW x \in Sources, e.source[x].offer # None
        PROVE  /\ e.source[x].life = "live" /\ e.offer[e.source[x].offer].live
               /\ e.offer[e.source[x].offer].source = x
    <3>1. x # s BY <1>3, <1>8, <2>1
    <3> QED BY <1>0, <1>8, <1>12, <2>1, <3>1 DEF Links
  <2>2. ASSUME NEW o \in Offers, ~e.offer[o].live PROVE e.offer[o] = NoOffer
    BY <1>0, <1>11, <2>2 DEF Links
  <2>3. ASSUME NEW o \in Offers, e.offer[o].source # None
        PROVE  e.source[e.offer[o].source].life = "live"
    <3>1. e.offer[o] = c.offer[o] /\ c.offer[o].source # s
      BY <1>11, <2>3, NoOfferIs
    <3>2. c.offer[o].source \in Sources BY <1>0, <2>3, <3>1, Pointers
    <3> QED BY <1>0, <1>8, <2>3, <3>1, <3>2 DEF Links
  <2>4. e.drag # None => e.source[e.drag].life = "live"
    <3>1. c.drag \in Sources \cup {None} BY <1>0, Pointers
    <3> QED BY <1>0, <1>8, <1>9, <3>1 DEF Links
  <2> QED BY <2>1, <2>2, <2>3, <2>4 DEF Links
<1>14. ASSUME NEW x \in Sources PROVE Life(e, x) /\ Born(e, x)
  <2>1. CASE x = s
    BY <1>3, <1>8, <2>1 DEF Life, Born, Performed
  <2>2. CASE x # s
    <3>1. Life(c, x) /\ Born(c, x) BY <1>0 DEF Core, Loose
    <3>2. e.source[x] = c.source[x] BY <1>8, <2>2
    <3>3. c.source[x].offer # None =>
            e.offer[c.source[x].offer] = c.offer[c.source[x].offer]
      BY <1>12, <2>2
    <3> QED BY <1>9, <3>1, <3>2, <3>3 DEF Life, Born, Performed
  <2> QED BY <2>1, <2>2
<1>15. ASSUME "second button" \notin c.seen, NEW x \in Sources PROVE Agree(e, x)
  <2>0. \A o \in Offers : e.offer[o].source = x => c.offer[o].source = x /\ x # s
    BY <1>0, <1>11, NoOfferIs
  <2>1. CASE x = s BY <1>3, <1>8, <2>0, <2>1 DEF Agree
  <2>2. CASE x # s
    <3>1. Agree(c, x) BY <1>0, <1>15 DEF Loose
    <3>2. e.source[x] = c.source[x] BY <1>8, <2>2
    <3>3. c.source[x].offer # None =>
            e.offer[c.source[x].offer] = c.offer[c.source[x].offer]
      BY <1>12, <2>2
    <3>4. \A y \in Offers : e.offer[y].source = x /\ e.source[x].offer # y =>
                             Performed(e.source[x]) /\ e.source[x].offer = None
      BY <2>0, <3>1, <3>2 DEF Agree
    <3>5. e.new = c.new BY <1>9
    <3>6. CASE c.source[x].offer = None BY <3>1, <3>2, <3>4, <3>6 DEF Agree
    <3>7. CASE c.source[x].offer # None
      <4>1. e.offer[e.source[x].offer] = c.offer[c.source[x].offer]
        BY <3>2, <3>3, <3>7
      <4> QED BY <3>1, <3>2, <3>4, <3>5, <4>1, Zenon DEF Agree
    <3> QED BY <3>6, <3>7
  <2> QED BY <2>1, <2>2
<1>16. c.drag # None =>
         /\ e.source[c.drag] = c.source[c.drag]
         /\ c.source[c.drag].offer # None =>
              e.offer[c.source[c.drag].offer] = c.offer[c.source[c.drag].offer]
  <2>1. c.drag \in Sources \cup {None} BY <1>0, Pointers
  <2> QED BY <1>8, <1>12, <2>1
<1>17. Place(e) BY <1>0, <1>9, <1>16 DEF Place, AtFocus
<1>18. Calm(e)
  <2>1. CASE c.drag = None BY <1>9, <2>1 DEF Calm
  <2>2. CASE c.drag # None
    <3>1. Calm(c) BY <1>0
    <3>2. e.source[e.drag] = c.source[c.drag] BY <1>9, <1>16, <2>2
    <3> QED BY <1>9, <3>1, <3>2, Zenon DEF Calm
  <2> QED BY <2>1, <2>2
<1>19. NoDrop(c, e) BY <1>3, <1>8 DEF NoDrop, Performed
<1>20. Loose(e)
  <2>1. e.crashed => e.seen # {} BY <1>0, <1>9 DEF Loose
  <2>2. "second button" \notin e.seen => \A x \in Sources : Agree(e, x)
    BY <1>9, <1>15
  <2> QED BY <1>10, <1>13, <1>14, <2>1, <2>2 DEF Loose
<1>21. Full(e) BY <1>14, <1>17, <1>18, <1>20 DEF Full, Core
<1> QED BY <1>19, <1>21 DEF e

LEMMA DestroySourceKeeps ==
  ASSUME Full(d), NEW s \in Sources, DestroySource(s)
  PROVE  Full(d') /\ NoDrop(d, d')
<1> DEFINE ended == IF d.drag = s THEN EndDrag(d) ELSE d
<1>1. d' = Forgotten(ended, s)
  BY DEF DestroySource, SourceGone, Forgotten
<1>2. Full(ended) /\ ended.source = d.source /\ ended.drag # s
  <2>1. CASE d.drag = s
    <3>1. Core(d) /\ s # None BY DragAssumption DEF Full
    <3> QED BY <2>1, <3>1, EndKeeps
  <2>2. CASE d.drag # s BY <2>2
  <2> QED BY <2>1, <2>2
<1> HIDE DEF ended
<1>3. Full(d') /\ NoDrop(ended, d') BY <1>1, <1>2, ForgottenKeeps
<1> QED BY <1>2, <1>3 DEF NoDrop

-----------------------------------------------------------------------------
(* The theorems.                                                           *)

LEMMA Initially == Init => IInv
<1> SUFFICES ASSUME NEW new \in SUBSET Clients,
       d = [new |-> new, device |-> Clients, window |-> Clients,
            source |-> [s \in Sources |-> [NewSource(SomeClient) EXCEPT !.life = "unborn"]],
            offer |-> [o \in Offers |-> NoOffer],
            kind |-> "none", drag |-> None, focus |-> None, resource |-> None,
            held |-> FALSE, other |-> FALSE, again |-> FALSE, crashed |-> FALSE,
            seen |-> {}]
     PROVE Full(d)
  BY DEF Init, IInv
<1> DEFINE g == [NewSource(SomeClient) EXCEPT !.life = "unborn"]
<1>1. g \in Source
  <2>1. "unborn" \in {"unborn", "live", "gone"} OBVIOUS
  <2>2. NewSource(SomeClient) \in Source BY SomeClientIs, NewSourceIs
  <2> QED BY <2>1, <2>2, Zenon DEF Source
<1>2. /\ g.life = "unborn" /\ g.offer = None /\ g.set = FALSE /\ g.accepted = FALSE
      /\ g.actions = {} /\ g.action = None /\ g.told = None /\ g.heard = {}
  BY DEF NewSource
<1>3. /\ d.new = new /\ d.device = Clients /\ d.window = Clients
      /\ \A s \in Sources : d.source[s] = g
      /\ \A o \in Offers : d.offer[o] = NoOffer
      /\ d.kind = "none" /\ d.drag = None /\ d.focus = None /\ d.resource = None
      /\ d.held = FALSE /\ d.other = FALSE /\ d.again = FALSE /\ d.crashed = FALSE
      /\ d.seen = {}
  OBVIOUS
<1>4. /\ DOMAIN d = Fields
      /\ d.source = [s \in Sources |-> d.source[s]]
      /\ d.offer = [o \in Offers |-> d.offer[o]]
  BY DEF Fields
<1> HIDE DEF g
<1>5. Shaped(d)
  <2>1. d.source \in [Sources -> Source] /\ d.offer \in [Offers -> Offer]
    BY <1>1, <1>3, <1>4, NoOfferIs
  <2> QED BY <1>3, <1>4, <2>1 DEF Shaped
<1>6. Links(d) BY <1>2, <1>3, NoOfferIs DEF Links
<1>7. \A s \in Sources : Life(d, s) /\ Born(d, s)
  BY <1>2, <1>3 DEF Life, Born, Performed
<1>8. \A s \in Sources : Agree(d, s)
  <2>1. None \notin Sources BY DragAssumption
  <2> QED BY <1>2, <1>3, <2>1, NoOfferIs DEF Agree
<1>9. Place(d) /\ Calm(d)
  <2>1. Freed # None BY DragAssumption
  <2> QED BY <1>3, <2>1 DEF Place, Calm
<1>10. Loose(d) BY <1>3, <1>5, <1>6, <1>7, <1>8 DEF Loose
<1> QED BY <1>7, <1>9, <1>10 DEF Full, Core

\* Every step keeps the invariant, and drops only what is consented to.
LEMMA Inductive == IInv /\ [Next]_vars => IInv' /\ [Consented(d, d')]_d
<1> SUFFICES ASSUME Full(d), [Next]_vars PROVE Full(d') /\ (d' = d \/ Consented(d, d'))
  BY DEF IInv
<1>1. CASE d' = d BY <1>1
<1>2. CASE Next
  <2>0. ~d.crashed BY <1>2 DEF Next
  <2>1. ASSUME Full(d') /\ NoDrop(d, d') PROVE Full(d') /\ Consented(d, d')
    BY <2>1 DEF NoDrop, Consented, Performed
  <2>2. ASSUME NEW c \in Clients, NEW s \in Sources, CreateSource(c, s)
        PROVE  Full(d') /\ NoDrop(d, d')
    BY <2>2, CreateSourceKeeps
  <2>3. ASSUME NEW c \in Clients, StartDragNoSource(c)
        PROVE  Full(d') /\ NoDrop(d, d')
    BY <2>3, StartDragNoSourceKeeps
  <2>4. ASSUME NEW c \in Clients, ReleaseDevice(c) PROVE Full(d') /\ NoDrop(d, d')
    BY <2>4, ReleaseDeviceKeeps
  <2>5. ASSUME NEW c \in Clients, DestroyWindow(c) PROVE Full(d') /\ NoDrop(d, d')
    BY <2>5, DestroyWindowKeeps
  <2>6. ASSUME NEW s \in Sources, NEW a \in {{"copy"}, Actions}, SourceSetActions(s, a)
        PROVE  Full(d') /\ NoDrop(d, d')
    <3>1. a \in SUBSET Actions BY DEF Actions
    <3> QED BY <2>6, <3>1, SourceSetActionsKeeps
  <2>7. ASSUME NEW s \in Sources, NEW k \in {"pointer", "touch"}, StartDrag(s, k)
        PROVE  Full(d') /\ NoDrop(d, d')
    BY <2>0, <2>7, StartDragKeeps
  <2>8. ASSUME NEW s \in Sources, DestroySource(s) PROVE Full(d') /\ NoDrop(d, d')
    BY <2>8, DestroySourceKeeps
  <2>9. ASSUME NEW o \in Offers, NEW yes \in BOOLEAN, Accept(o, yes)
        PROVE  Full(d') /\ NoDrop(d, d')
    BY <2>9, AcceptKeeps
  <2>10. ASSUME NEW o \in Offers, NEW c \in Choices, OfferSetActions(o, c[1], c[2])
         PROVE  Full(d') /\ NoDrop(d, d')
    <3>1. c[1] \in SUBSET Actions /\ c[2] \in Actions \cup {None}
      BY DEF Choices, Actions
    <3> QED BY <2>10, <3>1, OfferSetActionsKeeps
  <2>11. ASSUME NEW o \in Offers, Finish(o) PROVE Full(d') /\ NoDrop(d, d')
    BY <2>11, FinishKeeps
  <2>12. ASSUME NEW o \in Offers, DestroyOffer(o) PROVE Full(d') /\ NoDrop(d, d')
    BY <2>12, DestroyOfferKeeps
  <2>13. ASSUME NEW view \in Clients \cup {None}, NEW read \in Reads, Focus(view, read)
         PROVE  Full(d') /\ NoDrop(d, d')
    BY <2>0, <2>13, FocusStepKeeps
  <2>14. CASE Release BY <2>0, <2>14, ReleaseKeeps
  <2>15. CASE OtherButton BY <2>1, <2>15, OtherButtonKeeps
  <2>16. CASE TouchUp \/ CancelGrab
    <3>1. d' = EndDrag(d) BY <2>16 DEF TouchUp, CancelGrab
    <3> QED BY <2>1, <3>1, EndDragKeeps
  <2>17. ASSUME NEW a \in {"copy", None}, Modifiers(a)
         PROVE  Full(d') /\ NoDrop(d, d')
    BY <2>0, <2>17, ModifiersKeep
  <2>18. CASE ClientStep
    BY <2>1, <2>2, <2>3, <2>4, <2>5, <2>6, <2>7, <2>8, <2>9, <2>10, <2>11, <2>12,
       <2>18, Zenon DEF ClientStep
  <2>19. CASE UserStep
    BY <2>1, <2>13, <2>14, <2>15, <2>16, <2>17, <2>19, Zenon DEF UserStep
  <2> QED BY <1>2, <2>18, <2>19 DEF Next
<1> QED BY <1>1, <1>2 DEF vars

\* The invariant of every behaviour.
THEOREM Invariance == Spec => []IInv
<1>1. IInv /\ [Next]_vars => IInv' BY Inductive
<1> QED BY <1>1, Initially, PTL DEF Spec

\* Whatever clients and the user do in whichever order, of the pointers between
\* sources, offers and the drag only drag->focus is left to what is gone, and the
\* compositor dies of no drag but in the four ways of Survives, the use of that
\* pointer being one.
THEOREM DragIsSound == Spec => []DragSound
<1>1. IInv => DragSound
  <2> SUFFICES ASSUME Full(d) PROVE DragSound BY DEF IInv
  <2>1. /\ Shaped(d) /\ Links(d) /\ Place(d) /\ (d.crashed => d.seen # {})
    BY DEF Full, Core, Loose
  <2>2. TypeOK BY <2>1 DEF TypeOK, Shaped, Place
  <2>3. LinksTrue BY <2>1 DEF LinksTrue, Links, Place, AtFocus
  <2>4. Survives BY <2>1 DEF Survives
  <2> QED BY <2>2, <2>3, <2>4 DEF DragSound
<1> QED BY <1>1, Invariance, PTL

\* What a source hears of its drag is true: the action both ends agreed on, an
\* end that belongs to a drop, and no end while the drag goes on.
THEOREM SourceHearsTheTruth == Spec => []SourceHearsTrue
<1>1. IInv => SourceHearsTrue
  <2> SUFFICES ASSUME Full(d) PROVE SourceHearsTrue BY DEF IInv
  <2>1. Loose(d) /\ Calm(d) BY DEF Full, Core
  <2>2. ActionHeard
    <3>1. "second button" \notin d.seen => \A s \in Sources : Agree(d, s)
      BY <2>1 DEF Loose
    <3> QED BY <3>1, Zenon DEF ActionHeard, Agree
  <2>3. FinishedWasDropped
    BY <2>1 DEF FinishedWasDropped, Loose, Life, Performed
  <2>4. NoEndWhileDragged
    <3>1. None \notin Sources BY DragAssumption
    <3> QED BY <2>1, <3>1 DEF NoEndWhileDragged, Calm, Answered
  <2> QED BY <2>2, <2>3, <2>4 DEF SourceHearsTrue
<1> QED BY <1>1, Invariance, PTL

\* Every drop is made on the client that accepted this very offer, however many
\* others the drag passed over.
THEOREM DropsAreConsented == Spec => DropConsented
<1>1. IInv /\ [Next]_vars =>
        [\A s \in Sources :
           "drop_performed" \in d'.source[s].heard \ d.source[s].heard
             => LET o == d.source[s].offer
                IN d.offer[o].took /\ d.offer[o].client = d.resource]_d
  BY Inductive DEF Consented
<1> QED BY <1>1, Invariance, PTL DEF Spec, DropConsented
=====
