---------------------- MODULE SelectionAndScene_proofs ----------------------
(***************************************************************************)
(* What TLAPS proves of Selection, for any number of clients, of sources   *)
(* and of pastes: all that its run checks.  Every function of the record   *)
(* "k" has a lemma that says what it changes, and is opaque after that.    *)
(*                                                                         *)
(* Of IviScene, for any finite sets of surfaces and layers and any number  *)
(* of the controller's calls: all that its run checks.  Lists are reasoned *)
(* about by what is in them and by what comes before what.                 *)
(***************************************************************************)
EXTENDS Selection, IviScene, FiniteSetTheorems, SequenceTheorems, WellFoundedInduction, TLAPS

Fields == {"source", "clip", "selection", "listener", "serial", "clipboard",
           "offer", "focus", "device", "got", "failed"}

Fates == {"unborn", "gone", "none", "owns", "cancelled", "refused", "misled"}
Owning == {"owns", "misled"}
Serial == 0..(Serials - 1)
ClipSource == [refs: 0..(MaxReads + 1), reading: BOOLEAN, serial: Serial,
               pastes: 0..MaxReads]

\* The record "k" is one, and its fields have their types.
Shaped(c) ==
  /\ DOMAIN c = Fields
  /\ c.source \in [Sources -> Fates]
  /\ c.clip \in [Clips -> ClipSource]
  /\ c.selection \in AnySource \cup {None} /\ c.listener \in AnySource \cup {None}
  /\ c.serial \in Serial
  /\ c.clipboard \in Clips \cup {None}
  /\ c.offer \in [AnySource -> Clients \cup {None}]
  /\ c.focus \in Clients \cup {None} /\ c.device \in SUBSET Clients
  /\ c.got \in AnySource \cup {None, "unknown", "unsent"}
  /\ c.failed \in Clips \cup {None}

\* Only the fields fs change from c to d.
OnlyOf(c, d, fs) == \A f \in Fields \ fs : d[f] = c[f]

\* What is served is there.
OffersLive(c) == \A s \in AnySource : c.offer[s] # None => Live(c, s)

\* SelectionAlive of one record
Held(c) == c.listener = c.selection /\ (c.selection # None => Live(c, c.selection))

\* RefsCounted of one record
Counted(c) ==
  \A clip \in Clips :
    c.clip[clip].refs = c.clip[clip].pastes + (IF c.clipboard = clip THEN 1 ELSE 0)

\* If the clipboard owns the selection, it is its present copy.
OwnCopy(c) == c.selection \in Clips => c.clipboard = c.selection

\* ClipboardTakesOver of one record
TakesOver(c) == c.clipboard # None => c.selection # None

\* FocusInformed of one record
Informed(c) ==
  c.focus # None /\ c.focus \in c.device /\ c.got # "unknown" =>
    /\ c.got = c.selection
    /\ c.selection # None => c.offer[c.selection] = c.focus

\* OwnersKnow of one record
Owners(c) == \A s \in Sources : (c.source[s] \in Owning) <=> (c.selection = s)

\* What holds between two events until a read fails ...
Sound(c) ==
  /\ Held(c) /\ Counted(c) /\ OwnCopy(c) /\ Informed(c)

\* ... and what holds after that.
IInv ==
  /\ Shaped(k) /\ OffersLive(k) /\ TakesOver(k) /\ Owners(k)
  /\ k.failed = None => Sound(k)
  /\ k.failed # None /\ k.failed # k.selection => Held(k) /\ Informed(k)

-----------------------------------------------------------------------------
(* Who is told: weston_seat_send_selection and the bare event.             *)

LEMMA OnlyTrans ==
  ASSUME NEW s, NEW t, NEW u, NEW a, NEW b, NEW c,
         OnlyOf(s, t, a), OnlyOf(t, u, b), a \subseteq c, b \subseteq c
  PROVE  OnlyOf(s, u, c)
  BY DEF OnlyOf

\* A source is there as long as its own fields say so.
LEMMA LiveSame ==
  ASSUME NEW c, NEW d, c.source = d.source, c.clip = d.clip, NEW s
  PROVE  Live(c, s) <=> Live(d, s)
  BY DEF Live

\* The client with the focus knows the selection after it was sent, and all
\* that is served is there if the selection is.
LEMMA SendFacts ==
  ASSUME NEW c, Shaped(c)
  PROVE  LET d == SendSelection(c) IN
         /\ Shaped(d) /\ OnlyOf(c, d, {"got", "offer"}) /\ Informed(d)
         /\ OffersLive(c) /\ (c.selection # None => Live(c, c.selection))
              => OffersLive(d)
         /\ \A s \in AnySource : s # c.selection => d.offer[s] = c.offer[s]
<1> DEFINE d == SendSelection(c)
<1>1. CASE c.focus = None \/ c.focus \notin c.device
  <2>1. d = c BY <1>1 DEF SendSelection
  <2> QED BY <1>1, <2>1 DEF OnlyOf, Informed
<1>2. CASE c.focus # None /\ c.focus \in c.device
  <2> DEFINE offer == [s \in AnySource |-> IF s = c.selection THEN c.focus
                                                              ELSE c.offer[s]]
  <2>1. d = [c EXCEPT !.got = c.selection, !.offer = offer]
    BY <1>2 DEF SendSelection
  <2>2. c.focus \in Clients BY <1>2 DEF Shaped
  <2>4. offer \in [AnySource -> Clients \cup {None}] BY <2>2 DEF Shaped
  <2>6. \A s \in AnySource : offer[s] = IF s = c.selection THEN c.focus
                                                           ELSE c.offer[s]
    OBVIOUS
  <2>7. c.selection \in AnySource \cup {None} BY DEF Shaped
  <2> HIDE DEF offer
  <2>8. DOMAIN d = Fields BY <2>1 DEF Shaped
  <2>9. d.got = c.selection /\ d.offer = offer BY <2>1 DEF Shaped, Fields
  <2>10. \A f \in Fields \ {"got", "offer"} : d[f] = c[f]
    BY <2>1 DEF Shaped, Fields
  <2> HIDE DEF d
  <2>11. /\ d.source = c.source /\ d.clip = c.clip /\ d.selection = c.selection
         /\ d.listener = c.listener /\ d.serial = c.serial
         /\ d.clipboard = c.clipboard /\ d.focus = c.focus
         /\ d.device = c.device /\ d.failed = c.failed
    BY <2>10 DEF Fields
  <2>12. Shaped(d) BY <2>4, <2>7, <2>8, <2>9, <2>11 DEF Shaped
  <2>13. Informed(d) BY <2>6, <2>7, <2>9, <2>11 DEF Informed
  <2>14. ASSUME OffersLive(c), c.selection # None => Live(c, c.selection)
         PROVE  OffersLive(d)
    <3> SUFFICES ASSUME NEW s \in AnySource, d.offer[s] # None
                 PROVE  Live(d, s)
      BY DEF OffersLive
    <3>1. Live(c, s)
      <4>1. CASE s = c.selection
        <5>1. s # None BY SelectionAssumption DEF AnySource
        <5> QED BY <2>14, <4>1, <5>1
      <4>2. CASE s # c.selection BY <2>6, <2>9, <2>14, <4>2 DEF OffersLive
      <4> QED BY <4>1, <4>2
    <3> QED BY <2>11, <3>1, LiveSame
  <2>15. OnlyOf(c, d, {"got", "offer"}) BY <2>10 DEF OnlyOf
  <2>16. \A s \in AnySource : s # c.selection => d.offer[s] = c.offer[s]
    BY <2>6, <2>9
  <2> QED BY <2>12, <2>13, <2>14, <2>15, <2>16 DEF d
<1> QED BY <1>1, <1>2

LEMMA TellFacts ==
  ASSUME NEW c, Shaped(c), c.selection = None
  PROVE  LET d == TellNone(c) IN
         Shaped(d) /\ OnlyOf(c, d, {"got"}) /\ Informed(d)
<1> DEFINE d == TellNone(c)
<1>1. CASE c.focus = None \/ c.focus \notin c.device
  <2>1. d = c BY <1>1 DEF TellNone
  <2> QED BY <1>1, <2>1 DEF OnlyOf, Informed
<1>2. CASE c.focus # None /\ c.focus \in c.device
  <2>1. d = [c EXCEPT !.got = None] BY <1>2 DEF TellNone
  <2>5. DOMAIN d = Fields BY <2>1 DEF Shaped
  <2>6. d.got = None BY <2>1 DEF Shaped, Fields
  <2>7. \A f \in Fields \ {"got"} : d[f] = c[f] BY <2>1 DEF Shaped, Fields
  <2> HIDE DEF d
  <2>8. /\ d.source = c.source /\ d.clip = c.clip /\ d.selection = c.selection
        /\ d.listener = c.listener /\ d.serial = c.serial
        /\ d.clipboard = c.clipboard /\ d.focus = c.focus
        /\ d.device = c.device /\ d.failed = c.failed /\ d.offer = c.offer
    BY <2>7 DEF Fields
  <2>9. Shaped(d) BY <2>5, <2>6, <2>8 DEF Shaped
  <2>10. Informed(d) BY <2>6, <2>8 DEF Informed
  <2> QED BY <2>7, <2>9, <2>10 DEF d, OnlyOf
<1> QED BY <1>1, <1>2

-----------------------------------------------------------------------------
(* The selection's owner loses it.                                         *)

\* Nobody owns what is not selected; and a source that loses is still there.
LEMMA LoseFacts ==
  ASSUME NEW c, Shaped(c), Held(c), Owners(c)
  PROVE  LET d == Lose(c) IN
         /\ Shaped(d) /\ OnlyOf(c, d, {"source", "selection", "listener"})
         /\ d.selection = None /\ d.listener = None
         /\ \A s \in Sources : d.source[s] \notin Owning
         /\ \A s \in AnySource : Live(c, s) => Live(d, s)
<1> DEFINE d == Lose(c)
<1>1. CASE c.selection = None
  <2>1. d = c BY <1>1 DEF Lose
  <2>2. \A s \in Sources : s # None BY SelectionAssumption
  <2> QED BY <1>1, <2>1, <2>2 DEF OnlyOf, Held, Owners
<1>2. CASE c.selection # None
  <2> DEFINE source == [s \in Sources |-> IF s = c.selection
                                          THEN "cancelled" ELSE c.source[s]]
  <2>1. d = [c EXCEPT !.source = source, !.selection = None, !.listener = None]
    BY <1>2 DEF Lose
  <2>2. source \in [Sources -> Fates] BY DEF Shaped, Fates
  <2>3. \A s \in Sources :
          source[s] = IF s = c.selection THEN "cancelled" ELSE c.source[s]
    OBVIOUS
  <2> HIDE DEF source
  <2>4. DOMAIN d = Fields BY <2>1 DEF Shaped
  <2>5. d.source = source /\ d.selection = None /\ d.listener = None
    BY <2>1 DEF Shaped, Fields
  <2>6. \A f \in Fields \ {"source", "selection", "listener"} : d[f] = c[f]
    BY <2>1 DEF Shaped, Fields
  <2> HIDE DEF d
  <2>7. /\ d.clip = c.clip /\ d.serial = c.serial
        /\ d.clipboard = c.clipboard /\ d.focus = c.focus
        /\ d.device = c.device /\ d.failed = c.failed /\ d.offer = c.offer
        /\ d.got = c.got
    BY <2>6 DEF Fields
  <2>8. Shaped(d) BY <2>2, <2>4, <2>5, <2>7 DEF Shaped
  <2>9. \A s \in Sources : d.source[s] \notin Owning
    BY <2>3, <2>5 DEF Owners, Owning
  <2>10. \A s \in AnySource : Live(c, s) => Live(d, s)
    BY <2>3, <2>5, <2>7 DEF Live, AnySource
  <2> QED BY <2>5, <2>6, <2>8, <2>9, <2>10 DEF d, OnlyOf
<1> QED BY <1>1, <1>2

-----------------------------------------------------------------------------
(* The clipboard's sources and their references.                           *)

\* What clipboard_source_unref does to the table of them.
LEMMA UnrefFacts ==
  ASSUME NEW c, Shaped(c), NEW clip \in Clips, c.clip[clip].refs > 0
  PROVE  LET d == Unref(c, clip) IN
         /\ Shaped(d) /\ OnlyOf(c, d, {"clip", "offer"})
         /\ \A x \in Clips \ {clip} : d.clip[x] = c.clip[x]
         /\ \A x \in AnySource \ {clip} : d.offer[x] = c.offer[x]
         /\ c.clip[clip].refs > 1 =>
              /\ d.clip[clip].refs = c.clip[clip].refs - 1
              /\ d.clip[clip].pastes = c.clip[clip].pastes
              /\ d.offer = c.offer
         /\ c.clip[clip].refs = 1 => d.clip[clip] = NoClip /\ d.offer[clip] = None
<1> DEFINE d == Unref(c, clip)
<1>0. /\ c.clip \in [Clips -> ClipSource] /\ c.clip[clip] \in ClipSource
      /\ c.offer \in [AnySource -> Clients \cup {None}] /\ clip \in AnySource
  BY DEF Shaped, AnySource
<1>1. CASE c.clip[clip].refs > 1
  <2> DEFINE r == [c.clip[clip] EXCEPT !.refs = c.clip[clip].refs - 1]
             tab == [c.clip EXCEPT ![clip] = r]
  <2>1. d = [c EXCEPT !.clip = tab] BY <1>1 DEF Unref
  <2>2. /\ r.refs = c.clip[clip].refs - 1 /\ r.pastes = c.clip[clip].pastes
        /\ r \in ClipSource
    <3>1. c.clip[clip].refs - 1 \in 0..(MaxReads + 1)
      BY <1>0, <1>1, SelectionAssumption DEF ClipSource
    <3>2. r \in ClipSource BY <1>0, <3>1, Zenon DEF ClipSource
    <3> QED BY <1>0, <3>2 DEF ClipSource
  <2> HIDE DEF r
  <2>3. /\ tab \in [Clips -> ClipSource] /\ tab[clip] = r
        /\ \A x \in Clips \ {clip} : tab[x] = c.clip[x]
    BY <1>0, <2>2
  <2> HIDE DEF tab
  <2>4. DOMAIN d = Fields BY <2>1 DEF Shaped
  <2>5. d.clip = tab BY <2>1 DEF Shaped, Fields
  <2>6. \A f \in Fields \ {"clip"} : d[f] = c[f] BY <2>1 DEF Shaped, Fields
  <2> HIDE DEF d
  <2>7. /\ d.source = c.source /\ d.selection = c.selection
        /\ d.listener = c.listener /\ d.serial = c.serial
        /\ d.clipboard = c.clipboard /\ d.focus = c.focus
        /\ d.device = c.device /\ d.failed = c.failed /\ d.offer = c.offer
        /\ d.got = c.got
    BY <2>6 DEF Fields
  <2>8. Shaped(d) BY <2>3, <2>4, <2>5, <2>7 DEF Shaped
  <2>9. OnlyOf(c, d, {"clip", "offer"}) BY <2>6 DEF OnlyOf
  <2> QED BY <1>1, <2>2, <2>3, <2>5, <2>7, <2>8, <2>9 DEF d
<1>2. CASE ~(c.clip[clip].refs > 1)
  <2> DEFINE tab == [c.clip EXCEPT ![clip] = NoClip]
             off == [c.offer EXCEPT ![clip] = None]
  <2>1. d = [c EXCEPT !.clip = tab, !.offer = off] BY <1>2 DEF Unref
  <2>2. NoClip \in ClipSource
    BY SelectionAssumption DEF NoClip, ClipSource, Serial
  <2>3. /\ tab \in [Clips -> ClipSource] /\ tab[clip] = NoClip
        /\ \A x \in Clips \ {clip} : tab[x] = c.clip[x]
    BY <1>0, <2>2
  <2>31. /\ off \in [AnySource -> Clients \cup {None}] /\ off[clip] = None
         /\ \A x \in AnySource \ {clip} : off[x] = c.offer[x]
    BY <1>0
  <2> HIDE DEF tab, off
  <2>4. DOMAIN d = Fields BY <2>1 DEF Shaped
  <2>5. d.clip = tab /\ d.offer = off BY <2>1 DEF Shaped, Fields
  <2>6. \A f \in Fields \ {"clip", "offer"} : d[f] = c[f]
    BY <2>1 DEF Shaped, Fields
  <2> HIDE DEF d
  <2>7. /\ d.source = c.source /\ d.selection = c.selection
        /\ d.listener = c.listener /\ d.serial = c.serial
        /\ d.clipboard = c.clipboard /\ d.focus = c.focus
        /\ d.device = c.device /\ d.failed = c.failed /\ d.got = c.got
    BY <2>6 DEF Fields
  <2>8. Shaped(d) BY <2>3, <2>31, <2>4, <2>5, <2>7 DEF Shaped
  <2>9. OnlyOf(c, d, {"clip", "offer"}) BY <2>6 DEF OnlyOf
  <2> QED BY <1>2, <2>3, <2>31, <2>5, <2>8, <2>9 DEF d
<1> QED BY <1>1, <1>2

LEMMA CopyFacts ==
  ASSUME NEW c, Shaped(c), NEW clip \in Clips
  PROVE  LET d == Copy(c, clip) IN
         /\ Shaped(d) /\ OnlyOf(c, d, {"clip", "clipboard"})
         /\ d.clip[clip].refs = 1 /\ d.clip[clip].pastes = 0
         /\ d.clipboard = clip
         /\ \A x \in Clips \ {clip} : d.clip[x] = c.clip[x]
<1> DEFINE d == Copy(c, clip)
           r == [refs |-> 1, reading |-> TRUE, serial |-> c.serial, pastes |-> 0]
           tab == [c.clip EXCEPT ![clip] = r]
<1>1. d = [c EXCEPT !.clip = tab, !.clipboard = clip] BY DEF Copy
<1>2. r \in ClipSource
  <2>1. 1 \in 0..(MaxReads + 1) /\ 0 \in 0..MaxReads BY SelectionAssumption
  <2>2. c.serial \in Serial /\ TRUE \in BOOLEAN BY DEF Shaped
  <2> QED BY <2>1, <2>2, Zenon DEF ClipSource
<1>3. r.refs = 1 /\ r.pastes = 0 OBVIOUS
<1> HIDE DEF r
<1>4. /\ tab \in [Clips -> ClipSource] /\ tab[clip] = r
      /\ \A x \in Clips \ {clip} : tab[x] = c.clip[x]
  BY <1>2 DEF Shaped
<1> HIDE DEF tab
<1>5. DOMAIN d = Fields BY <1>1 DEF Shaped
<1>6. d.clip = tab /\ d.clipboard = clip BY <1>1 DEF Shaped, Fields
<1>7. \A f \in Fields \ {"clip", "clipboard"} : d[f] = c[f]
  BY <1>1 DEF Shaped, Fields
<1> HIDE DEF d
<1>8. /\ d.source = c.source /\ d.selection = c.selection
      /\ d.listener = c.listener /\ d.serial = c.serial /\ d.focus = c.focus
      /\ d.device = c.device /\ d.failed = c.failed /\ d.offer = c.offer
      /\ d.got = c.got
  BY <1>7 DEF Fields
<1>9. Shaped(d) BY <1>4, <1>5, <1>6, <1>8 DEF Shaped
<1> QED BY <1>3, <1>4, <1>6, <1>7, <1>9 DEF d, OnlyOf

\* A copy the clipboard has is there.
LEMMA CountedLive ==
  ASSUME NEW c, Shaped(c), Counted(c), c.clipboard # None
  PROVE  /\ c.clipboard \in Clips /\ c.clip[c.clipboard].refs > 0
         /\ Live(c, c.clipboard)
<1>1. c.clipboard \in Clips BY DEF Shaped
<1>2. c.clip[c.clipboard] \in ClipSource BY <1>1 DEF Shaped
<1>3. c.clip[c.clipboard].refs = c.clip[c.clipboard].pastes + 1
  BY <1>1 DEF Counted
<1>4. c.clip[c.clipboard].refs > 0
  BY <1>2, <1>3, SelectionAssumption DEF ClipSource
<1> QED BY <1>1, <1>4 DEF Live

\* The clipboard gives back the old copy, and may take another.
LEMMA DropFacts ==
  ASSUME NEW c, Shaped(c), Counted(c), OffersLive(c), c.clipboard # None
  PROVE  LET d == [Unref(c, c.clipboard) EXCEPT !.clipboard = None] IN
         /\ Shaped(d) /\ OnlyOf(c, d, {"clip", "offer", "clipboard"})
         /\ Counted(d) /\ OffersLive(d) /\ d.clipboard = None
         /\ \A x \in Clips : c.clip[x].refs = 0 => d.clip[x].refs = 0
         /\ \A s \in Sources : d.offer[s] = c.offer[s]
<1> DEFINE old == c.clipboard
           u == Unref(c, old)
           d == [u EXCEPT !.clipboard = None]
<1>1. old \in Clips /\ c.clip[old].refs > 0 BY CountedLive
<1>2. /\ Shaped(u) /\ OnlyOf(c, u, {"clip", "offer"})
      /\ \A x \in Clips \ {old} : u.clip[x] = c.clip[x]
      /\ \A x \in AnySource \ {old} : u.offer[x] = c.offer[x]
      /\ c.clip[old].refs > 1 =>
           /\ u.clip[old].refs = c.clip[old].refs - 1
           /\ u.clip[old].pastes = c.clip[old].pastes
           /\ u.offer = c.offer
      /\ c.clip[old].refs = 1 => u.clip[old] = NoClip /\ u.offer[old] = None
  BY <1>1, UnrefFacts
<1>3. \A x \in Clips : c.clip[x] \in ClipSource BY DEF Shaped
<1>4. c.clip[old].refs = c.clip[old].pastes + 1 BY <1>1 DEF Counted
<1> HIDE DEF u
<1>5. DOMAIN d = Fields BY <1>2 DEF Shaped
<1>6. d.clipboard = None BY <1>2 DEF Shaped, Fields
<1>7. \A f \in Fields \ {"clipboard"} : d[f] = u[f]
  BY <1>2 DEF Shaped, Fields
<1> HIDE DEF d
<1>8. /\ d.source = u.source /\ d.clip = u.clip /\ d.selection = u.selection
      /\ d.listener = u.listener /\ d.serial = u.serial /\ d.focus = u.focus
      /\ d.device = u.device /\ d.failed = u.failed /\ d.offer = u.offer
      /\ d.got = u.got
  BY <1>7 DEF Fields
<1>9. Shaped(d) BY <1>2, <1>5, <1>6, <1>8 DEF Shaped
<1>10. Counted(d)
  <2> SUFFICES ASSUME NEW x \in Clips
               PROVE  d.clip[x].refs = d.clip[x].pastes + 0
    BY <1>6, SelectionAssumption DEF Counted
  <2>1. CASE x = old
    <3>1. c.clip[old].refs > 1 \/ c.clip[old].refs = 1
      BY <1>1, <1>3 DEF ClipSource
    <3>2. CASE c.clip[old].refs > 1
      BY <1>1, <1>2, <1>3, <1>4, <1>8, <2>1, <3>2, SelectionAssumption
      DEF ClipSource
    <3>3. CASE c.clip[old].refs = 1 BY <1>2, <1>8, <2>1, <3>3 DEF NoClip
    <3> QED BY <3>1, <3>2, <3>3
  <2>2. CASE x # old
    BY <1>2, <1>3, <1>8, <2>2 DEF Counted
  <2> QED BY <2>1, <2>2
<1>11. OffersLive(d)
  <2> SUFFICES ASSUME NEW s \in AnySource, d.offer[s] # None
               PROVE  Live(d, s)
    BY DEF OffersLive
  <2>1. CASE s = old
    <3>1. c.clip[old].refs > 1
      BY <1>1, <1>2, <1>3, <1>8, <2>1 DEF ClipSource
    <3>2. u.clip[old].refs > 0
      BY <1>1, <1>2, <1>3, <3>1 DEF ClipSource
    <3> QED BY <1>1, <1>8, <2>1, <3>2 DEF Live
  <2>2. CASE s # old
    <3>1. Live(c, s) BY <1>2, <1>8, <2>2 DEF OffersLive
    <3>2. u.source = c.source BY <1>2 DEF OnlyOf, Fields
    <3> QED BY <1>2, <1>8, <2>2, <3>1, <3>2 DEF Live
  <2> QED BY <2>1, <2>2
<1>12. \A x \in Clips : c.clip[x].refs = 0 => d.clip[x].refs = 0
  BY <1>1, <1>2, <1>8
<1>13. \A s \in Sources : d.offer[s] = c.offer[s]
  BY <1>1, <1>2, <1>8, SelectionAssumption DEF AnySource
<1>14. OnlyOf(c, d, {"clip", "offer", "clipboard"}) BY <1>2, <1>7 DEF OnlyOf
<1> QED BY <1>6, <1>9, <1>10, <1>11, <1>12, <1>13, <1>14 DEF d, u

LEMMA ReplaceFacts ==
  ASSUME NEW c, Shaped(c), Counted(c), OffersLive(c), NEW copied \in BOOLEAN,
         NEW clip \in Clips, c.clip[clip].refs = 0
  PROVE  LET d == Replace(c, copied, clip) IN
         /\ Shaped(d) /\ OnlyOf(c, d, {"clip", "offer", "clipboard"})
         /\ Counted(d) /\ OffersLive(d)
         /\ \A s \in Sources : d.offer[s] = c.offer[s]
<1> DEFINE u == IF c.clipboard = None THEN c
                ELSE [Unref(c, c.clipboard) EXCEPT !.clipboard = None]
           d == Replace(c, copied, clip)
<1>1. d = IF copied THEN Copy(u, clip) ELSE u BY DEF Replace
<1>2. /\ Shaped(u) /\ OnlyOf(c, u, {"clip", "offer", "clipboard"})
      /\ Counted(u) /\ OffersLive(u) /\ u.clipboard = None
      /\ u.clip[clip].refs = 0
      /\ \A s \in Sources : u.offer[s] = c.offer[s]
  <2>1. CASE c.clipboard = None BY <2>1 DEF OnlyOf
  <2>2. CASE c.clipboard # None BY <2>2, DropFacts
  <2> QED BY <2>1, <2>2
<1> HIDE DEF u
<1>3. CASE ~copied BY <1>1, <1>2, <1>3
<1>4. CASE copied
  <2>1. d = Copy(u, clip) BY <1>1, <1>4
  <2>2. /\ Shaped(d) /\ OnlyOf(u, d, {"clip", "clipboard"})
        /\ d.clip[clip].refs = 1 /\ d.clip[clip].pastes = 0
        /\ d.clipboard = clip
        /\ \A x \in Clips \ {clip} : d.clip[x] = u.clip[x]
    BY <1>2, <2>1, CopyFacts
  <2> HIDE DEF d
  <2>3. d.offer = u.offer /\ d.source = u.source BY <2>2 DEF OnlyOf, Fields
  <2>4. Counted(d)
    BY <1>2, <2>2, SelectionAssumption DEF Counted
  <2>5. OffersLive(d) BY <1>2, <2>2, <2>3 DEF OffersLive, Live
  <2>6. OnlyOf(c, d, {"clip", "offer", "clipboard"})
    BY <1>2, <2>2 DEF OnlyOf
  <2> QED BY <1>2, <2>2, <2>3, <2>4, <2>5, <2>6 DEF d
<1> QED BY <1>3, <1>4

-----------------------------------------------------------------------------
(* The clipboard's answer, and weston_seat_set_selection.                  *)

\* Nothing is selected, and the seat listens to nobody.
Bare(c) == c.selection = None /\ c.listener = None

\* The clipboard selects its copy, if it has one.
LEMMA RestoreFacts ==
  ASSUME NEW c, Shaped(c), Counted(c), OffersLive(c), Bare(c), Informed(c)
  PROVE  LET d == Restore(c) IN
         /\ Shaped(d)
         /\ OnlyOf(c, d, {"selection", "serial", "got", "offer", "listener"})
         /\ d.selection = c.clipboard /\ d.listener = c.clipboard
         /\ OffersLive(d) /\ Informed(d) /\ Held(d)
<1> DEFINE d == Restore(c)
<1>1. CASE c.clipboard = None
  <2>1. d = c BY <1>1 DEF Restore
  <2> QED BY <1>1, <2>1 DEF Bare, Held, OnlyOf
<1>2. CASE c.clipboard # None
  <2> DEFINE own == c.clipboard
             u == [c EXCEPT !.selection = own, !.serial = c.clip[own].serial]
             v == SendSelection(u)
  <2>1. d = [v EXCEPT !.listener = own] BY <1>2 DEF Restore
  <2>2. own \in Clips /\ Live(c, own) BY <1>2, CountedLive
  <2>3. c.clip[own].serial \in Serial
    <3>1. c.clip[own] \in ClipSource BY <2>2 DEF Shaped
    <3> QED BY <3>1 DEF ClipSource
  <2>4. DOMAIN u = Fields BY DEF Shaped
  <2>5. u.selection = own /\ u.serial = c.clip[own].serial
    BY DEF Shaped, Fields
  <2>6. \A f \in Fields \ {"selection", "serial"} : u[f] = c[f]
    BY DEF Shaped, Fields
  <2> HIDE DEF u
  <2>7. /\ u.source = c.source /\ u.clip = c.clip /\ u.listener = c.listener
        /\ u.clipboard = c.clipboard /\ u.focus = c.focus
        /\ u.device = c.device /\ u.failed = c.failed /\ u.offer = c.offer
        /\ u.got = c.got
    BY <2>6 DEF Fields
  <2>8. Shaped(u) BY <2>2, <2>3, <2>4, <2>5, <2>7 DEF Shaped, AnySource
  <2>9. OffersLive(u) BY <2>7, LiveSame DEF OffersLive
  <2>10. Live(u, u.selection) BY <2>2, <2>5, <2>7, LiveSame
  <2>11. /\ Shaped(v) /\ OnlyOf(u, v, {"got", "offer"}) /\ Informed(v)
         /\ OffersLive(v)
    BY <2>8, <2>9, <2>10, SendFacts
  <2> HIDE DEF v
  <2>12. DOMAIN d = Fields BY <2>1, <2>11 DEF Shaped
  <2>13. d.listener = own BY <2>1, <2>11 DEF Shaped, Fields
  <2>14. \A f \in Fields \ {"listener"} : d[f] = v[f]
    BY <2>1, <2>11 DEF Shaped, Fields
  <2> HIDE DEF d
  <2>15. /\ d.source = v.source /\ d.clip = v.clip /\ d.selection = v.selection
         /\ d.serial = v.serial /\ d.clipboard = v.clipboard
         /\ d.focus = v.focus /\ d.device = v.device /\ d.failed = v.failed
         /\ d.offer = v.offer /\ d.got = v.got
    BY <2>14 DEF Fields
  <2>16. /\ v.selection = own /\ v.source = c.source /\ v.clip = c.clip
    BY <2>5, <2>7, <2>11 DEF OnlyOf, Fields
  <2>17. Shaped(d)
    BY <2>2, <2>11, <2>12, <2>13, <2>15 DEF Shaped, AnySource
  <2>18. OffersLive(d) BY <2>11, <2>15, LiveSame DEF OffersLive
  <2>19. Informed(d) BY <2>11, <2>15 DEF Informed
  <2>20. Held(d) BY <2>2, <2>13, <2>15, <2>16, LiveSame DEF Held
  <2>21. OnlyOf(c, d, {"selection", "serial", "got", "offer", "listener"})
    BY <2>6, <2>11, <2>14 DEF OnlyOf
  <2> QED BY <2>13, <2>15, <2>16, <2>17, <2>18, <2>19, <2>20, <2>21 DEF d
<1> QED BY <1>1, <1>2

\* destroy_selection_data_source, whether or not the source is still there
LEMMA DestroyedFacts ==
  ASSUME NEW c, Shaped(c), Counted(c), OffersLive(c)
  PROVE  LET d == SelectionDestroyed(c) IN
         /\ Shaped(d)
         /\ OnlyOf(c, d, {"selection", "serial", "got", "offer", "listener"})
         /\ d.selection = c.clipboard /\ d.listener = c.clipboard
         /\ OffersLive(d) /\ Informed(d) /\ Held(d) /\ Counted(d)
<1> DEFINE u == [c EXCEPT !.selection = None, !.listener = None]
           v == TellNone(u)
           d == SelectionDestroyed(c)
<1>1. d = Restore(v) BY DEF SelectionDestroyed
<1>2. DOMAIN u = Fields BY DEF Shaped
<1>3. u.selection = None /\ u.listener = None BY DEF Shaped, Fields
<1>4. \A f \in Fields \ {"selection", "listener"} : u[f] = c[f]
  BY DEF Shaped, Fields
<1> HIDE DEF u
<1>5. /\ u.source = c.source /\ u.clip = c.clip /\ u.serial = c.serial
      /\ u.clipboard = c.clipboard /\ u.focus = c.focus
      /\ u.device = c.device /\ u.failed = c.failed /\ u.offer = c.offer
      /\ u.got = c.got
  BY <1>4 DEF Fields
<1>6. Shaped(u) BY <1>2, <1>3, <1>5 DEF Shaped
<1>7. Shaped(v) /\ OnlyOf(u, v, {"got"}) /\ Informed(v)
  BY <1>3, <1>6, TellFacts
<1> HIDE DEF v
<1>8. /\ v.source = c.source /\ v.clip = c.clip /\ v.clipboard = c.clipboard
      /\ v.offer = c.offer /\ v.selection = None /\ v.listener = None
  BY <1>3, <1>5, <1>7 DEF OnlyOf, Fields
<1>9. OffersLive(v) BY <1>8, LiveSame DEF OffersLive
<1>10. Counted(v) BY <1>8 DEF Counted
<1>11. /\ Shaped(d)
       /\ OnlyOf(v, d, {"selection", "serial", "got", "offer", "listener"})
       /\ d.selection = v.clipboard /\ d.listener = v.clipboard
       /\ OffersLive(d) /\ Informed(d) /\ Held(d)
  BY <1>1, <1>7, <1>8, <1>9, <1>10, RestoreFacts DEF Bare
<1> HIDE DEF d
<1>12. Counted(d)
  <2>1. d.clip = v.clip /\ d.clipboard = v.clipboard
    BY <1>11 DEF OnlyOf, Fields
  <2> QED BY <1>10, <2>1 DEF Counted
<1>13. OnlyOf(c, d, {"selection", "serial", "got", "offer", "listener"})
  BY <1>4, <1>7, <1>11 DEF OnlyOf
<1> QED BY <1>8, <1>11, <1>12, <1>13 DEF d

\* What holds between two events; Consistent is all of it but Owners.
Consistent(c) == Shaped(c) /\ OffersLive(c) /\ TakesOver(c) /\ Sound(c)
Good(c) ==
  Shaped(c) /\ OffersLive(c) /\ TakesOver(c) /\ Owners(c) /\ Sound(c)

\* Owners of all but one source
OthersOwn(c, s) ==
  \A z \in Sources \ {s} : (c.source[z] \in Owning) <=> (c.selection = z)

\* After the clipboard's answer its copy is selected, if it has one.
LEMMA GoodAfterRestore ==
  ASSUME NEW c, Shaped(c), OffersLive(c), Informed(c), Held(c), Counted(c),
         c.selection = c.clipboard, \A s \in Sources : c.source[s] \notin Owning
  PROVE  Good(c)
<1>1. \A s \in Sources : c.selection # s BY SelectionAssumption DEF Shaped
<1> QED BY <1>1 DEF Good, Sound, TakesOver, Owners, OwnCopy

LEMMA ClearFacts ==
  ASSUME NEW c, Good(c), NEW serial \in Serial
  PROVE  LET d == ClearSelection(c, serial) IN
         Good(d) /\ d.failed = c.failed
<1> DEFINE d == ClearSelection(c, serial)
           l == Lose(c)
           u == [l EXCEPT !.serial = serial]
           v == SendSelection(u)
<1>1. CASE Stale(c, serial)
  <2>1. d = c BY <1>1 DEF ClearSelection
  <2> QED BY <2>1
<1>2. CASE ~Stale(c, serial)
  <2>1. d = Restore(v) BY <1>2 DEF ClearSelection
  <2>2. /\ Shaped(l) /\ OnlyOf(c, l, {"source", "selection", "listener"})
        /\ l.selection = None /\ l.listener = None
        /\ \A s \in Sources : l.source[s] \notin Owning
        /\ \A s \in AnySource : Live(c, s) => Live(l, s)
    BY LoseFacts DEF Good, Sound
  <2>21. /\ l.clip = c.clip /\ l.clipboard = c.clipboard /\ l.offer = c.offer
         /\ l.failed = c.failed
    BY <2>2 DEF OnlyOf, Fields
  <2> HIDE DEF l
  <2>3. DOMAIN u = Fields BY <2>2 DEF Shaped
  <2>4. u.serial = serial BY <2>2 DEF Shaped, Fields
  <2>5. \A f \in Fields \ {"serial"} : u[f] = l[f]
    BY <2>2 DEF Shaped, Fields
  <2> HIDE DEF u
  <2>6. /\ u.source = l.source /\ u.clip = l.clip /\ u.selection = l.selection
        /\ u.listener = l.listener /\ u.clipboard = l.clipboard
        /\ u.focus = l.focus /\ u.device = l.device /\ u.failed = l.failed
        /\ u.offer = l.offer /\ u.got = l.got
    BY <2>5 DEF Fields
  <2>7. Shaped(u) BY <2>2, <2>3, <2>4, <2>6 DEF Shaped
  <2>8. OffersLive(u)
    <3>1. \A s \in AnySource : c.offer[s] # None => Live(l, s)
      BY <2>2 DEF Good, OffersLive
    <3> QED BY <2>21, <2>6, <3>1, LiveSame DEF OffersLive
  <2>9. /\ Shaped(v) /\ OnlyOf(u, v, {"got", "offer"}) /\ Informed(v)
        /\ OffersLive(v)
    BY <2>2, <2>6, <2>7, <2>8, SendFacts
  <2> HIDE DEF v
  <2>10. /\ v.source = l.source /\ v.clip = c.clip /\ v.clipboard = c.clipboard
         /\ v.selection = None /\ v.listener = None /\ v.failed = c.failed
    BY <2>2, <2>21, <2>6, <2>9 DEF OnlyOf, Fields
  <2>11. Counted(v) BY <2>10 DEF Good, Sound, Counted
  <2>12. /\ Shaped(d)
         /\ OnlyOf(v, d, {"selection", "serial", "got", "offer", "listener"})
         /\ d.selection = v.clipboard /\ d.listener = v.clipboard
         /\ OffersLive(d) /\ Informed(d) /\ Held(d)
    BY <2>1, <2>9, <2>10, <2>11, RestoreFacts DEF Bare
  <2> HIDE DEF d
  <2>13. /\ d.clip = v.clip /\ d.clipboard = v.clipboard /\ d.source = v.source
         /\ d.failed = v.failed
    BY <2>12 DEF OnlyOf, Fields
  <2>14. Counted(d) BY <2>11, <2>13 DEF Counted
  <2>15. Good(d)
    BY <2>2, <2>10, <2>12, <2>13, <2>14, GoodAfterRestore
  <2> QED BY <2>10, <2>13, <2>15 DEF d
<1> QED BY <1>1, <1>2

\* What becomes of a source's claim says whether it owns the selection.
LEMMA FateFacts ==
  ASSUME NEW c, Consistent(c), NEW s \in Sources, OthersOwn(c, s),
         NEW fate \in Fates \ {"unborn", "gone"},
         (fate \in Owning) <=> (c.selection = s)
  PROVE  LET d == [c EXCEPT !.source[s] = fate] IN
         Good(d) /\ d.failed = c.failed /\ OnlyOf(c, d, {"source"})
<1> DEFINE source == [c.source EXCEPT ![s] = fate]
           d == [c EXCEPT !.source = source]
<1>0. Shaped(c) BY DEF Consistent
<1>1. /\ source \in [Sources -> Fates] /\ source[s] = fate
      /\ \A x \in Sources \ {s} : source[x] = c.source[x]
  BY <1>0 DEF Shaped
<1> HIDE DEF source
<1>2. DOMAIN d = Fields BY <1>0 DEF Shaped
<1>3. d.source = source BY <1>0 DEF Shaped, Fields
<1>4. \A f \in Fields \ {"source"} : d[f] = c[f] BY <1>0 DEF Shaped, Fields
<1> HIDE DEF d
<1>5. /\ d.clip = c.clip /\ d.selection = c.selection
      /\ d.listener = c.listener /\ d.serial = c.serial
      /\ d.clipboard = c.clipboard /\ d.focus = c.focus
      /\ d.device = c.device /\ d.failed = c.failed /\ d.offer = c.offer
      /\ d.got = c.got
  BY <1>4 DEF Fields
<1>6. Shaped(d) BY <1>0, <1>1, <1>2, <1>3, <1>5 DEF Shaped
<1>7. \A x \in AnySource : Live(c, x) => Live(d, x)
  BY <1>1, <1>3, <1>5 DEF Live, AnySource
<1>8. c.selection \in AnySource \cup {None} BY <1>0 DEF Shaped
<1>9. OffersLive(d) BY <1>5, <1>7 DEF Consistent, OffersLive
<1>10. Held(d) BY <1>5, <1>7, <1>8 DEF Consistent, Sound, Held
<1>11. TakesOver(d) /\ Counted(d) /\ OwnCopy(d) /\ Informed(d)
  BY <1>5 DEF Consistent, Sound, TakesOver, Counted, OwnCopy, Informed
<1>12. Owners(d)
  <2> SUFFICES ASSUME NEW z \in Sources
               PROVE  (d.source[z] \in Owning) <=> (c.selection = z)
    BY <1>5 DEF Owners
  <2>1. CASE z = s BY <1>1, <1>3, <2>1
  <2>2. CASE z # s BY <1>1, <1>3, <2>2 DEF OthersOwn
  <2> QED BY <2>1, <2>2
<1>13. d = [c EXCEPT !.source[s] = fate] BY DEF d, source
<1>14. OnlyOf(c, d, {"source"}) BY <1>4 DEF OnlyOf
<1> QED BY <1>5, <1>6, <1>9, <1>10, <1>11, <1>12, <1>13, <1>14 DEF Good, Sound

\* What does not own it may be given another fate that does not.
LEMMA GoodParts ==
  ASSUME NEW c, Good(c), NEW s
  PROVE  Consistent(c) /\ OthersOwn(c, s)
  BY DEF Good, Consistent, Owners, OthersOwn

LEMMA SetFacts ==
  ASSUME NEW c, Good(c), NEW s \in Sources, Live(c, s), NEW serial \in Serial,
         NEW copied \in BOOLEAN, NEW clip \in Clips, c.clip[clip].refs = 0
  PROVE  LET d == SetSelection(c, s, serial, copied, clip) IN
         Good(d) /\ d.failed = c.failed
<1> DEFINE l == Lose(c)
           u == [l EXCEPT !.selection = s, !.serial = serial]
           v == SendSelection(u)
           w == Replace(v, copied, clip)
           x == [w EXCEPT !.listener = s]
           d == SetSelection(c, s, serial, copied, clip)
<1>1. CASE Stale(c, serial)
  <2>1. d = IF c.selection = s THEN c ELSE [c EXCEPT !.source[s] = "refused"]
    BY <1>1 DEF SetSelection
  <2>2. CASE c.selection = s BY <2>1, <2>2
  <2>3. CASE c.selection # s
    <3>1. Consistent(c) /\ OthersOwn(c, s) BY GoodParts
    <3>2. "refused" \in Fates \ {"unborn", "gone"} /\ "refused" \notin Owning
      BY DEF Fates, Owning
    <3> QED BY <2>1, <2>3, <3>1, <3>2, FateFacts
  <2> QED BY <2>2, <2>3
<1>2. CASE ~Stale(c, serial)
  <2>1. /\ c.selection = s => d = [x EXCEPT !.source[s] = "misled"]
        /\ c.selection # s => d = [x EXCEPT !.source[s] = "owns"]
    BY <1>2 DEF SetSelection
  <2>2. /\ Shaped(l) /\ OnlyOf(c, l, {"source", "selection", "listener"})
        /\ l.selection = None /\ l.listener = None
        /\ \A z \in Sources : l.source[z] \notin Owning
        /\ \A z \in AnySource : Live(c, z) => Live(l, z)
    BY LoseFacts DEF Good, Sound
  <2>21. /\ l.clip = c.clip /\ l.clipboard = c.clipboard /\ l.offer = c.offer
         /\ l.failed = c.failed
    BY <2>2 DEF OnlyOf, Fields
  <2>22. s \in AnySource /\ s \notin Clips /\ s # None
    BY SelectionAssumption DEF AnySource
  <2> HIDE DEF l, d
  <2>3. DOMAIN u = Fields BY <2>2 DEF Shaped
  <2>4. u.selection = s /\ u.serial = serial BY <2>2 DEF Shaped, Fields
  <2>5. \A f \in Fields \ {"selection", "serial"} : u[f] = l[f]
    BY <2>2 DEF Shaped, Fields
  <2> HIDE DEF u
  <2>6. /\ u.source = l.source /\ u.clip = l.clip
        /\ u.listener = l.listener /\ u.clipboard = l.clipboard
        /\ u.focus = l.focus /\ u.device = l.device /\ u.failed = l.failed
        /\ u.offer = l.offer /\ u.got = l.got
    BY <2>5 DEF Fields
  <2>7. Shaped(u) BY <2>2, <2>22, <2>3, <2>4, <2>6 DEF Shaped
  <2>8. OffersLive(u)
    <3>1. \A z \in AnySource : c.offer[z] # None => Live(l, z)
      BY <2>2 DEF Good, OffersLive
    <3> QED BY <2>21, <2>6, <3>1, LiveSame DEF OffersLive
  <2>81. Live(u, u.selection) BY <2>2, <2>22, <2>4, <2>6, LiveSame
  <2>9. /\ Shaped(v) /\ OnlyOf(u, v, {"got", "offer"}) /\ Informed(v)
        /\ OffersLive(v)
    BY <2>7, <2>8, <2>81, SendFacts
  <2> HIDE DEF v
  <2>10. /\ v.source = l.source /\ v.clip = c.clip /\ v.clipboard = c.clipboard
         /\ v.selection = s /\ v.failed = c.failed
    BY <2>21, <2>4, <2>6, <2>9 DEF OnlyOf, Fields
  <2>11. Counted(v) BY <2>10 DEF Good, Sound, Counted
  <2>12. /\ Shaped(w) /\ OnlyOf(v, w, {"clip", "offer", "clipboard"})
         /\ Counted(w) /\ OffersLive(w)
         /\ \A z \in Sources : w.offer[z] = v.offer[z]
    BY <2>9, <2>10, <2>11, ReplaceFacts
  <2> HIDE DEF w
  <2>13. /\ w.source = l.source /\ w.selection = s /\ w.focus = v.focus
         /\ w.device = v.device /\ w.got = v.got /\ w.failed = c.failed
    BY <2>10, <2>12 DEF OnlyOf, Fields
  <2>14. Informed(w)
    BY <2>9, <2>10, <2>12, <2>13 DEF Informed
  <2>15. DOMAIN x = Fields BY <2>12 DEF Shaped
  <2>16. x.listener = s BY <2>12 DEF Shaped, Fields
  <2>17. \A f \in Fields \ {"listener"} : x[f] = w[f]
    BY <2>12 DEF Shaped, Fields
  <2> HIDE DEF x
  <2>18. /\ x.source = w.source /\ x.clip = w.clip /\ x.selection = w.selection
         /\ x.serial = w.serial /\ x.clipboard = w.clipboard
         /\ x.focus = w.focus /\ x.device = w.device /\ x.failed = w.failed
         /\ x.offer = w.offer /\ x.got = w.got
    BY <2>17 DEF Fields
  <2>19. Shaped(x) BY <2>12, <2>15, <2>16, <2>18, <2>22 DEF Shaped
  <2>20. Live(x, s) BY <2>2, <2>22, <2>13, <2>18 DEF Live
  <2>23. Consistent(x)
    <3>1. OffersLive(x) BY <2>12, <2>18, LiveSame DEF OffersLive
    <3>2. Held(x) BY <2>13, <2>16, <2>18, <2>20 DEF Held
    <3>3. Counted(x) BY <2>12, <2>18 DEF Counted
    <3>4. OwnCopy(x) BY <2>13, <2>18, <2>22 DEF OwnCopy
    <3>5. TakesOver(x) BY <2>13, <2>18, <2>22 DEF TakesOver
    <3>6. Informed(x) BY <2>14, <2>18 DEF Informed
    <3> QED BY <2>19, <3>1, <3>2, <3>3, <3>4, <3>5, <3>6 DEF Consistent, Sound
  <2>24. OthersOwn(x, s) BY <2>2, <2>13, <2>18 DEF OthersOwn
  <2>25. x.selection = s /\ x.failed = c.failed BY <2>13, <2>18
  <2>26. {"owns", "misled"} \subseteq Fates \ {"unborn", "gone"}
    BY DEF Fates
  <2>27. "owns" \in Owning /\ "misled" \in Owning BY DEF Owning
  <2> DEFINE fate == IF c.selection = s THEN "misled" ELSE "owns"
             y == [x EXCEPT !.source[s] = fate]
  <2>28. d = y BY <2>1
  <2>29. fate \in Fates \ {"unborn", "gone"} /\ (fate \in Owning <=> x.selection = s)
    BY <2>25, <2>26, <2>27
  <2> HIDE DEF fate
  <2>30. Good(y) /\ y.failed = x.failed /\ OnlyOf(x, y, {"source"})
    BY ONLY <2>23, <2>24, <2>29, s \in Sources, FateFacts
  <2>31. Good(d) /\ d.failed = x.failed
    <3> HIDE DEF y
    <3> QED BY <2>28, <2>30
  <2> QED BY <2>25, <2>31 DEF d
<1> QED BY <1>1, <1>2

-----------------------------------------------------------------------------
(* Steps: sources of clients.                                              *)

\* What a step starts from, and what it keeps unless a read fails.
Running == Good(k) /\ k.failed = None

LEMMA CreateStep ==
  ASSUME Running, NEW s \in Sources, CreateSource(s)
  PROVE  Running'
<1>1. k' = [k EXCEPT !.source[s] = "none"] BY DEF CreateSource
<1>2. Good(k') /\ k'.failed = k.failed
  <2>1. Good(k) BY DEF Running
  <2>2. Consistent(k) /\ OthersOwn(k, s) BY <2>1, GoodParts
  <2>3. "none" \in Fates \ {"unborn", "gone"} /\ "none" \notin Owning
    BY DEF Fates, Owning
  <2>4. k.selection # s
    BY <2>1 DEF CreateSource, Good, Owners, Owning
  <2> QED BY <1>1, <2>2, <2>3, <2>4, FateFacts
<1> QED BY <1>2 DEF Running

LEMMA RequestStep ==
  ASSUME Running, NEW s \in Sources, NEW serial \in Serial,
         NEW copied \in BOOLEAN, RequestSelection(s, serial, copied)
  PROVE  Running'
<1>1. PICK clip \in FreeClips(k) : k' = SetSelection(k, s, serial, copied, clip)
  BY DEF RequestSelection
<1>2. clip \in Clips /\ k.clip[clip].refs = 0 BY DEF FreeClips
<1>3. Live(k, s) BY DEF RequestSelection
<1>4. Good(k') /\ k'.failed = k.failed
  <2>1. Good(k) BY DEF Running
  <2> QED BY <1>1, <1>2, <1>3, <2>1, SetFacts
<1> QED BY <1>4 DEF Running

LEMMA XGoneStep ==
  ASSUME Running, NEW serial \in Serial, XSelectionGone(serial)
  PROVE  Running'
<1>1. Good(k') /\ k'.failed = k.failed
  <2>1. Good(k) BY DEF Running
  <2> QED BY <2>1, ClearFacts DEF XSelectionGone
<1> QED BY <1>1 DEF Running

LEMMA DestroyStep ==
  ASSUME Running, NEW s \in Sources, DestroySource(s)
  PROVE  Running'
<1> DEFINE source == [k.source EXCEPT ![s] = "gone"]
           offer == [k.offer EXCEPT ![s] = None]
           d == [k EXCEPT !.source = source, !.offer = offer]
<1>0. Good(k) /\ Shaped(k) /\ k.failed = None BY DEF Running, Good
<1>1. k' = IF k.listener = s THEN SelectionDestroyed(d) ELSE d
  BY DEF DestroySource
<1>2. /\ source \in [Sources -> Fates] /\ source[s] = "gone"
      /\ \A x \in Sources \ {s} : source[x] = k.source[x]
  BY <1>0 DEF Shaped, Fates
<1>3. /\ offer \in [AnySource -> Clients \cup {None}] /\ offer[s] = None
      /\ \A x \in AnySource \ {s} : offer[x] = k.offer[x]
  BY <1>0 DEF Shaped, AnySource
<1> HIDE DEF source, offer
<1>4. DOMAIN d = Fields BY <1>0 DEF Shaped
<1>5. d.source = source /\ d.offer = offer BY <1>0 DEF Shaped, Fields
<1>6. \A f \in Fields \ {"source", "offer"} : d[f] = k[f]
  BY <1>0 DEF Shaped, Fields
<1> HIDE DEF d
<1>7. /\ d.clip = k.clip /\ d.selection = k.selection
      /\ d.listener = k.listener /\ d.serial = k.serial
      /\ d.clipboard = k.clipboard /\ d.focus = k.focus
      /\ d.device = k.device /\ d.failed = k.failed /\ d.got = k.got
  BY <1>6 DEF Fields
<1>8. Shaped(d) BY <1>0, <1>2, <1>3, <1>4, <1>5, <1>7 DEF Shaped
<1>9. \A x \in AnySource \ {s} : Live(k, x) => Live(d, x)
  BY <1>2, <1>5, <1>7 DEF Live, AnySource
<1>10. OffersLive(d)
  BY <1>0, <1>3, <1>5, <1>9 DEF Good, OffersLive
<1>11. Counted(d) BY <1>0, <1>7 DEF Good, Sound, Counted
<1>12. CASE k.listener = s
  <2> DEFINE e == SelectionDestroyed(d)
  <2>1. /\ Shaped(e)
        /\ OnlyOf(d, e, {"selection", "serial", "got", "offer", "listener"})
        /\ e.selection = d.clipboard
        /\ OffersLive(e) /\ Informed(e) /\ Held(e) /\ Counted(e)
    BY <1>8, <1>10, <1>11, DestroyedFacts
  <2> HIDE DEF e
  <2>2. /\ e.source = source /\ e.clipboard = d.clipboard
        /\ e.failed = k.failed
    BY <1>5, <1>7, <2>1 DEF OnlyOf, Fields
  <2>3. k.selection = s BY <1>0, <1>12 DEF Good, Sound, Held
  <2>4. \A x \in Sources : e.source[x] \notin Owning
    <3>1. \A x \in Sources \ {s} : k.source[x] \notin Owning
      BY <1>0, <2>3 DEF Good, Owners
    <3>2. "gone" \notin Owning BY DEF Owning
    <3> QED BY <1>2, <2>2, <3>1, <3>2
  <2>5. Good(e) BY <2>1, <2>2, <2>4, GoodAfterRestore
  <2> QED BY <1>0, <1>1, <1>12, <2>2, <2>5 DEF e, Running
<1>13. CASE k.listener # s
  <2>1. k.selection # s BY <1>0, <1>13 DEF Good, Sound, Held
  <2>2. k.selection \in AnySource \cup {None} BY <1>0 DEF Shaped
  <2>3. Held(d) BY <1>0, <1>7, <1>9, <2>1, <2>2 DEF Good, Sound, Held
  <2>4. OwnCopy(d) /\ TakesOver(d)
    BY <1>0, <1>7 DEF Good, Sound, OwnCopy, TakesOver
  <2>5. Informed(d)
    BY <1>0, <1>3, <1>5, <1>7, <2>1, <2>2 DEF Good, Sound, Informed
  <2>6. Owners(d)
    <3>1. "gone" \notin Owning BY DEF Owning
    <3> QED BY <1>0, <1>2, <1>5, <1>7, <2>1, <3>1 DEF Good, Owners
  <2>7. Good(d)
    BY <1>8, <1>10, <1>11, <2>3, <2>4, <2>5, <2>6 DEF Good, Sound
  <2> QED BY <1>0, <1>1, <1>7, <1>13, <2>7 DEF Running
<1> QED BY <1>12, <1>13

-----------------------------------------------------------------------------
(* Steps: foci and devices.                                                *)

\* Who has the focus and what it was sent changes, and that is not wrong.
LEMMA FocusFacts ==
  ASSUME NEW c, Good(c), NEW d, DOMAIN d = Fields,
         OnlyOf(c, d, {"focus", "got", "device"}),
         d.focus \in Clients \cup {None}, d.device \in SUBSET Clients,
         d.got \in AnySource \cup {None, "unknown", "unsent"}
  PROVE  /\ Shaped(d) /\ OffersLive(d) /\ Held(d) /\ d.failed = c.failed
         /\ TakesOver(d) /\ Owners(d) /\ Counted(d) /\ OwnCopy(d)
         /\ Informed(d) => Good(d)
<1>1. /\ d.source = c.source /\ d.clip = c.clip /\ d.selection = c.selection
      /\ d.listener = c.listener /\ d.serial = c.serial
      /\ d.clipboard = c.clipboard /\ d.offer = c.offer
      /\ d.failed = c.failed
  BY DEF OnlyOf, Fields
<1>2. Shaped(d) BY <1>1 DEF Good, Shaped
<1>3. OffersLive(d) BY <1>1, LiveSame DEF Good, OffersLive
<1>4. Held(d) BY <1>1, LiveSame DEF Good, Sound, Held
<1>5. TakesOver(d) /\ Owners(d) /\ Counted(d) /\ OwnCopy(d)
  BY <1>1 DEF Good, Sound, TakesOver, Owners, Counted, OwnCopy
<1> QED BY <1>1, <1>2, <1>3, <1>4, <1>5 DEF Good, Sound

LEMMA ActivateStep ==
  ASSUME Running, NEW c \in Clients, Activate(c)
  PROVE  Running'
<1> DEFINE got == IF k.focus = c THEN k.got ELSE "unsent"
           d == Entered(c)
           e == SendSelection(d)
<1>0. Good(k) /\ Shaped(k) /\ k.failed = None BY DEF Running, Good
<1>1. k' = e BY DEF Activate
<1>2. d = [k EXCEPT !.focus = c, !.got = got] BY DEF Entered
<1>3. got \in AnySource \cup {None, "unknown", "unsent"} BY <1>0 DEF Shaped
<1> HIDE DEF got, d
<1>4. DOMAIN d = Fields BY <1>0, <1>2 DEF Shaped
<1>5. d.focus = c /\ d.got = got BY <1>0, <1>2 DEF Shaped, Fields
<1>6. \A f \in Fields \ {"focus", "got"} : d[f] = k[f]
  BY <1>0, <1>2 DEF Shaped, Fields
<1>7. OnlyOf(k, d, {"focus", "got", "device"}) BY <1>6 DEF OnlyOf
<1>8. d.device \in SUBSET Clients BY <1>0, <1>6 DEF Shaped, Fields
<1>9. /\ Shaped(d) /\ OffersLive(d) /\ Held(d) /\ d.failed = k.failed
      /\ TakesOver(d) /\ Owners(d) /\ Counted(d) /\ OwnCopy(d)
  BY <1>0, <1>3, <1>4, <1>5, <1>7, <1>8, FocusFacts
<1>10. /\ Shaped(e) /\ OnlyOf(d, e, {"got", "offer"}) /\ Informed(e)
       /\ OffersLive(e)
  BY <1>9, SendFacts DEF Held
<1> HIDE DEF e
<1>11. /\ e.source = d.source /\ e.clip = d.clip /\ e.selection = d.selection
       /\ e.listener = d.listener /\ e.clipboard = d.clipboard
       /\ e.failed = d.failed
  BY <1>10 DEF OnlyOf, Fields
<1>12. Held(e) BY <1>9, <1>11, LiveSame DEF Held
<1>13. TakesOver(e) /\ Owners(e) /\ Counted(e) /\ OwnCopy(e)
  BY <1>9, <1>11 DEF TakesOver, Owners, Counted, OwnCopy
<1>14. Good(e) BY <1>10, <1>12, <1>13 DEF Good, Sound
<1> QED BY <1>0, <1>1, <1>9, <1>11, <1>14 DEF Running

LEMMA FocusOnlyStep ==
  ASSUME Running, NEW c \in Clients \cup {None}, SetFocusOnly(c)
  PROVE  Running'
<1> DEFINE d == [k EXCEPT !.focus = c, !.got = "unknown"]
<1>0. Good(k) /\ Shaped(k) /\ k.failed = None BY DEF Running, Good
<1>1. k' = d BY DEF SetFocusOnly
<1>2. DOMAIN d = Fields BY <1>0 DEF Shaped
<1>3. d.focus = c /\ d.got = "unknown" BY <1>0 DEF Shaped, Fields
<1>4. \A f \in Fields \ {"focus", "got"} : d[f] = k[f]
  BY <1>0 DEF Shaped, Fields
<1> HIDE DEF d
<1>5. OnlyOf(k, d, {"focus", "got", "device"}) BY <1>4 DEF OnlyOf
<1>6. d.device \in SUBSET Clients BY <1>0, <1>4 DEF Shaped, Fields
<1>7. Informed(d) BY <1>3 DEF Informed
<1>8. Good(d) /\ d.failed = k.failed
  BY <1>0, <1>2, <1>3, <1>5, <1>6, <1>7, FocusFacts
<1> QED BY <1>0, <1>1, <1>8 DEF Running

LEMMA BindStep ==
  ASSUME Running, NEW c \in Clients, BindDevice(c)
  PROVE  Running'
<1> DEFINE got == IF k.focus = c THEN "unknown" ELSE k.got
           d == [k EXCEPT !.device = k.device \cup {c}, !.got = got]
<1>0. Good(k) /\ Shaped(k) /\ k.failed = None BY DEF Running, Good
<1>1. k' = d BY DEF BindDevice
<1>2. /\ got \in AnySource \cup {None, "unknown", "unsent"}
      /\ (k.focus = c => got = "unknown") /\ (k.focus # c => got = k.got)
  BY <1>0 DEF Shaped
<1> HIDE DEF got
<1>3. DOMAIN d = Fields BY <1>0 DEF Shaped
<1>4. d.device = k.device \cup {c} /\ d.got = got BY <1>0 DEF Shaped, Fields
<1>5. \A f \in Fields \ {"device", "got"} : d[f] = k[f]
  BY <1>0 DEF Shaped, Fields
<1> HIDE DEF d
<1>6. OnlyOf(k, d, {"focus", "got", "device"}) BY <1>5 DEF OnlyOf
<1>7. d.focus = k.focus /\ d.selection = k.selection /\ d.offer = k.offer
  BY <1>5 DEF Fields
<1>8. d.device \in SUBSET Clients /\ d.focus \in Clients \cup {None}
  BY <1>0, <1>4, <1>7 DEF Shaped
<1>9. Informed(d)
  BY <1>0, <1>2, <1>4, <1>7 DEF Good, Sound, Informed
<1>10. Good(d) /\ d.failed = k.failed
  BY <1>0, <1>2, <1>3, <1>4, <1>6, <1>8, <1>9, FocusFacts
<1> QED BY <1>0, <1>1, <1>10 DEF Running

LEMMA ReleaseStep ==
  ASSUME Running, NEW c \in Clients, ReleaseDevice(c)
  PROVE  Running'
<1> DEFINE d == [k EXCEPT !.device = k.device \ {c}]
<1>0. Good(k) /\ Shaped(k) /\ k.failed = None BY DEF Running, Good
<1>1. k' = d BY DEF ReleaseDevice
<1>2. DOMAIN d = Fields BY <1>0 DEF Shaped
<1>3. d.device = k.device \ {c} BY <1>0 DEF Shaped, Fields
<1>4. \A f \in Fields \ {"device"} : d[f] = k[f] BY <1>0 DEF Shaped, Fields
<1> HIDE DEF d
<1>5. /\ d.source = k.source /\ d.clip = k.clip /\ d.selection = k.selection
      /\ d.listener = k.listener /\ d.serial = k.serial
      /\ d.clipboard = k.clipboard /\ d.offer = k.offer
      /\ d.focus = k.focus /\ d.failed = k.failed /\ d.got = k.got
  BY <1>4 DEF Fields
<1>6. Shaped(d) BY <1>0, <1>2, <1>3, <1>5 DEF Shaped
<1>7. OffersLive(d) BY <1>0, <1>5, LiveSame DEF Good, OffersLive
<1>8. Held(d) BY <1>0, <1>5, LiveSame DEF Good, Sound, Held
<1>9. TakesOver(d) /\ Owners(d) /\ Counted(d) /\ OwnCopy(d)
  BY <1>0, <1>5 DEF Good, Sound, TakesOver, Owners, Counted, OwnCopy
<1>10. Informed(d) BY <1>0, <1>3, <1>5 DEF Good, Sound, Informed
<1>11. Good(d) BY <1>6, <1>7, <1>8, <1>9, <1>10 DEF Good, Sound
<1> QED BY <1>0, <1>1, <1>5, <1>11 DEF Running

\* An offer that is let go is served no more, and is owed no more.
LEMMA DestroyOfferStep ==
  ASSUME Running, NEW s \in AnySource, NEW new \in BOOLEAN, DestroyOffer(s, new)
  PROVE  Running'
<1> DEFINE c == k.offer[s]
           fate == IF k.selection = s THEN "misled" ELSE "cancelled"
           told == [k EXCEPT !.source[s] = fate]
           h == IF ~new \/ s \in Clips THEN k ELSE told
           got == IF h.got = s /\ k.focus = c THEN "unknown" ELSE h.got
           offer == [h.offer EXCEPT ![s] = None]
           d == [h EXCEPT !.offer = offer, !.got = got]
<1>0. Good(k) /\ Shaped(k) /\ k.failed = None BY DEF Running, Good
<1>1. k' = d /\ c # None BY DEF DestroyOffer
<1>2. /\ Good(h) /\ h.failed = k.failed /\ h.focus = k.focus
      /\ h.offer = k.offer /\ h.got = k.got /\ h.selection = k.selection
  <2>1. CASE ~new \/ s \in Clips BY <1>0, <2>1
  <2>2. CASE ~(~new \/ s \in Clips)
    <3>1. s \in Sources /\ h = told BY <2>2 DEF AnySource
    <3>2. fate \in Fates \ {"unborn", "gone"} /\ (fate \in Owning <=> k.selection = s)
      BY DEF Fates, Owning
    <3>3. Consistent(k) /\ OthersOwn(k, s) BY <1>0, GoodParts
    <3> HIDE DEF fate
    <3>4. Good(told) /\ told.failed = k.failed /\ OnlyOf(k, told, {"source"})
      BY <3>1, <3>2, <3>3, FateFacts
    <3> HIDE DEF told
    <3>5. /\ told.focus = k.focus /\ told.offer = k.offer
          /\ told.got = k.got /\ told.selection = k.selection
      BY <3>4 DEF OnlyOf, Fields
    <3> QED BY <3>1, <3>4, <3>5
  <2> QED BY <2>1, <2>2
<1> HIDE DEF h
<1>3. Shaped(h) BY <1>2 DEF Good
<1>4. /\ got \in AnySource \cup {None, "unknown", "unsent"}
      /\ (h.got = s /\ k.focus = c => got = "unknown")
      /\ got # "unknown" => got = h.got
  BY <1>3 DEF Shaped
<1>5. /\ offer \in [AnySource -> Clients \cup {None}] /\ offer[s] = None
      /\ \A x \in AnySource \ {s} : offer[x] = h.offer[x]
  BY <1>3 DEF Shaped
<1> HIDE DEF got, offer
<1>6. DOMAIN d = Fields BY <1>3 DEF Shaped
<1>7. d.offer = offer /\ d.got = got BY <1>3 DEF Shaped, Fields
<1>8. \A f \in Fields \ {"offer", "got"} : d[f] = h[f]
  BY <1>3 DEF Shaped, Fields
<1> HIDE DEF d
<1>9. /\ d.source = h.source /\ d.clip = h.clip /\ d.selection = h.selection
      /\ d.listener = h.listener /\ d.serial = h.serial
      /\ d.clipboard = h.clipboard /\ d.focus = h.focus
      /\ d.device = h.device /\ d.failed = h.failed
  BY <1>8 DEF Fields
<1>10. Shaped(d) BY <1>3, <1>4, <1>5, <1>6, <1>7, <1>9 DEF Shaped
<1>11. OffersLive(d)
  <2> SUFFICES ASSUME NEW x \in AnySource, d.offer[x] # None
               PROVE  Live(d, x)
    BY DEF OffersLive
  <2>1. h.offer[x] # None BY <1>5, <1>7
  <2>2. Live(h, x) BY <1>2, <2>1 DEF Good, OffersLive
  <2> QED BY <1>9, <2>2, LiveSame
<1>12. Held(d) BY <1>2, <1>9, LiveSame DEF Good, Sound, Held
<1>13. TakesOver(d) /\ Owners(d) /\ Counted(d) /\ OwnCopy(d)
  BY <1>2, <1>9 DEF Good, Sound, TakesOver, Owners, Counted, OwnCopy
<1>14. Informed(d)
  <2> SUFFICES ASSUME d.focus # None, d.focus \in d.device, d.got # "unknown"
               PROVE  /\ d.got = d.selection
                      /\ d.selection # None => d.offer[d.selection] = d.focus
    BY DEF Informed
  <2>1. d.got = h.got BY <1>4, <1>7
  <2>2. /\ h.got = h.selection
        /\ h.selection # None => h.offer[h.selection] = h.focus
    BY <1>2, <1>9, <2>1 DEF Good, Sound, Informed
  <2>3. CASE h.selection = s
    <3>1. s # None BY SelectionAssumption DEF AnySource
    <3>2. c = k.focus BY <1>2, <2>2, <2>3, <3>1
    <3>3. got = "unknown" BY <1>4, <2>2, <2>3, <3>2
    <3> QED BY <1>7, <3>3
  <2>4. CASE h.selection # s
    <3>1. h.selection \in AnySource \cup {None} BY <1>3 DEF Shaped
    <3> QED BY <1>5, <1>7, <1>9, <2>1, <2>2, <2>4, <3>1
  <2> QED BY <2>3, <2>4
<1>15. Good(d) BY <1>10, <1>11, <1>12, <1>13, <1>14 DEF Good, Sound
<1> QED BY <1>0, <1>1, <1>2, <1>9, <1>15 DEF Running

-----------------------------------------------------------------------------
(* Steps: the clipboard's pipes.                                           *)

\* References are taken and given back, and nothing goes.
LEMMA TableFacts ==
  ASSUME NEW c, Good(c), NEW d, DOMAIN d = Fields, OnlyOf(c, d, {"clip"}),
         d.clip \in [Clips -> ClipSource], Counted(d),
         \A x \in Clips : c.clip[x].refs > 0 => d.clip[x].refs > 0
  PROVE  Good(d) /\ d.failed = c.failed
<1>1. /\ d.source = c.source /\ d.selection = c.selection
      /\ d.listener = c.listener /\ d.serial = c.serial
      /\ d.clipboard = c.clipboard /\ d.offer = c.offer
      /\ d.focus = c.focus /\ d.failed = c.failed /\ d.got = c.got
      /\ d.device = c.device
  BY DEF OnlyOf, Fields
<1>2. Shaped(d) BY <1>1 DEF Good, Shaped
<1>3. \A s \in AnySource : Live(c, s) => Live(d, s) BY <1>1 DEF Live
<1>4. c.selection \in AnySource \cup {None} BY DEF Good, Shaped
<1>5. OffersLive(d) BY <1>1, <1>3 DEF Good, OffersLive
<1>6. Held(d) BY <1>1, <1>3, <1>4 DEF Good, Sound, Held
<1>7. TakesOver(d) /\ Owners(d) /\ OwnCopy(d) /\ Informed(d)
  BY <1>1 DEF Good, Sound, TakesOver, Owners, OwnCopy, Informed
<1> QED BY <1>1, <1>2, <1>5, <1>6, <1>7 DEF Good, Sound

LEMMA PasteStep ==
  ASSUME Running, NEW clip \in Clips, Paste(clip)
  PROVE  Running'
<1> DEFINE r == [k.clip[clip] EXCEPT !.refs = k.clip[clip].refs + 1]
           t == [k.clip EXCEPT ![clip] = r]
           u == [k EXCEPT !.clip = t]
           q == [u.clip[clip] EXCEPT !.pastes = u.clip[clip].pastes + 1]
           tab == [u.clip EXCEPT ![clip] = q]
           d == [u EXCEPT !.clip = tab]
<1>0. Good(k) /\ Shaped(k) /\ k.failed = None BY DEF Running, Good
<1>1. k' = d /\ k.clip[clip].pastes < MaxReads BY DEF Paste
<1>2. k.clip \in [Clips -> ClipSource] /\ k.clip[clip] \in ClipSource
  BY <1>0 DEF Shaped
<1>3. /\ k.clip[clip].refs \in 0..(MaxReads + 1)
      /\ k.clip[clip].pastes \in 0..MaxReads
  BY <1>2 DEF ClipSource
<1>4. k.clip[clip].refs =
        k.clip[clip].pastes + (IF k.clipboard = clip THEN 1 ELSE 0)
  BY <1>0 DEF Good, Sound, Counted
<1>5. k.clip[clip].refs + 1 \in 0..(MaxReads + 1)
  BY <1>1, <1>3, <1>4, SelectionAssumption
<1>6. k.clip[clip].pastes + 1 \in 0..MaxReads
  BY <1>1, <1>3, SelectionAssumption
<1>7. r \in ClipSource BY <1>2, <1>5, Zenon DEF ClipSource
<1>8. r.refs = k.clip[clip].refs + 1 /\ r.pastes = k.clip[clip].pastes
  BY <1>2 DEF ClipSource
<1> HIDE DEF r
<1>9. /\ t \in [Clips -> ClipSource] /\ t[clip] = r
      /\ \A x \in Clips \ {clip} : t[x] = k.clip[x]
  BY <1>2, <1>7
<1> HIDE DEF t
<1>10. DOMAIN u = Fields BY <1>0 DEF Shaped
<1>11. u.clip = t BY <1>0 DEF Shaped, Fields
<1>12. \A f \in Fields \ {"clip"} : u[f] = k[f] BY <1>0 DEF Shaped, Fields
<1> HIDE DEF u
<1>13. q = [r EXCEPT !.pastes = k.clip[clip].pastes + 1]
  BY <1>8, <1>9, <1>11
<1>14. q \in ClipSource BY <1>6, <1>7, <1>13, Zenon DEF ClipSource
<1>15. q.refs = k.clip[clip].refs + 1 /\ q.pastes = k.clip[clip].pastes + 1
  BY <1>7, <1>8, <1>13 DEF ClipSource
<1> HIDE DEF q
<1>16. /\ tab \in [Clips -> ClipSource] /\ tab[clip] = q
       /\ \A x \in Clips \ {clip} : tab[x] = k.clip[x]
  BY <1>9, <1>11, <1>14
<1> HIDE DEF tab
<1>17. DOMAIN d = Fields BY <1>10
<1>18. d.clip = tab BY <1>10 DEF Fields
<1>19. \A f \in Fields \ {"clip"} : d[f] = u[f] BY <1>10 DEF Fields
<1> HIDE DEF d
<1>20. OnlyOf(k, d, {"clip"}) BY <1>12, <1>19 DEF OnlyOf
<1>21. d.clipboard = k.clipboard BY <1>20 DEF OnlyOf, Fields
<1>22. Counted(d)
  <2> SUFFICES ASSUME NEW x \in Clips
               PROVE  d.clip[x].refs =
                        d.clip[x].pastes + (IF k.clipboard = x THEN 1 ELSE 0)
    BY <1>21 DEF Counted
  <2>1. CASE x = clip BY <1>3, <1>4, <1>15, <1>16, <1>18, <2>1
  <2>2. CASE x # clip
    BY <1>0, <1>16, <1>18, <2>2 DEF Good, Sound, Counted
  <2> QED BY <2>1, <2>2
<1>23. \A x \in Clips : k.clip[x].refs > 0 => d.clip[x].refs > 0
  BY <1>3, <1>15, <1>16, <1>18
<1>24. Good(d) /\ d.failed = k.failed
  BY <1>0, <1>16, <1>17, <1>18, <1>20, <1>22, <1>23, TableFacts
<1> QED BY <1>0, <1>1, <1>24 DEF Running

LEMMA PasteDoneStep ==
  ASSUME Running, NEW clip \in Clips, PasteDone(clip)
  PROVE  Running'
<1> DEFINE r == [k.clip[clip] EXCEPT !.pastes = k.clip[clip].pastes - 1]
           t == [k.clip EXCEPT ![clip] = r]
           u == [k EXCEPT !.clip = t]
           d == Unref(u, clip)
<1>0. Good(k) /\ Shaped(k) /\ k.failed = None BY DEF Running, Good
<1>1. k' = d /\ k.clip[clip].pastes > 0 BY DEF PasteDone
<1>2. k.clip \in [Clips -> ClipSource] /\ k.clip[clip] \in ClipSource
  BY <1>0 DEF Shaped
<1>3. /\ k.clip[clip].refs \in 0..(MaxReads + 1)
      /\ k.clip[clip].pastes \in 0..MaxReads
  BY <1>2 DEF ClipSource
<1>4. k.clip[clip].refs =
        k.clip[clip].pastes + (IF k.clipboard = clip THEN 1 ELSE 0)
  BY <1>0 DEF Good, Sound, Counted
<1>5. k.clip[clip].pastes - 1 \in 0..MaxReads
  BY <1>1, <1>3, SelectionAssumption
<1>6. r \in ClipSource BY <1>2, <1>5, Zenon DEF ClipSource
<1>7. r.refs = k.clip[clip].refs /\ r.pastes = k.clip[clip].pastes - 1
  BY <1>2 DEF ClipSource
<1> HIDE DEF r
<1>8. /\ t \in [Clips -> ClipSource] /\ t[clip] = r
      /\ \A x \in Clips \ {clip} : t[x] = k.clip[x]
  BY <1>2, <1>6
<1> HIDE DEF t
<1>9. DOMAIN u = Fields BY <1>0 DEF Shaped
<1>10. u.clip = t BY <1>0 DEF Shaped, Fields
<1>11. \A f \in Fields \ {"clip"} : u[f] = k[f] BY <1>0 DEF Shaped, Fields
<1> HIDE DEF u
<1>12. /\ u.source = k.source /\ u.selection = k.selection
       /\ u.listener = k.listener /\ u.serial = k.serial
       /\ u.clipboard = k.clipboard /\ u.offer = k.offer
       /\ u.focus = k.focus /\ u.failed = k.failed /\ u.got = k.got
       /\ u.device = k.device
  BY <1>11 DEF Fields
<1>13. Shaped(u) BY <1>0, <1>8, <1>9, <1>10, <1>12 DEF Shaped
<1>14. u.clip[clip].refs > 0
  BY <1>1, <1>3, <1>4, <1>7, <1>8, <1>10
<1>15. /\ Shaped(d) /\ OnlyOf(u, d, {"clip", "offer"})
       /\ \A x \in Clips \ {clip} : d.clip[x] = u.clip[x]
       /\ \A x \in AnySource \ {clip} : d.offer[x] = u.offer[x]
       /\ u.clip[clip].refs > 1 =>
            /\ d.clip[clip].refs = u.clip[clip].refs - 1
            /\ d.clip[clip].pastes = u.clip[clip].pastes
            /\ d.offer = u.offer
       /\ u.clip[clip].refs = 1 => d.clip[clip] = NoClip /\ d.offer[clip] = None
  BY <1>13, <1>14, UnrefFacts
<1> HIDE DEF d
<1>16. \A f \in Fields \ {"clip", "offer"} : d[f] = k[f]
  BY <1>11, <1>15 DEF OnlyOf
<1>17. CASE k.clip[clip].refs > 1
  <2>1. /\ d.clip[clip].refs = k.clip[clip].refs - 1
        /\ d.clip[clip].pastes = k.clip[clip].pastes - 1
        /\ d.offer = k.offer
    BY <1>7, <1>8, <1>10, <1>12, <1>15, <1>17
  <2>2. OnlyOf(k, d, {"clip"}) BY <1>16, <2>1 DEF OnlyOf, Fields
  <2>3. d.clipboard = k.clipboard BY <1>16 DEF Fields
  <2>4. Counted(d)
    <3> SUFFICES ASSUME NEW x \in Clips
                 PROVE  d.clip[x].refs =
                          d.clip[x].pastes + (IF k.clipboard = x THEN 1 ELSE 0)
      BY <2>3 DEF Counted
    <3>1. CASE x = clip BY <1>3, <1>4, <2>1, <3>1
    <3>2. CASE x # clip
      BY <1>0, <1>8, <1>10, <1>15, <3>2 DEF Good, Sound, Counted
    <3> QED BY <3>1, <3>2
  <2>5. \A x \in Clips : k.clip[x].refs > 0 => d.clip[x].refs > 0
    BY <1>3, <1>8, <1>10, <1>15, <1>17, <2>1
  <2>6. Good(d) /\ d.failed = k.failed
    BY <1>0, <1>15, <2>2, <2>4, <2>5, TableFacts DEF Shaped
  <2> QED BY <1>0, <1>1, <2>6 DEF Running
<1>18. CASE ~(k.clip[clip].refs > 1)
  <2>1. k.clip[clip].refs = 1 /\ k.clipboard # clip
    BY <1>1, <1>3, <1>4, <1>18
  <2>2. d.clip[clip] = NoClip /\ d.offer[clip] = None
    BY <1>7, <1>8, <1>10, <1>15, <2>1
  <2>3. k.selection # clip
    BY <1>0, <2>1 DEF Good, Sound, OwnCopy
  <2>4. /\ \A x \in Clips \ {clip} : d.clip[x] = k.clip[x]
        /\ \A x \in AnySource \ {clip} : d.offer[x] = k.offer[x]
    BY <1>8, <1>10, <1>12, <1>15
  <2>5. /\ d.source = k.source /\ d.selection = k.selection
        /\ d.listener = k.listener /\ d.clipboard = k.clipboard
        /\ d.focus = k.focus /\ d.failed = k.failed /\ d.got = k.got
        /\ d.device = k.device
    BY <1>16 DEF Fields
  <2>6. \A x \in AnySource \ {clip} : Live(k, x) => Live(d, x)
    BY <2>4, <2>5 DEF Live
  <2>7. k.selection \in AnySource \cup {None} BY <1>0 DEF Shaped
  <2>8. OffersLive(d) BY <1>0, <2>2, <2>4, <2>6 DEF Good, OffersLive
  <2>9. Held(d) BY <1>0, <2>3, <2>5, <2>6, <2>7 DEF Good, Sound, Held
  <2>10. TakesOver(d) /\ Owners(d) /\ OwnCopy(d)
    BY <1>0, <2>5 DEF Good, Sound, TakesOver, Owners, OwnCopy
  <2>11. Informed(d)
    BY <1>0, <2>3, <2>4, <2>5, <2>7 DEF Good, Sound, Informed
  <2>12. Counted(d)
    <3> SUFFICES ASSUME NEW x \in Clips
                 PROVE  d.clip[x].refs =
                          d.clip[x].pastes + (IF k.clipboard = x THEN 1 ELSE 0)
      BY <2>5 DEF Counted
    <3>1. CASE x = clip BY <2>1, <2>2, <3>1 DEF NoClip
    <3>2. CASE x # clip BY <1>0, <2>4, <3>2 DEF Good, Sound, Counted
    <3> QED BY <3>1, <3>2
  <2>13. Good(d)
    BY <1>15, <2>8, <2>9, <2>10, <2>11, <2>12 DEF Good, Sound
  <2> QED BY <1>0, <1>1, <2>5, <2>13 DEF Running
<1> QED BY <1>17, <1>18

LEMMA CopyDoneStep ==
  ASSUME Running, NEW clip \in Clips, CopyDone(clip)
  PROVE  Running'
<1> DEFINE r == [k.clip[clip] EXCEPT !.reading = FALSE]
           tab == [k.clip EXCEPT ![clip] = r]
           d == [k EXCEPT !.clip = tab]
<1>0. Good(k) /\ Shaped(k) /\ k.failed = None BY DEF Running, Good
<1>1. k' = d BY DEF CopyDone
<1>2. k.clip \in [Clips -> ClipSource] /\ k.clip[clip] \in ClipSource
  BY <1>0 DEF Shaped
<1>3. r \in ClipSource BY <1>2, Zenon DEF ClipSource
<1>4. r.refs = k.clip[clip].refs /\ r.pastes = k.clip[clip].pastes
  BY <1>2 DEF ClipSource
<1> HIDE DEF r
<1>5. /\ tab \in [Clips -> ClipSource] /\ tab[clip] = r
      /\ \A x \in Clips \ {clip} : tab[x] = k.clip[x]
  BY <1>2, <1>3
<1> HIDE DEF tab
<1>6. DOMAIN d = Fields BY <1>0 DEF Shaped
<1>7. d.clip = tab BY <1>0 DEF Shaped, Fields
<1>8. \A f \in Fields \ {"clip"} : d[f] = k[f] BY <1>0 DEF Shaped, Fields
<1> HIDE DEF d
<1>9. d.clipboard = k.clipboard BY <1>8 DEF Fields
<1>10. \A x \in Clips : /\ d.clip[x].refs = k.clip[x].refs
                        /\ d.clip[x].pastes = k.clip[x].pastes
  BY <1>4, <1>5, <1>7
<1>11. Counted(d) BY <1>0, <1>9, <1>10 DEF Good, Sound, Counted
<1>12. OnlyOf(k, d, {"clip"}) BY <1>8 DEF OnlyOf
<1>13. Good(d) /\ d.failed = k.failed
  BY <1>0, <1>5, <1>6, <1>7, <1>10, <1>11, <1>12, TableFacts
<1> QED BY <1>0, <1>1, <1>13 DEF Running

\* A failed read spoils at most the source it is of.
LEMMA CopyFailsStep ==
  ASSUME Running, NEW clip \in Clips, CopyFails(clip)
  PROVE  IInv'
<1> DEFINE h == IF k.clip[clip].refs = 1 /\ k.listener = clip
                THEN SelectionDestroyed(k) ELSE k
           v == Unref(h, clip)
           d == [v EXCEPT !.clipboard = None, !.failed = clip]
<1>0. Good(k) /\ Shaped(k) /\ k.failed = None BY DEF Running, Good
<1>1. k' = d /\ k.clip[clip].refs > 0 BY DEF CopyFails
<1>2. clip # None /\ clip \in AnySource
  BY SelectionAssumption DEF AnySource
<1>3. k.listener = k.selection BY <1>0 DEF Good, Sound, Held
<1>4. /\ Shaped(h) /\ OffersLive(h) /\ h.selection = k.selection
      /\ OnlyOf(k, h, {"selection", "serial", "got", "offer", "listener"})
      /\ k.selection # clip => h = k
  <2>1. CASE k.clip[clip].refs = 1 /\ k.listener = clip
    <3>1. h = SelectionDestroyed(k) BY <2>1
    <3>2. k.selection = clip /\ k.clipboard = clip
      BY <1>0, <1>3, <2>1 DEF Good, Sound, OwnCopy
    <3>3. /\ Shaped(h) /\ OffersLive(h) /\ h.selection = k.clipboard
          /\ OnlyOf(k, h, {"selection", "serial", "got", "offer", "listener"})
      BY <1>0, <3>1, DestroyedFacts DEF Good, Sound
    <3> QED BY <3>2, <3>3
  <2>2. CASE ~(k.clip[clip].refs = 1 /\ k.listener = clip)
    <3>1. h = k BY <2>2
    <3> QED BY <1>0, <3>1 DEF Good, OnlyOf
  <2> QED BY <2>1, <2>2
<1> HIDE DEF h
<1>5. /\ h.source = k.source /\ h.clip = k.clip /\ h.focus = k.focus
      /\ h.device = k.device
  BY <1>4 DEF OnlyOf, Fields
<1>6. /\ Shaped(v) /\ OnlyOf(h, v, {"clip", "offer"})
      /\ \A x \in Clips \ {clip} : v.clip[x] = h.clip[x]
      /\ \A x \in AnySource \ {clip} : v.offer[x] = h.offer[x]
      /\ h.clip[clip].refs > 1 =>
           /\ v.clip[clip].refs = h.clip[clip].refs - 1
           /\ v.offer = h.offer
      /\ h.clip[clip].refs = 1 => v.offer[clip] = None
  BY <1>1, <1>4, <1>5, UnrefFacts
<1> HIDE DEF v
<1>7. DOMAIN d = Fields BY <1>6 DEF Shaped
<1>8. d.clipboard = None /\ d.failed = clip BY <1>6 DEF Shaped, Fields
<1>9. \A f \in Fields \ {"clipboard", "failed"} : d[f] = v[f]
  BY <1>6 DEF Shaped, Fields
<1> HIDE DEF d
<1>10. /\ d.source = v.source /\ d.clip = v.clip /\ d.selection = v.selection
       /\ d.listener = v.listener /\ d.serial = v.serial /\ d.offer = v.offer
       /\ d.focus = v.focus /\ d.got = v.got /\ d.device = v.device
  BY <1>9 DEF Fields
<1>11. /\ v.source = k.source /\ v.selection = k.selection
       /\ v.focus = k.focus /\ v.device = k.device
       /\ v.listener = h.listener /\ v.got = h.got
  BY <1>4, <1>5, <1>6 DEF OnlyOf, Fields
<1>12. Shaped(d) BY <1>6, <1>7, <1>8, <1>10 DEF Shaped
<1>13. k.clip[clip].refs \in 0..(MaxReads + 1)
  <2>1. k.clip[clip] \in ClipSource BY <1>0 DEF Shaped
  <2> QED BY <2>1 DEF ClipSource
<1>14. \A x \in AnySource \ {clip} : Live(h, x) => Live(d, x)
  BY <1>5, <1>6, <1>10, <1>11 DEF Live
<1>15. OffersLive(d)
  <2> SUFFICES ASSUME NEW s \in AnySource, d.offer[s] # None
               PROVE  Live(d, s)
    BY DEF OffersLive
  <2>1. CASE s = clip
    <3>1. k.clip[clip].refs > 1
      BY <1>1, <1>5, <1>6, <1>10, <1>13, <2>1
    <3>2. d.clip[clip].refs > 0
      BY <1>5, <1>6, <1>10, <1>13, <3>1
    <3> QED BY <2>1, <3>2 DEF Live
  <2>2. CASE s # clip
    <3>1. h.offer[s] # None BY <1>6, <1>10, <2>2
    <3> QED BY <1>4, <1>14, <2>2, <3>1 DEF OffersLive
  <2> QED BY <2>1, <2>2
<1>16. TakesOver(d) BY <1>8 DEF TakesOver
<1>17. Owners(d) BY <1>0, <1>10, <1>11 DEF Good, Owners
<1>18. ASSUME d.failed # d.selection
       PROVE  Held(d) /\ Informed(d)
  <2>1. k.selection # clip BY <1>8, <1>10, <1>11, <1>18
  <2>2. h = k BY <1>4, <2>1
  <2>3. k.selection \in AnySource \cup {None} BY <1>0 DEF Shaped
  <2>4. Held(d)
    BY <1>0, <1>10, <1>11, <1>14, <2>1, <2>2, <2>3 DEF Good, Sound, Held
  <2>5. Informed(d)
    BY <1>0, <1>6, <1>10, <1>11, <2>1, <2>2, <2>3
    DEF Good, Sound, Informed
  <2> QED BY <2>4, <2>5
<1>19. /\ Shaped(k') /\ OffersLive(k') /\ TakesOver(k') /\ Owners(k')
       /\ k'.failed # None
       /\ k'.failed # k'.selection => Held(k') /\ Informed(k')
  BY <1>1, <1>2, <1>8, <1>12, <1>15, <1>16, <1>17, <1>18
<1> QED BY <1>19 DEF IInv

-----------------------------------------------------------------------------
\* The start: nothing is selected and nobody has been told of anything.
THEOREM Initially == Init => IInv
<1> SUFFICES ASSUME Init PROVE IInv OBVIOUS
<1> DEFINE clip == [c \in Clips |-> NoClip]
           offer == [s \in AnySource |-> None]
           source == [s \in Sources |-> "unborn"]
<1>1. /\ k.source = source /\ k.clip = clip /\ k.selection = None
      /\ k.listener = None /\ k.serial = 0 /\ k.clipboard = None
      /\ k.offer = offer /\ k.focus = None /\ k.device = {} /\ k.got = "unknown"
      /\ k.failed = None
  BY DEF Init
<1>2. DOMAIN k = Fields BY DEF Init, Fields
<1>3. NoClip \in ClipSource
  BY SelectionAssumption DEF NoClip, ClipSource, Serial
<1>4. /\ source \in [Sources -> Fates]
      /\ clip \in [Clips -> ClipSource]
      /\ offer \in [AnySource -> Clients \cup {None}]
      /\ 0 \in Serial
  BY <1>3, SelectionAssumption DEF Fates, Serial
<1>5. /\ \A s \in Sources : source[s] = "unborn"
      /\ \A c \in Clips : clip[c].refs = 0 /\ clip[c].pastes = 0
      /\ \A s \in AnySource : offer[s] = None
  BY DEF NoClip
<1> HIDE DEF source, clip, offer
<1>6. Shaped(k) BY <1>1, <1>2, <1>4 DEF Shaped
<1>7. OffersLive(k) BY <1>1, <1>5 DEF OffersLive
<1>8. TakesOver(k) /\ Owners(k)
  BY <1>1, <1>5, SelectionAssumption DEF TakesOver, Owners, Owning
<1>9. Counted(k) BY <1>1, <1>5, SelectionAssumption DEF Counted
<1>10. Held(k) /\ OwnCopy(k) /\ Informed(k)
  BY <1>1, SelectionAssumption DEF Held, OwnCopy, Informed
<1> QED BY <1>1, <1>6, <1>7, <1>8, <1>9, <1>10 DEF IInv, Sound

\* Every event keeps the invariant, whatever calls what from within it.
THEOREM Inductive == IInv /\ [Next]_vars => IInv'
<1> SUFFICES ASSUME IInv, [Next]_vars PROVE IInv' OBVIOUS
<1>1. CASE UNCHANGED vars
  BY <1>1 DEF vars, IInv
<1>2. CASE Next
  <2>1. Running BY <1>2 DEF Next, IInv, Running, Good
  <2>2. Running' => IInv' BY DEF Running, Good, IInv
  <2>3. ASSUME NEW c \in Clients, BindDevice(c) PROVE IInv'
    BY <2>1, <2>2, <2>3, BindStep
  <2>4. ASSUME NEW c \in Clients, ReleaseDevice(c) PROVE IInv'
    BY <2>1, <2>2, <2>4, ReleaseStep
  <2>5. ASSUME NEW c \in Clients, Activate(c) PROVE IInv'
    BY <2>1, <2>2, <2>5, ActivateStep
  <2>6. ASSUME NEW c \in Clients \cup {None}, SetFocusOnly(c) PROVE IInv'
    BY <2>1, <2>2, <2>6, FocusOnlyStep
  <2>7. ASSUME NEW s \in Sources, CreateSource(s) PROVE IInv'
    BY <2>1, <2>2, <2>7, CreateStep
  <2>8. ASSUME NEW s \in Sources, NEW serial \in 0..(Serials - 1),
               NEW copied \in BOOLEAN, RequestSelection(s, serial, copied)
        PROVE  IInv'
    BY <2>1, <2>2, <2>8, RequestStep DEF Serial
  <2>9. ASSUME NEW s \in Sources, DestroySource(s) PROVE IInv'
    BY <2>1, <2>2, <2>9, DestroyStep
  <2>10. ASSUME NEW serial \in 0..(Serials - 1), XSelectionGone(serial)
         PROVE  IInv'
    BY <2>1, <2>2, <2>10, XGoneStep DEF Serial
  <2>11. ASSUME NEW clip \in Clips, PasteDone(clip) PROVE IInv'
    BY <2>1, <2>2, <2>11, PasteDoneStep
  <2>12. ASSUME NEW clip \in Clips, CopyDone(clip) PROVE IInv'
    BY <2>1, <2>2, <2>12, CopyDoneStep
  <2>13. ASSUME NEW clip \in Clips, CopyFails(clip) PROVE IInv'
    BY <2>1, <2>13, CopyFailsStep
  <2>14. ASSUME NEW clip \in Clips, Paste(clip) PROVE IInv'
    BY <2>1, <2>2, <2>14, PasteStep
  <2>15. ASSUME NEW s \in AnySource, NEW new \in BOOLEAN, DestroyOffer(s, new)
         PROVE  IInv'
    BY <2>1, <2>2, <2>15, DestroyOfferStep
  <2> QED BY <1>2, <2>3, <2>4, <2>5, <2>6, <2>7, <2>8, <2>9, <2>10, <2>11,
             <2>12, <2>13, <2>14, <2>15 DEF Next, Step
<1> QED BY <1>1, <1>2

\* The invariant of every behaviour.
THEOREM Invariance == Spec => []IInv
  BY Initially, Inductive, PTL DEF Spec

\* No source is freed while the seat, an offer, the clipboard or a paste refers
\* to it, and none is kept for nobody (until a read fails of a copy).
THEOREM SourcesAreSound == Spec => []SourcesSound
<1>1. IInv => SourcesSound
  <2> SUFFICES ASSUME IInv PROVE SourcesSound OBVIOUS
  <2>1. TypeOK
    BY DEF IInv, Shaped, TypeOK, OffersLive, Fates, ClipSource, Serial
  <2>2. SelectionAlive BY DEF IInv, Sound, SelectionAlive, Held
  <2>3. RefsCounted BY DEF IInv, Sound, RefsCounted, Counted
  <2> QED BY <2>1, <2>2, <2>3 DEF SourcesSound
<1> QED BY <1>1, Invariance, PTL

\* As long as the clipboard has a copy there is something to paste, whoever of
\* the clients destroys what, in whichever order.
THEOREM CopyIsOffered == Spec => []ClipboardTakesOver
<1>1. IInv => ClipboardTakesOver BY DEF IInv, TakesOver, ClipboardTakesOver
<1> QED BY <1>1, Invariance, PTL

\* The client that got the focus by being activated, or was sent a selection since
\* it has it, knows the selection and can paste it as long as it keeps its offer;
\* and the source that is the selection is the one that has not heard otherwise, but
\* for one told "cancelled" when its offer was let go or it claimed anew.
THEOREM ClientsAreInformed == Spec => []ClientsInformed
<1>1. IInv => ClientsInformed
  BY DEF IInv, Sound, Informed, Owners, Owning, ClientsInformed, FocusInformed,
         OwnersKnow
<1> QED BY <1>1, Invariance, PTL

-----------------------------------------------------------------------------
\* IviScene

\* A set of numbers that is not empty has a least one.
LEMMA Least ==
  ASSUME NEW T \in SUBSET Nat, T # {}
  PROVE  \E n \in T : \A m \in T : n <= m
<1> DEFINE R == OpToRel(<, Nat)
<1>1. IsWellFoundedOn(R, Nat) BY NatLessThanWellFounded
<1>2. ASSUME NEW m \in Nat, NEW n \in Nat, ~(<<m, n>> \in R) PROVE n <= m
  <2>1. ~(m < n) BY <1>2 DEF OpToRel
  <2> QED BY <2>1
<1> HIDE DEF R
<1>3. PICK n \in T : \A m \in T : ~(<<m, n>> \in R) BY <1>1, WFMin
<1>4. \A m \in T : n <= m
  <2> TAKE m \in T
  <2>1. m \in Nat /\ n \in Nat /\ ~(<<m, n>> \in R) BY <1>3, Zenon
  <2> QED BY <1>2, <2>1, Zenon
<1> QED BY <1>4, Zenon

\* A set with 0 and with the successor of each of its members is Nat.
LEMMA Induction ==
  ASSUME NEW T \in SUBSET Nat, 0 \in T, \A n \in T : n + 1 \in T
  PROVE  T = Nat
<1> DEFINE U == Nat \ T
<1> SUFFICES ASSUME U # {} PROVE FALSE OBVIOUS
<1>1. PICK n \in U : \A m \in U : n <= m BY Least
<1>2. n # 0 /\ n - 1 \in Nat BY <1>1
<1>3. n - 1 \in T BY <1>1, <1>2
<1>4. (n - 1) + 1 = n BY <1>2
<1>5. n \in T BY <1>3, <1>4
<1> QED BY <1>5, <1>1

-----------------------------------------------------------------------------
(* Lists: what is in them, and what is before what.                        *)

\* x is one of the first n of the list; and x comes before y there.
Has(list, n, x) == \E i \in 1 .. n : list[i] = x
Ord(list, n, x, y) == \E i, j \in 1 .. n : i < j /\ list[i] = x /\ list[j] = y

LEMMA OnIsHas ==
  ASSUME NEW X, NEW list \in Seq(X)
  PROVE  \A x : On(x, list) <=> Has(list, Len(list), x)
<1>1. DOMAIN list = 1 .. Len(list) BY LenProperties
<1> QED BY <1>1 DEF On, ToSet, Has

LEMMA BeforeIsOrd ==
  ASSUME NEW list
  PROVE  \A x, y : Before(x, y, list) <=> Ord(list, Len(list), x, y)
BY DEF Before, Ord

LEMMA HasNext ==
  ASSUME NEW list, NEW n \in Nat
  PROVE  /\ \A x : ~Has(list, 0, x) /\ \A y : ~Ord(list, 0, x, y)
         /\ \A x : Has(list, n + 1, x) <=> Has(list, n, x) \/ x = list[n + 1]
         /\ \A x, y : Ord(list, n + 1, x, y) <=>
                        Ord(list, n, x, y) \/ (Has(list, n, x) /\ y = list[n + 1])
<1>1. \A i : i \in 1 .. n + 1 <=> i \in 1 .. n \/ i = n + 1 OBVIOUS
<1>2. \A x : Has(list, n + 1, x) <=> Has(list, n, x) \/ x = list[n + 1]
  BY <1>1 DEF Has
<1>3. ASSUME NEW x, NEW y
      PROVE  Ord(list, n + 1, x, y) <=>
               Ord(list, n, x, y) \/ (Has(list, n, x) /\ y = list[n + 1])
  <2>1. ASSUME Ord(list, n + 1, x, y)
        PROVE  Ord(list, n, x, y) \/ (Has(list, n, x) /\ y = list[n + 1])
    <3>1. PICK i \in 1 .. n + 1, j \in 1 .. n + 1 : i < j /\ list[i] = x /\ list[j] = y
      BY <2>1 DEF Ord
    <3>2. i \in 1 .. n BY <3>1
    <3>3. j \in 1 .. n \/ j = n + 1 BY <1>1
    <3> QED BY <3>1, <3>2, <3>3 DEF Ord, Has
  <2>2. ASSUME Ord(list, n, x, y) PROVE Ord(list, n + 1, x, y)
    BY <1>1, <2>2 DEF Ord
  <2>3. ASSUME Has(list, n, x), y = list[n + 1] PROVE Ord(list, n + 1, x, y)
    <3>1. PICK i \in 1 .. n : list[i] = x BY <2>3 DEF Has
    <3>2. i \in 1 .. n + 1 /\ n + 1 \in 1 .. n + 1 /\ i < n + 1 OBVIOUS
    <3> QED BY <2>3, <3>1, <3>2 DEF Ord
  <2> QED BY <2>1, <2>2, <2>3
<1> QED BY <1>2, <1>3 DEF Has, Ord

\* A list depends on its first n only as far as they go.
LEMMA HasSame ==
  ASSUME NEW a, NEW b, NEW n \in Nat, \A i \in 1 .. n : a[i] = b[i]
  PROVE  \A x : /\ Has(a, n, x) <=> Has(b, n, x)
                /\ \A y : Ord(a, n, x, y) <=> Ord(b, n, x, y)
BY DEF Has, Ord

LEMMA AppendOrder ==
  ASSUME NEW X, NEW a \in Seq(X), NEW z \in X
  PROVE  /\ Append(a, z) \in Seq(X)
         /\ \A x : On(x, Append(a, z)) <=> On(x, a) \/ x = z
         /\ \A x, y : Before(x, y, Append(a, z)) <=> Before(x, y, a) \/ (On(x, a) /\ y = z)
<1> DEFINE n == Len(a)
           b == Append(a, z)
<1>1. /\ n \in Nat /\ b \in Seq(X) /\ Len(b) = n + 1 /\ b[n + 1] = z
      /\ \A i \in 1 .. n : a[i] = b[i]
  BY LenProperties, AppendProperties
<1>2. \A x : /\ Has(a, n, x) <=> Has(b, n, x)
             /\ \A y : Ord(a, n, x, y) <=> Ord(b, n, x, y)
  BY <1>1, HasSame
<1>3. \A x : On(x, a) <=> Has(a, n, x) BY OnIsHas
<1>4. \A x : On(x, b) <=> Has(b, n + 1, x) BY <1>1, OnIsHas
<1>5. \A x, y : /\ Before(x, y, a) <=> Ord(a, n, x, y)
                /\ Before(x, y, b) <=> Ord(b, n + 1, x, y)
  BY <1>1, BeforeIsOrd
<1> HIDE DEF n, b
<1>6. /\ \A x : Has(b, n + 1, x) <=> Has(b, n, x) \/ x = b[n + 1]
      /\ \A x, y : Ord(b, n + 1, x, y) <=> Ord(b, n, x, y) \/ (Has(b, n, x) /\ y = b[n + 1])
  BY <1>1, HasNext
<1>7. /\ \A x : On(x, b) <=> On(x, a) \/ x = z
      /\ \A x, y : Before(x, y, b) <=> Before(x, y, a) \/ (On(x, a) /\ y = z)
  BY <1>1, <1>2, <1>3, <1>4, <1>5, <1>6
<1> QED BY <1>1, <1>7 DEF b

LEMMA EmptyOrder ==
  /\ \A X : <<>> \in Seq(X)
  /\ \A x : ~On(x, <<>>) /\ \A y : ~Before(x, y, <<>>)
<1>1. Len(<<>>) = 0 /\ \A X : <<>> \in Seq(X) BY EmptySeq
<1>2. <<>> \in Seq(Nat) BY <1>1
<1>3. \A x : ~Has(<<>>, 0, x) /\ \A y : ~Ord(<<>>, 0, x, y) BY DEF Has, Ord
<1> QED BY <1>1, <1>2, <1>3, OnIsHas, BeforeIsOrd

LEMMA OneOrder ==
  ASSUME NEW X, NEW z \in X
  PROVE  /\ <<z>> \in Seq(X) /\ \A x : On(x, <<z>>) <=> x = z
         /\ \A x, y : ~Before(x, y, <<z>>)
<1>1. <<z>> \in Seq(X) /\ Len(<<z>>) = 1 /\ <<z>>[1] = z OBVIOUS
<1>2. \A x : On(x, <<z>>) <=> x = z
  <2>1. \A x : On(x, <<z>>) <=> Has(<<z>>, 1, x) BY <1>1, OnIsHas
  <2>2. \A i : i \in 1 .. 1 <=> i = 1 OBVIOUS
  <2> QED BY <1>1, <2>1, <2>2 DEF Has
<1>3. \A x, y : ~Before(x, y, <<z>>) BY <1>1 DEF Before
<1> QED BY <1>1, <1>2, <1>3

LEMMA InjectiveIs ==
  ASSUME NEW X, NEW a \in Seq(X)
  PROVE  IsInjective(a) <=> \A x : ~Before(x, x, a)
<1>1. DOMAIN a = 1 .. Len(a) /\ Len(a) \in Nat BY LenProperties
<1>2. ASSUME IsInjective(a), NEW x, Before(x, x, a) PROVE FALSE
  BY <1>1, <1>2 DEF IsInjective, Before
<1>3. ASSUME \A x : ~Before(x, x, a), NEW i \in DOMAIN a, NEW j \in DOMAIN a, a[i] = a[j]
      PROVE  i = j
  <2>1. i \in Nat /\ j \in Nat BY <1>1
  <2>2. ~(i < j) /\ ~(j < i) BY <1>1, <1>3 DEF Before
  <2> QED BY <2>1, <2>2
<1> QED BY <1>2, <1>3 DEF IsInjective

LEMMA ReverseOrder ==
  ASSUME NEW X, NEW a \in Seq(X)
  PROVE  /\ Reverse(a) \in Seq(X) /\ Len(Reverse(a)) = Len(a)
         /\ \A i \in 1 .. Len(a) : Reverse(a)[i] = a[Len(a) - i + 1]
         /\ \A x : On(x, Reverse(a)) <=> On(x, a)
         /\ \A x, y : Before(x, y, Reverse(a)) <=> Before(y, x, a)
<1> DEFINE n == Len(a)
           b == Reverse(a)
<1>1. n \in Nat /\ \A i \in 1 .. n : a[i] \in X BY LenProperties, ElementOfSeq
<1>2. b = [i \in 1 .. n |-> a[(n - i) + 1]] BY DEF Reverse
<1> HIDE DEF b
<1>3. \A i \in 1 .. n : n - i + 1 \in 1 .. n BY <1>1
<1>4. b \in [1 .. n -> X] BY <1>1, <1>2, <1>3
<1>5. b \in Seq(X) /\ Len(b) = n BY <1>1, <1>4, SeqDef, LenProperties
<1>6. \A i \in 1 .. n : b[i] = a[n - i + 1] BY <1>2
<1>7. \A i \in 1 .. n : a[i] = b[n - i + 1]
  <2> SUFFICES ASSUME NEW i \in 1 .. n PROVE a[i] = b[n - i + 1] OBVIOUS
  <2>1. n - i + 1 \in 1 .. n /\ n - (n - i + 1) + 1 = i BY <1>1
  <2> QED BY <1>6, <2>1
<1>8. ASSUME NEW x PROVE On(x, b) <=> On(x, a)
  <2>1. (On(x, b) <=> Has(b, n, x)) /\ (On(x, a) <=> Has(a, n, x))
    BY <1>5, OnIsHas
  <2>2. Has(b, n, x) => Has(a, n, x) BY <1>3, <1>6 DEF Has
  <2>3. Has(a, n, x) => Has(b, n, x) BY <1>3, <1>7 DEF Has
  <2> QED BY <2>1, <2>2, <2>3
<1>9. ASSUME NEW x, NEW y PROVE Before(x, y, b) <=> Before(y, x, a)
  <2>1. \A i, j \in 1 .. n : i < j => n - j + 1 < n - i + 1 BY <1>1
  <2>2. ASSUME Before(x, y, b) PROVE Before(y, x, a)
    <3>1. PICK i \in 1 .. n, j \in 1 .. n : i < j /\ b[i] = x /\ b[j] = y
      BY <1>5, <2>2 DEF Before
    <3> QED BY <1>3, <1>6, <2>1, <3>1 DEF Before
  <2>3. ASSUME Before(y, x, a) PROVE Before(x, y, b)
    <3>1. PICK i \in 1 .. n, j \in 1 .. n : i < j /\ a[i] = y /\ a[j] = x
      BY <2>3 DEF Before
    <3> QED BY <1>3, <1>5, <1>7, <2>1, <3>1 DEF Before
  <2> QED BY <2>2, <2>3
<1> QED BY <1>5, <1>6, <1>8, <1>9 DEF b

LEMMA ConcatOrder ==
  ASSUME NEW X, NEW a \in Seq(X), NEW b \in Seq(X)
  PROVE  /\ a \o b \in Seq(X)
         /\ \A x : On(x, a \o b) <=> On(x, a) \/ On(x, b)
         /\ \A x, y : Before(x, y, a \o b) <=>
                        Before(x, y, a) \/ Before(x, y, b) \/ (On(x, a) /\ On(y, b))
<1> DEFINE n == Len(a)
           m == Len(b)
           c == a \o b
<1>1. /\ n \in Nat /\ m \in Nat /\ c \in Seq(X) /\ Len(c) = n + m
      /\ \A i \in 1 .. n + m : c[i] = IF i <= n THEN a[i] ELSE b[i - n]
  BY LenProperties, ConcatProperties
<1>2. \A x : /\ On(x, a) <=> Has(a, n, x)
             /\ On(x, b) <=> Has(b, m, x)
             /\ On(x, c) <=> Has(c, n + m, x)
  BY <1>1, OnIsHas
<1>3. \A x, y : /\ Before(x, y, a) <=> Ord(a, n, x, y)
                /\ Before(x, y, b) <=> Ord(b, m, x, y)
                /\ Before(x, y, c) <=> Ord(c, n + m, x, y)
  BY <1>1, BeforeIsOrd
<1> HIDE DEF n, m, c
<1>4. \A i \in 1 .. n : i \in 1 .. n + m /\ c[i] = a[i] BY <1>1
<1>5. ASSUME NEW i \in 1 .. m PROVE i + n \in 1 .. n + m /\ c[i + n] = b[i] /\ i + n > n
  <2>1. i + n \in 1 .. n + m /\ ~(i + n <= n) /\ (i + n) - n = i BY <1>1
  <2> QED BY <1>1, <2>1
<1>6. ASSUME NEW i \in 1 .. n + m, i \notin 1 .. n
      PROVE  i - n \in 1 .. m /\ c[i] = b[i - n] /\ i > n
  <2>1. i - n \in 1 .. m /\ ~(i <= n) BY <1>1, <1>6
  <2> QED BY <1>1, <2>1
<1>7. ASSUME NEW x PROVE Has(c, n + m, x) <=> Has(a, n, x) \/ Has(b, m, x)
  <2>1. ASSUME Has(c, n + m, x) PROVE Has(a, n, x) \/ Has(b, m, x)
    <3>1. PICK i \in 1 .. n + m : c[i] = x BY <2>1 DEF Has
    <3>2. CASE i \in 1 .. n BY <1>4, <3>1, <3>2 DEF Has
    <3>3. CASE i \notin 1 .. n BY <1>6, <3>1, <3>3 DEF Has
    <3> QED BY <3>2, <3>3
  <2>2. Has(a, n, x) => Has(c, n + m, x) BY <1>4 DEF Has
  <2>3. Has(b, m, x) => Has(c, n + m, x) BY <1>5 DEF Has
  <2> QED BY <2>1, <2>2, <2>3
<1>8. ASSUME NEW x, NEW y
      PROVE  Ord(c, n + m, x, y) <=>
               Ord(a, n, x, y) \/ Ord(b, m, x, y) \/ (Has(a, n, x) /\ Has(b, m, y))
  <2>1. ASSUME Ord(c, n + m, x, y)
        PROVE  Ord(a, n, x, y) \/ Ord(b, m, x, y) \/ (Has(a, n, x) /\ Has(b, m, y))
    <3>1. PICK i \in 1 .. n + m, j \in 1 .. n + m : i < j /\ c[i] = x /\ c[j] = y
      BY <2>1 DEF Ord
    <3>2. CASE i \in 1 .. n /\ j \in 1 .. n BY <1>4, <3>1, <3>2 DEF Ord
    <3>3. CASE i \in 1 .. n /\ j \notin 1 .. n BY <1>4, <1>6, <3>1, <3>3 DEF Has
    <3>4. CASE i \notin 1 .. n
      <4>1. j \notin 1 .. n BY <1>1, <3>1, <3>4
      <4>2. /\ i - n \in 1 .. m /\ c[i] = b[i - n]
            /\ j - n \in 1 .. m /\ c[j] = b[j - n] /\ i - n < j - n
        BY <1>1, <1>6, <3>1, <3>4, <4>1
      <4> QED BY <3>1, <4>2 DEF Ord
    <3> QED BY <3>2, <3>3, <3>4
  <2>2. Ord(a, n, x, y) => Ord(c, n + m, x, y) BY <1>4 DEF Ord
  <2>3. ASSUME Ord(b, m, x, y) PROVE Ord(c, n + m, x, y)
    <3>1. PICK i \in 1 .. m, j \in 1 .. m : i < j /\ b[i] = x /\ b[j] = y
      BY <2>3 DEF Ord
    <3>2. i + n < j + n BY <1>1, <3>1
    <3> QED BY <1>5, <3>1, <3>2 DEF Ord
  <2>4. ASSUME Has(a, n, x), Has(b, m, y) PROVE Ord(c, n + m, x, y)
    <3>1. PICK i \in 1 .. n : a[i] = x BY <2>4 DEF Has
    <3>2. PICK j \in 1 .. m : b[j] = y BY <2>4 DEF Has
    <3>3. i < j + n BY <1>1
    <3> QED BY <1>4, <1>5, <3>1, <3>2, <3>3 DEF Ord
  <2> QED BY <2>1, <2>2, <2>3, <2>4
<1>9. /\ \A x : On(x, c) <=> On(x, a) \/ On(x, b)
      /\ \A x, y : Before(x, y, c) <=>
                     Before(x, y, a) \/ Before(x, y, b) \/ (On(x, a) /\ On(y, b))
  BY <1>2, <1>3, <1>7, <1>8
<1> QED BY <1>1, <1>9 DEF c

\* The recursion of Keep
IsKept(f, list, S, n) ==
  f = [m \in 0 .. n |->
         IF m = 0 THEN <<>>
         ELSE IF list[m] \in S THEN Append(f[m - 1], list[m]) ELSE f[m - 1]]

LEMMA KeptExists ==
  ASSUME NEW list, NEW S, NEW n \in Nat
  PROVE  \E f : IsKept(f, list, S, n)
<1> DEFINE T == {m \in Nat : \E f : IsKept(f, list, S, m)}
           D(d, b) == IF list[b] \in S THEN Append(d, list[b]) ELSE d
<1>1. 0 \in T
  <2> DEFINE g == [b \in 0 .. 0 |-> <<>>]
  <2>1. IsKept(g, list, S, 0) BY DEF IsKept
  <2> QED BY <2>1
<1>2. ASSUME NEW m \in T PROVE m + 1 \in T
  <2>0. m \in Nat OBVIOUS
  <2>1. PICK g : IsKept(g, list, S, m) OBVIOUS
  <2> DEFINE h == [b \in 0 .. m + 1 |-> IF b = m + 1 THEN D(g[m], b) ELSE g[b]]
             u == [b \in 0 .. m + 1 |-> IF b = 0 THEN <<>> ELSE D(h[b - 1], b)]
  <2> HIDE DEF D
  <2>2. \A b \in 0 .. m : g[b] = IF b = 0 THEN <<>> ELSE D(g[b - 1], b)
    BY <2>1 DEF IsKept, D
  <2>3. \A b \in 0 .. m + 1 : h[b] = IF b = 0 THEN <<>> ELSE D(h[b - 1], b)
    BY <2>0, <2>2
  <2>4. h = u BY <2>3
  <2>5. IsKept(h, list, S, m + 1) BY <2>4 DEF IsKept, D
  <2> QED BY <2>0, <2>5
<1> HIDE DEF T
<1>3. T \in SUBSET Nat BY DEF T
<1>4. T = Nat BY <1>1, <1>2, <1>3, Induction
<1> QED BY <1>4 DEF T

LEMMA KeepIs ==
  ASSUME NEW X, NEW list \in Seq(X), NEW S
  PROVE  \E f : /\ Keep(list, S) = f[Len(list)] /\ f[0] = <<>>
                /\ \A m \in 1 .. Len(list) :
                     f[m] = IF list[m] \in S THEN Append(f[m - 1], list[m]) ELSE f[m - 1]
<1> DEFINE n == Len(list)
           f == CHOOSE f : IsKept(f, list, S, n)
<1>1. n \in Nat BY LenProperties
<1>2. IsKept(f, list, S, n) BY <1>1, KeptExists
<1>3. Keep(list, S) = f[n] BY DEF Keep, IsKept
<1> HIDE DEF f
<1>4. \A m \in 0 .. n :
        f[m] = IF m = 0 THEN <<>>
               ELSE IF list[m] \in S THEN Append(f[m - 1], list[m]) ELSE f[m - 1]
  BY <1>2 DEF IsKept
<1>5. f[0] = <<>> BY <1>1, <1>4
<1>6. \A m \in 1 .. n :
        f[m] = IF list[m] \in S THEN Append(f[m - 1], list[m]) ELSE f[m - 1]
  BY <1>1, <1>4
<1> QED BY <1>3, <1>5, <1>6

\* What is kept is what is in S, in the order of the list.
LEMMA KeepFacts ==
  ASSUME NEW X, NEW list \in Seq(X), NEW S
  PROVE  /\ Keep(list, S) \in Seq(X)
         /\ \A x : On(x, Keep(list, S)) <=> x \in S /\ On(x, list)
         /\ \A x, y : Before(x, y, Keep(list, S)) <=> x \in S /\ y \in S /\ Before(x, y, list)
<1> DEFINE u == Len(list)
<1>1. PICK f : /\ Keep(list, S) = f[u] /\ f[0] = <<>>
               /\ \A m \in 1 .. u :
                    f[m] = IF list[m] \in S THEN Append(f[m - 1], list[m]) ELSE f[m - 1]
  BY KeepIs
<1>2. u \in Nat /\ \A i \in 1 .. u : list[i] \in X BY LenProperties, ElementOfSeq
<1> DEFINE P(n) == /\ f[n] \in Seq(X)
                   /\ \A x : On(x, f[n]) <=> x \in S /\ Has(list, n, x)
                   /\ \A x, y : Before(x, y, f[n]) <=> x \in S /\ y \in S /\ Ord(list, n, x, y)
           T == {n \in Nat : n <= u => P(n)}
<1> HIDE DEF u
<1>3. P(0)
  <2> DEFINE e == <<>>
  <2>1. f[0] = e BY <1>1
  <2>2. e \in Seq(X) /\ \A x, y : ~On(x, e) /\ ~Before(x, y, e) BY EmptyOrder, EmptySeq
  <2>3. \A x, y : ~Has(list, 0, x) /\ ~Ord(list, 0, x, y) BY DEF Has, Ord
  <2> HIDE DEF e
  <2> QED BY <2>1, <2>2, <2>3
<1>4. ASSUME NEW n \in Nat, n + 1 <= u, P(n) PROVE P(n + 1)
  <2> DEFINE z == list[n + 1]
  <2>1. n + 1 \in 1 .. u /\ (n + 1) - 1 = n BY <1>2, <1>4
  <2>2. z \in X BY <1>2, <2>1
  <2>3. f[n + 1] = IF z \in S THEN Append(f[n], z) ELSE f[n] BY <1>1, <2>1
  <2>4. /\ \A x : Has(list, n + 1, x) <=> Has(list, n, x) \/ x = z
        /\ \A x, y : Ord(list, n + 1, x, y) <=> Ord(list, n, x, y) \/ (Has(list, n, x) /\ y = z)
    BY HasNext
  <2> HIDE DEF z
  <2>5. CASE z \in S
    <3> DEFINE a == f[n]
               b == f[n + 1]
    <3>1. a \in Seq(X) BY <1>4
    <3>2. b = Append(a, z) BY <2>3, <2>5
    <3> HIDE DEF b
    <3>3. /\ b \in Seq(X) /\ \A x : On(x, b) <=> On(x, a) \/ x = z
          /\ \A x, y : Before(x, y, b) <=> Before(x, y, a) \/ (On(x, a) /\ y = z)
      BY <2>2, <3>1, <3>2, AppendOrder
    <3>4. /\ \A x : On(x, a) <=> x \in S /\ Has(list, n, x)
          /\ \A x, y : Before(x, y, a) <=> x \in S /\ y \in S /\ Ord(list, n, x, y)
      BY <1>4
    <3> HIDE DEF a
    <3>5. \A x : On(x, b) <=> x \in S /\ Has(list, n + 1, x) BY <2>4, <2>5, <3>3, <3>4
    <3>6. \A x, y : Before(x, y, b) <=> x \in S /\ y \in S /\ Ord(list, n + 1, x, y)
      BY <2>4, <2>5, <3>3, <3>4
    <3> QED BY <3>3, <3>5, <3>6 DEF b
  <2>6. CASE z \notin S
    <3>1. f[n + 1] = f[n] BY <2>3, <2>6
    <3>2. \A x : x \in S => (Has(list, n + 1, x) <=> Has(list, n, x)) BY <2>4, <2>6
    <3>3. \A x, y : y \in S => (Ord(list, n + 1, x, y) <=> Ord(list, n, x, y)) BY <2>4, <2>6
    <3> QED BY <1>4, <3>1, <3>2, <3>3
  <2> QED BY <2>5, <2>6
<1>5. 0 \in T BY <1>3
<1>6. \A n \in T : n + 1 \in T
  <2> HIDE DEF P
  <2> TAKE n \in T
  <2>1. n \in Nat /\ n + 1 \in Nat OBVIOUS
  <2>2. n + 1 <= u => n <= u BY <1>2, <2>1
  <2> QED BY <1>4, <2>1, <2>2
<1> HIDE DEF P
<1>7. T \in SUBSET Nat OBVIOUS
<1> HIDE DEF T
<1>8. T = Nat BY <1>5, <1>6, <1>7, Induction
<1>9. P(u) BY <1>2, <1>8 DEF T
<1>10. \A x : On(x, list) <=> Has(list, u, x) BY OnIsHas DEF u
<1>11. \A x, y : Before(x, y, list) <=> Ord(list, u, x, y) BY BeforeIsOrd DEF u
<1> QED BY <1>1, <1>9, <1>10, <1>11 DEF P

\* A list of fewer things
LEMMA SeqOfFewer ==
  ASSUME NEW X, NEW Y, NEW a \in Seq(X), \A x : On(x, a) => x \in Y
  PROVE  a \in Seq(Y)
<1> DEFINE n == Len(a)
<1>1. n \in Nat /\ a \in [1 .. n -> X] /\ DOMAIN a = 1 .. n
  BY LenProperties, SeqDef
<1>2. \A i \in 1 .. n : a[i] \in Y BY <1>1 DEF On, ToSet
<1> HIDE DEF n
<1>3. a \in [1 .. n -> Y] BY <1>1, <1>2
<1> QED BY <1>1, <1>3, SeqDef

LEMMA OnTypes ==
  ASSUME NEW X, NEW a \in Seq(X)
  PROVE  \A x : On(x, a) => x \in X
<1>1. DOMAIN a = 1 .. Len(a) /\ \A i \in 1 .. Len(a) : a[i] \in X
  BY LenProperties, ElementOfSeq
<1> QED BY <1>1 DEF On, ToSet

LEMMA BeforeOn ==
  ASSUME NEW X, NEW a \in Seq(X)
  PROVE  \A x, y : Before(x, y, a) => On(x, a) /\ On(y, a)
<1>1. DOMAIN a = 1 .. Len(a) BY LenProperties
<1> QED BY <1>1 DEF Before, On, ToSet

LEMMA WithoutFacts ==
  ASSUME NEW X, NEW list \in Seq(X), NEW s
  PROVE  /\ Without(list, s) \in Seq(X) /\ Without(list, s) \in Seq(X \ {s})
         /\ \A x : On(x, Without(list, s)) <=> x # s /\ On(x, list)
         /\ \A x, y : Before(x, y, Without(list, s)) <=>
                        x # s /\ y # s /\ Before(x, y, list)
<1> DEFINE S == ToSet(list) \ {s}
           w == Without(list, s)
<1>1. w = Keep(list, S) BY DEF Without
<1>2. /\ w \in Seq(X) /\ \A x : On(x, w) <=> x \in S /\ On(x, list)
      /\ \A x, y : Before(x, y, w) <=> x \in S /\ y \in S /\ Before(x, y, list)
  BY <1>1, KeepFacts
<1>3. \A x : x \in S <=> On(x, list) /\ x # s BY DEF On
<1> HIDE DEF S, w
<1>4. \A x, y : Before(x, y, list) => On(x, list) /\ On(y, list) BY BeforeOn
<1>5. \A x : On(x, list) => x \in X BY OnTypes
<1>6. \A x : On(x, w) => x \in X \ {s} BY <1>2, <1>3, <1>5
<1>7. w \in Seq(X \ {s}) BY <1>2, <1>6, SeqOfFewer
<1> QED BY <1>2, <1>3, <1>4, <1>7 DEF w
-----------------------------------------------------------------------------
(* The scene: what of it the calls and the commits preserve.               *)

SurfaceRecords == [visible : BOOLEAN, pending : BOOLEAN, on_layer : Layers \cup {NULL}]
LayerRecords(ss) == [visible : BOOLEAN, pending : BOOLEAN, dirty : BOOLEAN,
                     on_screen : BOOLEAN, surfaces : Seq(ss), order : Seq(ss)]

\* No surface twice, or in two of the lists
Single(list) == \A x : ~Before(x, x, list)
Apart(a, b) == \A x : ~(On(x, a) /\ On(x, b))
Opposite(a, b) == /\ \A x : On(x, a) => On(x, b)
                  /\ \A x, y : On(x, a) /\ On(y, a) => (Before(x, y, a) <=> Before(y, x, b))

\* A scene of the surfaces ss, with the layers gone destroyed at some time
Types(sf, ly, ss) == sf \in [Surfaces -> SurfaceRecords] /\ ly \in [Layers -> LayerRecords(ss)]
Singles(ly) ==
  /\ \A l \in Layers : Single(ly[l].surfaces) /\ Single(ly[l].order)
  /\ \A u, l \in Layers : u # l =>
       Apart(ly[u].surfaces, ly[l].surfaces) /\ Apart(ly[u].order, ly[l].order)
Known(sf, ly, ss, gone) ==
  \A s \in ss, l \in Layers :
    /\ On(s, ly[l].order) => sf[s].on_layer = l
    /\ sf[s].on_layer = l => On(s, ly[l].order) \/ l \in gone
Quiet(ly) == \A l \in Layers : ~ly[l].dirty => Opposite(ly[l].surfaces, ly[l].order)
Scene(sf, ly, ss, gone) ==
  Types(sf, ly, ss) /\ Singles(ly) /\ Known(sf, ly, ss, gone) /\ Quiet(ly)

LEMMA OppositeReverse ==
  ASSUME NEW X, NEW a \in Seq(X), Single(a)
  PROVE  /\ Reverse(a) \in Seq(X) /\ Single(Reverse(a)) /\ Opposite(a, Reverse(a))
         /\ \A x : On(x, Reverse(a)) <=> On(x, a)
BY ReverseOrder DEF Single, Opposite

LEMMA KeepSingle ==
  ASSUME NEW X, NEW a \in Seq(X), Single(a), NEW S
  PROVE  Single(Keep(a, S))
BY KeepFacts DEF Single

\* One turn of the commit
Turned(sf, ly, l, nf, ny) ==
  /\ nf \in [Surfaces -> SurfaceRecords]
  /\ \A s \in Surfaces : nf[s].on_layer =
       IF ~ly[l].dirty THEN sf[s].on_layer
       ELSE IF On(s, ly[l].surfaces) THEN l
       ELSE IF On(s, ly[l].order) THEN NULL ELSE sf[s].on_layer
  /\ \A u \in Layers :
       /\ ny[u].surfaces = ly[u].surfaces
       /\ ny[u].dirty = IF u = l THEN FALSE ELSE ly[u].dirty
       /\ ny[u].order =
            IF ~ly[l].dirty THEN ly[u].order
            ELSE IF u = l THEN Reverse(ly[l].surfaces)
            ELSE Keep(ly[u].order, Surfaces \ ToSet(ly[l].surfaces))

LEMMA TurnFacts ==
  ASSUME NEW ss \in SUBSET Surfaces, NEW sf, NEW ly, Types(sf, ly, ss), NEW l \in Layers,
         \A u \in Layers : Single(ly[u].surfaces),
         NEW st, st = [surf |-> sf, lay |-> ly]
  PROVE  \E nf, ny : /\ CommitLayer(st, l) = [surf |-> nf, lay |-> ny]
                     /\ Types(nf, ny, ss) /\ Turned(sf, ly, l, nf, ny)
<1> DEFINE shown == [st EXCEPT !.lay[l].visible = st.lay[l].pending]
           off == TakeAllOff(shown, l)
           list == shown.lay[l].surfaces
           placed == PutOn(off, l, list)
           sh == [ly EXCEPT ![l].visible = ly[l].pending]
<1>1. /\ sf \in [Surfaces -> SurfaceRecords] /\ ly \in [Layers -> LayerRecords(ss)]
      /\ ly[l] \in LayerRecords(ss)
  BY DEF Types
<1>2. shown = [surf |-> sf, lay |-> sh] BY <1>1
<1>3. sh \in [Layers -> LayerRecords(ss)] BY <1>1 DEF LayerRecords
<1>4. /\ \A u \in Layers : /\ sh[u].surfaces = ly[u].surfaces /\ sh[u].order = ly[u].order
                           /\ sh[u].dirty = ly[u].dirty
  BY <1>1 DEF LayerRecords
<1>5. CommitLayer(st, l) = IF ly[l].dirty THEN [placed EXCEPT !.lay[l].dirty = FALSE] ELSE shown
  BY DEF CommitLayer
<1> HIDE DEF shown
<1>6. CASE ~ly[l].dirty
  <2>1. CommitLayer(st, l) = [surf |-> sf, lay |-> sh] BY <1>2, <1>5, <1>6
  <2>2. Types(sf, sh, ss) BY <1>1, <1>3 DEF Types
  <2>3. Turned(sf, ly, l, sf, sh) BY <1>1, <1>4, <1>6 DEF Turned, Types, LayerRecords
  <2> QED BY <2>1, <2>2, <2>3
<1>7. CASE ly[l].dirty
  <2> DEFINE of == [s \in Surfaces |->
                      IF On(s, sh[l].order) THEN [sf[s] EXCEPT !.on_layer = NULL] ELSE sf[s]]
             oy == [sh EXCEPT ![l].order = <<>>]
             nf == [s \in Surfaces |->
                      IF On(s, list) THEN [of[s] EXCEPT !.on_layer = l] ELSE of[s]]
             py == [u \in Layers |->
                      [oy[u] EXCEPT !.order =
                         IF u = l THEN Reverse(list)
                         ELSE Keep(oy[u].order, Surfaces \ ToSet(list))]]
             ny == [py EXCEPT ![l].dirty = FALSE]
  <2>1. off = [surf |-> of, lay |-> oy]
    <3>1. shown.surf = sf /\ shown.lay = sh BY <1>2
    <3> HIDE DEF sh
    <3> DEFINE og == [s \in Surfaces |->
                        IF On(s, shown.lay[l].order) THEN [shown.surf[s] EXCEPT !.on_layer = NULL]
                        ELSE shown.surf[s]]
    <3>2. og = of BY <3>1
    <3>3. off = [shown EXCEPT !.lay[l].order = <<>>, !.surf = og] BY DEF TakeAllOff
    <3> HIDE DEF og, of, off
    <3>4. off = [[surf |-> sf, lay |-> sh] EXCEPT !.lay[l].order = <<>>, !.surf = og]
      BY <1>2, <3>3
    <3>5. off = [surf |-> og, lay |-> [sh EXCEPT ![l].order = <<>>]] BY <3>4
    <3> QED BY <3>2, <3>5
  <2>2. placed = [surf |-> nf, lay |-> py] BY <2>1 DEF PutOn
  <2>3. CommitLayer(st, l) = [surf |-> nf, lay |-> ny]
    <3> HIDE DEF py, nf, placed
    <3>1. CommitLayer(st, l) = [placed EXCEPT !.lay[l].dirty = FALSE] BY <1>5, <1>7
    <3> QED BY <2>2, <3>1
  <2>4. list = ly[l].surfaces /\ list \in Seq(ss) /\ Single(list)
    BY <1>1, <1>2, <1>4 DEF LayerRecords
  <2> HIDE DEF list
  <2>5. Reverse(list) \in Seq(ss) BY <2>4, OppositeReverse
  <2>6. oy \in [Layers -> LayerRecords(ss)] BY <1>3, EmptySeq DEF LayerRecords
  <2>7. \A u \in Layers : /\ oy[u].surfaces = ly[u].surfaces /\ oy[u].dirty = ly[u].dirty
                          /\ u # l => oy[u].order = ly[u].order
    BY <1>3, <1>4 DEF LayerRecords
  <2> HIDE DEF oy
  <2>8. \A u \in Layers : oy[u].order \in Seq(ss) BY <2>6 DEF LayerRecords
  <2>9. \A u \in Layers : Keep(oy[u].order, Surfaces \ ToSet(list)) \in Seq(ss)
    BY <2>8, KeepFacts
  <2>10. py \in [Layers -> LayerRecords(ss)] BY <2>5, <2>6, <2>9 DEF LayerRecords
  <2>12. \A u \in Layers :
           /\ py[u].surfaces = ly[u].surfaces /\ py[u].dirty = ly[u].dirty
           /\ py[u].order = IF u = l THEN Reverse(list)
                            ELSE Keep(ly[u].order, Surfaces \ ToSet(list))
    BY <2>6, <2>7 DEF LayerRecords
  <2> HIDE DEF py
  <2>11. ny \in [Layers -> LayerRecords(ss)] BY <2>10 DEF LayerRecords
  <2>13. \A u \in Layers :
           /\ ny[u].surfaces = py[u].surfaces /\ ny[u].order = py[u].order
           /\ ny[u].dirty = IF u = l THEN FALSE ELSE py[u].dirty
    BY <2>10 DEF LayerRecords
  <2> HIDE DEF ny
  <2>14. of \in [Surfaces -> SurfaceRecords] BY <1>1 DEF SurfaceRecords
  <2>15. \A s \in Surfaces : of[s].on_layer =
           IF On(s, ly[l].order) THEN NULL ELSE sf[s].on_layer
    BY <1>1, <1>4 DEF SurfaceRecords
  <2> HIDE DEF of
  <2>16. nf \in [Surfaces -> SurfaceRecords] BY <2>14 DEF SurfaceRecords
  <2>17. \A s \in Surfaces : nf[s].on_layer = IF On(s, list) THEN l ELSE of[s].on_layer
    BY <2>14 DEF SurfaceRecords
  <2> HIDE DEF nf
  <2>18. Types(nf, ny, ss) BY <2>11, <2>16 DEF Types
  <2>19. Turned(sf, ly, l, nf, ny)
    BY <1>7, <2>4, <2>12, <2>13, <2>15, <2>16, <2>17 DEF Turned
  <2> QED BY <2>3, <2>18, <2>19
<1> QED BY <1>6, <1>7

LEMMA TurnKeepsScene ==
  ASSUME NEW ss \in SUBSET Surfaces, NEW sf, NEW ly, NEW gone, Scene(sf, ly, ss, gone),
         NEW l \in Layers, NEW nf, NEW ny, Types(nf, ny, ss), Turned(sf, ly, l, nf, ny)
  PROVE  Scene(nf, ny, ss, gone)
<1> DEFINE list == ly[l].surfaces
           others == Surfaces \ ToSet(list)
<1>1. \A u \in Layers : ly[u].surfaces \in Seq(ss) /\ ly[u].order \in Seq(ss)
  BY DEF Scene, Types, LayerRecords
<1>2. /\ Single(list) /\ list \in Seq(ss) /\ Singles(ly) /\ Known(sf, ly, ss, gone) /\ Quiet(ly)
  BY <1>1 DEF Scene, Singles
<1>3. CASE ~ly[l].dirty
  BY <1>2, <1>3 DEF Scene, Turned, Singles, Known, Quiet
<1>4. CASE ly[l].dirty
  <2>1. \A u \in Layers : ny[u].surfaces = ly[u].surfaces
    BY DEF Turned
  <2>2. ny[l].order = Reverse(list) /\ ny[l].dirty = FALSE BY <1>4 DEF Turned
  <2>3. \A u \in Layers : u # l =>
          ny[u].order = Keep(ly[u].order, others) /\ ny[u].dirty = ly[u].dirty
    BY <1>4 DEF Turned
  <2>4. /\ Single(ny[l].order) /\ Opposite(list, ny[l].order)
        /\ \A x : On(x, ny[l].order) <=> On(x, list)
    BY <1>2, <2>2, OppositeReverse
  <2>5. \A u \in Layers : u # l => Single(ny[u].order)
    BY <1>1, <1>2, <2>3, KeepSingle DEF Singles
  <2>6. \A u \in Layers : u # l =>
          /\ \A x : On(x, ny[u].order) <=> On(x, ly[u].order) /\ ~On(x, list)
          /\ \A x, y : Before(x, y, ny[u].order) <=>
               Before(x, y, ly[u].order) /\ ~On(x, list) /\ ~On(y, list)
    <3> TAKE u \in Layers
    <3> HAVE u # l
    <3> DEFINE a == ly[u].order
    <3>0. a \in Seq(ss) /\ ny[u].order = Keep(a, others) BY <1>1, <2>3
    <3> HIDE DEF a
    <3>5. /\ \A x : On(x, Keep(a, others)) <=> x \in others /\ On(x, a)
          /\ \A x, y : Before(x, y, Keep(a, others)) <=>
                         x \in others /\ y \in others /\ Before(x, y, a)
      BY <3>0, KeepFacts
    <3>1. /\ \A x : On(x, ny[u].order) <=> x \in others /\ On(x, ly[u].order)
          /\ \A x, y : Before(x, y, ny[u].order) <=>
                         x \in others /\ y \in others /\ Before(x, y, ly[u].order)
      BY <3>0, <3>5 DEF a
    <3>2. \A x : x \in others <=> x \in Surfaces /\ ~On(x, list) BY DEF On
    <3>3. \A x : On(x, ly[u].order) => x \in Surfaces BY <1>1, OnTypes
    <3>4. \A x, y : Before(x, y, ly[u].order) => On(x, ly[u].order) /\ On(y, ly[u].order)
      BY <1>1, BeforeOn
    <3> HIDE DEF others
    <3> QED BY <3>1, <3>2, <3>3, <3>4
  <2> HIDE DEF others
  <2>7. Singles(ny)
    BY <1>2, <2>1, <2>4, <2>5, <2>6 DEF Singles, Apart
  <2>8. Quiet(ny)
    <3> SUFFICES ASSUME NEW u \in Layers, ~ny[u].dirty PROVE Opposite(ny[u].surfaces, ny[u].order)
      BY DEF Quiet
    <3>1. CASE u = l BY <2>1, <2>4, <3>1
    <3>2. CASE u # l
      <4>1. Opposite(ly[u].surfaces, ly[u].order) BY <1>2, <2>3, <3>2 DEF Quiet
      <4>2. \A x : On(x, ly[u].surfaces) => ~On(x, list) BY <1>2, <3>2 DEF Singles, Apart
      <4> QED BY <2>1, <2>6, <3>2, <4>1, <4>2 DEF Opposite
    <3> QED BY <3>1, <3>2
  <2>9. Known(nf, ny, ss, gone)
    <3> SUFFICES ASSUME NEW s \in ss, NEW u \in Layers
                 PROVE  /\ On(s, ny[u].order) => nf[s].on_layer = u
                        /\ nf[s].on_layer = u => On(s, ny[u].order) \/ u \in gone
      BY DEF Known
    <3>1. nf[s].on_layer = IF On(s, list) THEN l
                           ELSE IF On(s, ly[l].order) THEN NULL ELSE sf[s].on_layer
      BY <1>4 DEF Turned
    <3>2. /\ On(s, ly[u].order) => sf[s].on_layer = u
          /\ sf[s].on_layer = u => On(s, ly[u].order) \/ u \in gone
          /\ On(s, ly[l].order) => sf[s].on_layer = l
      BY <1>2 DEF Known
    <3>3. NULL # u BY SceneAssumption
    <3> HIDE DEF list
    <3>4. CASE u = l BY <2>4, <3>1, <3>2, <3>3, <3>4
    <3>5. CASE u # l BY <2>6, <3>1, <3>2, <3>3, <3>5
    <3> QED BY <3>4, <3>5
  <2> QED BY <2>7, <2>8, <2>9 DEF Scene
<1> QED BY <1>3, <1>4

\* The recursion of CommitLists, from a scene st along a list of layers
IsDone(f, st, list, n) ==
  f = [m \in 0 .. n |-> IF m = 0 THEN st ELSE CommitLayer(f[m - 1], list[m])]

LEMMA DoneExists ==
  ASSUME NEW st, NEW list, NEW n \in Nat
  PROVE  \E f : IsDone(f, st, list, n)
<1> DEFINE T == {m \in Nat : \E f : IsDone(f, st, list, m)}
           D(d, b) == CommitLayer(d, list[b])
<1>1. 0 \in T
  <2> DEFINE g == [b \in 0 .. 0 |-> st]
  <2>1. IsDone(g, st, list, 0) BY DEF IsDone
  <2> QED BY <2>1
<1>2. ASSUME NEW m \in T PROVE m + 1 \in T
  <2>0. m \in Nat OBVIOUS
  <2>1. PICK g : IsDone(g, st, list, m) OBVIOUS
  <2> DEFINE h == [b \in 0 .. m + 1 |-> IF b = m + 1 THEN D(g[m], b) ELSE g[b]]
             u == [b \in 0 .. m + 1 |-> IF b = 0 THEN st ELSE D(h[b - 1], b)]
  <2> HIDE DEF D
  <2>2. \A b \in 0 .. m : g[b] = IF b = 0 THEN st ELSE D(g[b - 1], b)
    BY <2>1 DEF IsDone, D
  <2>3. \A b \in 0 .. m + 1 : h[b] = IF b = 0 THEN st ELSE D(h[b - 1], b)
    BY <2>0, <2>2
  <2>4. h = u BY <2>3
  <2>5. IsDone(h, st, list, m + 1) BY <2>4 DEF IsDone, D
  <2> QED BY <2>0, <2>5
<1> HIDE DEF T
<1>3. T \in SUBSET Nat BY DEF T
<1>4. T = Nat BY <1>1, <1>2, <1>3, Induction
<1> QED BY <1>4 DEF T

Scened(st, ss, gone) == \E sf, ly : st = [surf |-> sf, lay |-> ly] /\ Scene(sf, ly, ss, gone)

LEMMA CommitLayerKeepsScene ==
  ASSUME NEW ss \in SUBSET Surfaces, NEW gone, NEW st, Scened(st, ss, gone), NEW l \in Layers
  PROVE  Scened(CommitLayer(st, l), ss, gone)
<1>1. PICK sf, ly : st = [surf |-> sf, lay |-> ly] /\ Scene(sf, ly, ss, gone) BY DEF Scened
<1>2. Types(sf, ly, ss) /\ \A u \in Layers : Single(ly[u].surfaces)
  BY <1>1 DEF Scene, Singles
<1>3. PICK nf, ny : /\ CommitLayer(st, l) = [surf |-> nf, lay |-> ny]
                    /\ Types(nf, ny, ss) /\ Turned(sf, ly, l, nf, ny)
  BY <1>1, <1>2, TurnFacts
<1>4. Scene(nf, ny, ss, gone) BY <1>1, <1>3, TurnKeepsScene
<1> QED BY <1>3, <1>4 DEF Scened

\* What the surfaces of a scene are otherwise is no matter.
LEMMA SceneOfSame ==
  ASSUME NEW ss \in SUBSET Surfaces, NEW gone, NEW sf, NEW ly, Scene(sf, ly, ss, gone),
         NEW nf \in [Surfaces -> SurfaceRecords],
         \A s \in ss : nf[s].on_layer = sf[s].on_layer
  PROVE  Scene(nf, ly, ss, gone)
BY DEF Scene, Types, Known

LEMMA CommitListsScene ==
  ASSUME surface_list \in SUBSET Surfaces, layer_list \in Seq(Layers),
         Scene(surf, lay, surface_list, destroyed)
  PROVE  Scened(CommitLists, surface_list, destroyed)
<1> DEFINE bf == [s \in Surfaces |->
                    IF s \in surface_list THEN [surf[s] EXCEPT !.visible = surf[s].pending]
                                          ELSE surf[s]]
           begun == [surf |-> bf, lay |-> lay]
           n == Len(layer_list)
           f == CHOOSE f : IsDone(f, begun, layer_list, n)
           P(m) == Scened(f[m], surface_list, destroyed)
           T == {m \in Nat : m <= n => P(m)}
<1>1. surf \in [Surfaces -> SurfaceRecords] BY DEF Scene, Types
<1>2. bf \in [Surfaces -> SurfaceRecords] /\ \A s \in Surfaces : bf[s].on_layer = surf[s].on_layer
  BY <1>1 DEF SurfaceRecords
<1>3. n \in Nat /\ \A i \in 1 .. n : layer_list[i] \in Layers BY LenProperties, ElementOfSeq
<1>4. CommitLists = f[n] BY DEF CommitLists, IsDone
<1> HIDE DEF bf
<1>5. Scene(bf, lay, surface_list, destroyed) BY <1>2, SceneOfSame
<1>6. Scened(begun, surface_list, destroyed) BY <1>5 DEF Scened
<1> HIDE DEF begun, n
<1>7. IsDone(f, begun, layer_list, n) BY <1>3, DoneExists
<1> HIDE DEF f
<1>8. \A m \in 0 .. n : f[m] = IF m = 0 THEN begun ELSE CommitLayer(f[m - 1], layer_list[m])
  BY <1>7 DEF IsDone
<1>9. 0 \in T
  <2>1. f[0] = begun BY <1>3, <1>8
  <2> QED BY <1>6, <2>1
<1>10. \A m \in T : m + 1 \in T
  <2> SUFFICES ASSUME NEW m \in T, m + 1 <= n PROVE P(m + 1) OBVIOUS
  <2>1. m \in Nat /\ m <= n /\ m + 1 \in 1 .. n /\ m + 1 \in 0 .. n /\ (m + 1) - 1 = m
        /\ m + 1 # 0
    BY <1>3
  <2>2. P(m) BY <2>1
  <2>3. f[m + 1] = CommitLayer(f[m], layer_list[m + 1]) BY <1>8, <2>1
  <2>4. layer_list[m + 1] \in Layers BY <1>3, <2>1
  <2> QED BY <2>2, <2>3, <2>4, CommitLayerKeepsScene
<1>11. T \in SUBSET Nat OBVIOUS
<1> HIDE DEF T
<1>12. T = Nat BY <1>9, <1>10, <1>11, Induction
<1>13. P(n) BY <1>3, <1>12 DEF T
<1> QED BY <1>4, <1>13

\* What a layer has to show, and the recursion of ViewsOf
ShownOf(st, l) == IF st.lay[l].visible
                  THEN Keep(st.lay[l].order, {s \in Surfaces : st.surf[s].visible}) ELSE <<>>
IsDrawn(f, st, list, n) ==
  f = [m \in 0 .. n |-> IF m = 0 THEN <<>> ELSE f[m - 1] \o ShownOf(st, list[m])]

LEMMA DrawnExists ==
  ASSUME NEW st, NEW list, NEW n \in Nat
  PROVE  \E f : IsDrawn(f, st, list, n)
<1> DEFINE T == {m \in Nat : \E f : IsDrawn(f, st, list, m)}
           D(d, b) == d \o ShownOf(st, list[b])
<1>1. 0 \in T
  <2> DEFINE g == [b \in 0 .. 0 |-> <<>>]
  <2>1. IsDrawn(g, st, list, 0) BY DEF IsDrawn
  <2> QED BY <2>1
<1>2. ASSUME NEW m \in T PROVE m + 1 \in T
  <2>0. m \in Nat OBVIOUS
  <2>1. PICK g : IsDrawn(g, st, list, m) OBVIOUS
  <2> DEFINE h == [b \in 0 .. m + 1 |-> IF b = m + 1 THEN D(g[m], b) ELSE g[b]]
             u == [b \in 0 .. m + 1 |-> IF b = 0 THEN <<>> ELSE D(h[b - 1], b)]
  <2> HIDE DEF D
  <2>2. \A b \in 0 .. m : g[b] = IF b = 0 THEN <<>> ELSE D(g[b - 1], b)
    BY <2>1 DEF IsDrawn, D
  <2>3. \A b \in 0 .. m + 1 : h[b] = IF b = 0 THEN <<>> ELSE D(h[b - 1], b)
    BY <2>0, <2>2
  <2>4. h = u BY <2>3
  <2>5. IsDrawn(h, st, list, m + 1) BY <2>4 DEF IsDrawn, D
  <2> QED BY <2>0, <2>5
<1> HIDE DEF T
<1>3. T \in SUBSET Nat BY DEF T
<1>4. T = Nat BY <1>1, <1>2, <1>3, Induction
<1> QED BY <1>4 DEF T

\* The views are surfaces, each once: no layer is twice on the screen, and no
\* surface in two layers.
LEMMA ViewsOfSingle ==
  ASSUME NEW ss \in SUBSET Surfaces, NEW gone, NEW st, Scened(st, ss, gone),
         NEW list \in Seq(Layers), Single(list)
  PROVE  ViewsOf(st, list) \in Seq(ss) /\ Single(ViewsOf(st, list))
<1> DEFINE n == Len(list)
           f == CHOOSE f : IsDrawn(f, st, list, n)
<1>1. n \in Nat /\ \A i \in 1 .. n : list[i] \in Layers BY LenProperties, ElementOfSeq
<1>2. ViewsOf(st, list) = f[n] BY DEF ViewsOf, IsDrawn, ShownOf
<1>3. \A i, j \in 1 .. n : i < j => list[i] # list[j] BY DEF Single, Before
<1> HIDE DEF n
<1>4. IsDrawn(f, st, list, n) BY <1>1, DrawnExists
<1> HIDE DEF f
<1>5. \A m \in 0 .. n : f[m] = IF m = 0 THEN <<>> ELSE f[m - 1] \o ShownOf(st, list[m])
  BY <1>4 DEF IsDrawn
<1>6. PICK sf, ly : st = [surf |-> sf, lay |-> ly] /\ Scene(sf, ly, ss, gone) BY DEF Scened
<1>7. \A l \in Layers : ly[l].order \in Seq(ss) /\ Single(ly[l].order)
  BY <1>6 DEF Scene, Types, Singles, LayerRecords
<1>8. \A l \in Layers : /\ ShownOf(st, l) \in Seq(ss) /\ Single(ShownOf(st, l))
                        /\ \A x : On(x, ShownOf(st, l)) => On(x, ly[l].order)
  <2> TAKE l \in Layers
  <2> DEFINE V == {s \in Surfaces : st.surf[s].visible}
             u == Keep(ly[l].order, V)
  <2>1. ShownOf(st, l) = IF ly[l].visible THEN u ELSE <<>> BY <1>6 DEF ShownOf
  <2> HIDE DEF V
  <2>2. /\ u \in Seq(ss) /\ \A x : On(x, u) => On(x, ly[l].order)
        /\ \A x, y : Before(x, y, u) => Before(x, y, ly[l].order)
    BY <1>7, KeepFacts
  <2>3. Single(u) BY <1>7, <2>2 DEF Single
  <2> HIDE DEF u
  <2>4. <<>> \in Seq(ss) /\ Single(<<>>) /\ \A x : ~On(x, <<>>) BY EmptyOrder DEF Single
  <2> QED BY <2>1, <2>2, <2>3, <2>4
<1> DEFINE Q(m, x) == \E i \in 1 .. m : On(x, ly[list[i]].order)
           P(m) == /\ f[m] \in Seq(ss) /\ Single(f[m])
                   /\ \A x : On(x, f[m]) => Q(m, x)
           T == {m \in Nat : m <= n => P(m)}
<1>9. 0 \in T
  <2> DEFINE e == <<>>
  <2>1. f[0] = e BY <1>1, <1>5
  <2>2. e \in Seq(ss) /\ Single(e) /\ \A x : ~On(x, e) BY EmptyOrder DEF Single
  <2> HIDE DEF e, Q
  <2>3. P(0) BY <2>1, <2>2
  <2> QED BY <2>3
<1>10. ASSUME NEW m \in Nat, m + 1 <= n, P(m) PROVE P(m + 1)
  <2>1. m \in Nat /\ m <= n /\ m + 1 \in 1 .. n /\ m + 1 \in 0 .. n /\ (m + 1) - 1 = m
        /\ m + 1 # 0 /\ \A i \in 1 .. m : i \in 1 .. n /\ i < m + 1
    BY <1>1, <1>10
  <2> DEFINE l == list[m + 1]
             a == f[m]
             b == ShownOf(st, l)
  <2>2. P(m) BY <1>10
  <2>3. l \in Layers BY <1>1, <2>1
  <2>4. f[m + 1] = a \o b BY <1>5, <2>1
  <2>5. a \in Seq(ss) /\ Single(a) /\ \A x : On(x, a) => Q(m, x) BY <2>2
  <2>6. b \in Seq(ss) /\ Single(b) /\ \A x : On(x, b) => On(x, ly[l].order) BY <1>8, <2>3
  <2> HIDE DEF a, b
  <2>7. Apart(a, b)
    <3> SUFFICES ASSUME NEW x, On(x, a), On(x, b) PROVE FALSE BY DEF Apart
    <3>1. PICK i \in 1 .. m : On(x, ly[list[i]].order) BY <2>5
    <3>2. list[i] \in Layers /\ list[i] # l BY <1>1, <1>3, <2>1
    <3>3. On(x, ly[l].order) BY <2>6
    <3> QED BY <1>6, <2>3, <3>1, <3>2, <3>3 DEF Scene, Singles, Apart
  <2>8. /\ a \o b \in Seq(ss) /\ \A x : On(x, a \o b) <=> On(x, a) \/ On(x, b)
        /\ \A x, y : Before(x, y, a \o b) <=>
                       Before(x, y, a) \/ Before(x, y, b) \/ (On(x, a) /\ On(y, b))
    BY <2>5, <2>6, ConcatOrder
  <2>9. Single(a \o b) BY <2>5, <2>6, <2>7, <2>8 DEF Single, Apart
  <2>10. \A x : On(x, a \o b) => Q(m + 1, x)
    <3> SUFFICES ASSUME NEW x, On(x, a) \/ On(x, b) PROVE Q(m + 1, x) BY <2>8
    <3>1. CASE On(x, a)
      <4>1. PICK i \in 1 .. m : On(x, ly[list[i]].order) BY <2>5, <3>1
      <4>2. i \in 1 .. m + 1 BY <2>1
      <4> QED BY <4>1, <4>2
    <3>2. CASE On(x, b)
      <4>1. On(x, ly[list[m + 1]].order) BY <2>6, <3>2
      <4>2. m + 1 \in 1 .. m + 1 BY <2>1
      <4> QED BY <4>1, <4>2
    <3> QED BY <3>1, <3>2
  <2> QED BY <2>4, <2>8, <2>9, <2>10
<1> HIDE DEF P
<1>11. T \in SUBSET Nat /\ \A m \in T : m + 1 \in T
  <2>1. \A m \in Nat : m + 1 <= n => m <= n BY <1>1
  <2> QED BY <1>10, <2>1
<1> HIDE DEF T
<1>12. T = Nat BY <1>9, <1>11, Induction
<1>13. P(n) BY <1>1, <1>12 DEF T
<1> QED BY <1>2, <1>13 DEF P
-----------------------------------------------------------------------------
(* The links                                                               *)

Nodes == Surfaces \cup {ViewList}
Links == [Nodes -> [next : Nodes, prev : Nodes]]

SetNext(u, m, z) == [u EXCEPT ![m].next = z]
SetPrev(u, m, z) == [u EXCEPT ![m].prev = z]

LEMMA SetLink ==
  ASSUME NEW u \in Links, NEW m \in Nodes, NEW z \in Nodes
  PROVE  /\ SetNext(u, m, z) \in Links
         /\ \A x \in Nodes : /\ SetNext(u, m, z)[x].next = IF x = m THEN z ELSE u[x].next
                             /\ SetNext(u, m, z)[x].prev = u[x].prev
         /\ SetPrev(u, m, z) \in Links
         /\ \A x \in Nodes : /\ SetPrev(u, m, z)[x].prev = IF x = m THEN z ELSE u[x].prev
                             /\ SetPrev(u, m, z)[x].next = u[x].next
BY DEF Links, SetNext, SetPrev

LEMMA InsertFacts ==
  ASSUME NEW u \in Links, NEW n \in Surfaces
  PROVE  /\ InsertFront(u, n) \in Links
         /\ \A x \in Nodes :
              /\ InsertFront(u, n)[x].next =
                   IF x = ViewList THEN n ELSE IF x = n THEN u[ViewList].next ELSE u[x].next
              /\ InsertFront(u, n)[x].prev =
                   IF x = u[ViewList].next THEN n ELSE IF x = n THEN ViewList ELSE u[x].prev
<1> DEFINE first == u[ViewList].next
           a == [u EXCEPT ![n] = [next |-> first, prev |-> ViewList]]
           b == SetNext(a, ViewList, n)
           c == SetPrev(b, first, n)
<1>1. InsertFront(u, n) = c BY DEF InsertFront, SetNext, SetPrev
<1>2. n \in Nodes /\ ViewList \in Nodes /\ n # ViewList BY SceneAssumption DEF Nodes
<1>3. first \in Nodes BY <1>2 DEF Links
<1> HIDE DEF first
<1>4. /\ a \in Links
      /\ \A x \in Nodes : /\ a[x].next = IF x = n THEN first ELSE u[x].next
                          /\ a[x].prev = IF x = n THEN ViewList ELSE u[x].prev
  BY <1>2, <1>3 DEF Links
<1> HIDE DEF a
<1>5. /\ b \in Links
      /\ \A x \in Nodes : /\ b[x].next = IF x = ViewList THEN n ELSE a[x].next
                          /\ b[x].prev = a[x].prev
  BY <1>2, <1>4, SetLink
<1> HIDE DEF b
<1>6. /\ c \in Links
      /\ \A x \in Nodes : /\ c[x].next = b[x].next
                          /\ c[x].prev = IF x = first THEN n ELSE b[x].prev
  BY <1>2, <1>3, <1>5, SetLink
<1> HIDE DEF c
<1> QED BY <1>1, <1>4, <1>5, <1>6 DEF first

LEMMA UnlinkFacts ==
  ASSUME NEW u \in Links, NEW n \in Surfaces
  PROVE  /\ Unlink(u, n) \in Links
         /\ \A x \in Nodes :
              /\ Unlink(u, n)[x].next =
                   IF x = n THEN n ELSE IF x = u[n].prev THEN u[n].next ELSE u[x].next
              /\ Unlink(u, n)[x].prev =
                   IF x = n THEN n ELSE IF x = u[n].next THEN u[n].prev ELSE u[x].prev
<1> DEFINE N == u[n].next
           P == u[n].prev
           a == SetNext(u, P, N)
           b == SetPrev(a, N, P)
           c == [b EXCEPT ![n] = Unlinked(n)]
<1>1. Unlink(u, n) = c BY DEF Unlink, SetNext, SetPrev
<1>2. n \in Nodes BY DEF Nodes
<1>3. N \in Nodes /\ P \in Nodes BY <1>2 DEF Links
<1> HIDE DEF N, P
<1>4. /\ a \in Links
      /\ \A x \in Nodes : /\ a[x].next = IF x = P THEN N ELSE u[x].next
                          /\ a[x].prev = u[x].prev
  BY <1>3, SetLink
<1> HIDE DEF a
<1>5. /\ b \in Links
      /\ \A x \in Nodes : /\ b[x].next = a[x].next
                          /\ b[x].prev = IF x = N THEN P ELSE a[x].prev
  BY <1>3, <1>4, SetLink
<1> HIDE DEF b
<1>6. /\ c \in Links
      /\ \A x \in Nodes : /\ c[x].next = IF x = n THEN n ELSE b[x].next
                          /\ c[x].prev = IF x = n THEN n ELSE b[x].prev
  BY <1>2, <1>5 DEF Links, Unlinked
<1> HIDE DEF c
<1> QED BY <1>1, <1>4, <1>5, <1>6 DEF N, P

\* The nodes of the list v, around the head; the list is a ring.
At(v, i) == IF i \in 1 .. Len(v) THEN v[i] ELSE ViewList
Ring(u, v) == \A i \in 0 .. Len(v) : /\ u[At(v, i)].next = At(v, i + 1)
                                     /\ u[At(v, i + 1)].prev = At(v, i)

\* Distinct places are distinct nodes, the head apart.
LEMMA AtFacts ==
  ASSUME NEW v \in Seq(Surfaces), Single(v)
  PROVE  /\ Len(v) \in Nat
         /\ \A i \in 1 .. Len(v) : At(v, i) = v[i] /\ v[i] \in Surfaces /\ v[i] # ViewList
         /\ \A i \in Int : ~(i \in 1 .. Len(v)) => At(v, i) = ViewList
         /\ \A i \in Int : At(v, i) \in Nodes
         /\ \A i, j \in 0 .. Len(v) : At(v, i) = At(v, j) => i = j
         /\ \A i, j \in 1 .. Len(v) + 1 : At(v, i) = At(v, j) => i = j
<1> DEFINE n == Len(v)
<1>1. n \in Nat /\ \A i \in 1 .. n : v[i] \in Surfaces BY LenProperties, ElementOfSeq
<1>2. \A i \in 1 .. n : v[i] # ViewList BY <1>1, SceneAssumption
<1>3. \A i \in 1 .. n : At(v, i) = v[i] BY DEF At
<1>4. \A i \in Int : ~(i \in 1 .. n) => At(v, i) = ViewList BY DEF At
<1>5. \A i, j \in 1 .. n : v[i] = v[j] => i = j
  <2> SUFFICES ASSUME NEW i \in 1 .. n, NEW j \in 1 .. n, v[i] = v[j] PROVE i = j OBVIOUS
  <2>1. ~(i < j) /\ ~(j < i) BY DEF Single, Before
  <2> QED BY <1>1, <2>1
<1> HIDE DEF n
<1>6. \A i \in Int : At(v, i) \in Nodes BY <1>1, <1>3, <1>4 DEF Nodes
<1>7. \A i, j \in 0 .. n : At(v, i) = At(v, j) => i = j
  <2> TAKE i, j \in 0 .. n
  <2>1. (i = 0 \/ i \in 1 .. n) /\ (j = 0 \/ j \in 1 .. n) /\ ~(0 \in 1 .. n) BY <1>1
  <2> QED BY <1>2, <1>3, <1>4, <1>5, <2>1
<1>8. \A i, j \in 1 .. n + 1 : At(v, i) = At(v, j) => i = j
  <2> TAKE i, j \in 1 .. n + 1
  <2>1. (i = n + 1 \/ i \in 1 .. n) /\ (j = n + 1 \/ j \in 1 .. n) /\ ~(n + 1 \in 1 .. n)
        /\ n + 1 \in Int
    BY <1>1
  <2> QED BY <1>2, <1>3, <1>4, <1>5, <2>1
<1>9. \A i \in 1 .. n : At(v, i) = v[i] /\ v[i] \in Surfaces /\ v[i] # ViewList
  BY <1>1, <1>2, <1>3
<1> QED BY <1>1, <1>4, <1>6, <1>7, <1>8, <1>9 DEF n

\* The recursion of LinkViews, from the links k0
IsLinked(f, k0, list, n) ==
  f = [m \in 0 .. n |-> IF m = 0 THEN k0 ELSE InsertFront(f[m - 1], list[m])]

LEMMA LinkedExists ==
  ASSUME NEW k0, NEW list, NEW n \in Nat
  PROVE  \E f : IsLinked(f, k0, list, n)
<1> DEFINE T == {m \in Nat : \E f : IsLinked(f, k0, list, m)}
           D(d, b) == InsertFront(d, list[b])
<1>1. 0 \in T
  <2> DEFINE g == [b \in 0 .. 0 |-> k0]
  <2>1. IsLinked(g, k0, list, 0) BY DEF IsLinked
  <2> QED BY <2>1
<1>2. ASSUME NEW m \in T PROVE m + 1 \in T
  <2>0. m \in Nat OBVIOUS
  <2>1. PICK g : IsLinked(g, k0, list, m) OBVIOUS
  <2> DEFINE h == [b \in 0 .. m + 1 |-> IF b = m + 1 THEN D(g[m], b) ELSE g[b]]
             u == [b \in 0 .. m + 1 |-> IF b = 0 THEN k0 ELSE D(h[b - 1], b)]
  <2> HIDE DEF D
  <2>2. \A b \in 0 .. m : g[b] = IF b = 0 THEN k0 ELSE D(g[b - 1], b)
    BY <2>1 DEF IsLinked, D
  <2>3. \A b \in 0 .. m + 1 : h[b] = IF b = 0 THEN k0 ELSE D(h[b - 1], b)
    BY <2>0, <2>2
  <2>4. h = u BY <2>3
  <2>5. IsLinked(h, k0, list, m + 1) BY <2>4 DEF IsLinked, D
  <2> QED BY <2>0, <2>5
<1> HIDE DEF T
<1>3. T \in SUBSET Nat BY DEF T
<1>4. T = Nat BY <1>1, <1>2, <1>3, Induction
<1> QED BY <1>4 DEF T

\* The first m of the list are linked behind the head, the last of them first.
Place(list, m, i) == IF i \in 1 .. m THEN list[i] ELSE ViewList
Stacked(u, list, m) ==
  /\ u \in Links
  /\ \A i \in 0 .. m : /\ u[Place(list, m, i + 1)].next = Place(list, m, i)
                       /\ u[Place(list, m, i)].prev = Place(list, m, i + 1)

LEMMA InsertStacks ==
  ASSUME NEW list \in Seq(Surfaces), Single(list), NEW m \in Nat, m + 1 <= Len(list),
         NEW u, Stacked(u, list, m)
  PROVE  Stacked(InsertFront(u, list[m + 1]), list, m + 1)
<1> DEFINE n == list[m + 1]
           r == InsertFront(u, n)
           N == Len(list)
           p(i) == Place(list, m, i)
           q(i) == Place(list, m + 1, i)
<1>1. N \in Nat /\ \A i \in 1 .. N : list[i] \in Surfaces BY LenProperties, ElementOfSeq
<1>2. \A i, j \in 1 .. N : i < j => list[i] # list[j] BY DEF Single, Before
<1> HIDE DEF N
<1>0. m + 1 <= N BY DEF N
<1>3. n \in Surfaces /\ n # ViewList /\ m + 1 \in 1 .. N BY <1>0, <1>1, SceneAssumption
<1>4. \A i \in 1 .. m : /\ i \in 1 .. N /\ list[i] \in Surfaces /\ list[i] # ViewList
                        /\ list[i] # n
  BY <1>0, <1>1, <1>2, <1>3, SceneAssumption
<1>5. \A i, j \in 1 .. m : list[i] = list[j] => i = j
  <2> TAKE i, j \in 1 .. m
  <2>1. i \in 1 .. N /\ j \in 1 .. N /\ (i < j \/ j < i \/ i = j) BY <1>0, <1>1
  <2> QED BY <1>2, <2>1
<1>6. /\ \A i \in 1 .. m : p(i) = list[i] /\ q(i) = list[i]
      /\ p(0) = ViewList /\ q(0) = ViewList /\ p(m + 1) = ViewList /\ q(m + 1) = n
      /\ q(m + 2) = ViewList
  BY DEF Place
<1>7. u \in Links /\ \A i \in 0 .. m : u[p(i + 1)].next = p(i) /\ u[p(i)].prev = p(i + 1)
  BY DEF Stacked
<1>8. u[ViewList].next = p(m) BY <1>6, <1>7
<1>9. /\ r \in Links
      /\ \A x \in Nodes :
           /\ r[x].next = IF x = ViewList THEN n ELSE IF x = n THEN p(m) ELSE u[x].next
           /\ r[x].prev = IF x = p(m) THEN n ELSE IF x = n THEN ViewList ELSE u[x].prev
  BY <1>3, <1>7, <1>8, InsertFacts
<1>10. \A i \in 0 .. m : p(i) \in Nodes /\ q(i) = p(i) /\ p(i) # n
  <2> TAKE i \in 0 .. m
  <2>1. i = 0 \/ i \in 1 .. m OBVIOUS
  <2> QED BY <1>3, <1>4, <1>6, <2>1 DEF Nodes
<1>11. n \in Nodes /\ ViewList \in Nodes BY <1>3 DEF Nodes
<1> HIDE DEF r, n, p, q
<1>12. \A i \in 0 .. m - 1 : r[q(i + 1)].next = q(i) /\ r[q(i)].prev = q(i + 1)
  <2> TAKE i \in 0 .. m - 1
  <2>1. i \in 0 .. m /\ i + 1 \in 1 .. m /\ i + 1 \in 0 .. m /\ m \in 1 .. m OBVIOUS
  <2>2. p(i + 1) # ViewList /\ p(i + 1) # n /\ p(i + 1) \in Nodes BY <1>4, <1>6, <1>10, <2>1
  <2>3. p(i) # p(m)
    <3>1. CASE i = 0 BY <1>4, <1>6, <2>1, <3>1
    <3>2. CASE i # 0
      <4>1. i \in 1 .. m /\ i # m BY <3>2
      <4> QED BY <1>5, <1>6, <2>1, <4>1
    <3> QED BY <3>1, <3>2
  <2> QED BY <1>7, <1>9, <1>10, <2>1, <2>2, <2>3
<1>13. r[q(m + 1)].next = q(m) /\ r[q(m)].prev = q(m + 1)
  <2>1. m \in 0 .. m OBVIOUS
  <2>2. n # ViewList BY <1>3
  <2> QED BY <1>6, <1>9, <1>10, <1>11, <2>1, <2>2
<1>14. r[q(m + 2)].next = q(m + 1) /\ r[q(m + 1)].prev = q(m + 2)
  <2>1. m \in 0 .. m OBVIOUS
  <2>2. n # ViewList /\ n # p(m) BY <1>3, <1>10, <2>1
  <2> QED BY <1>6, <1>9, <1>11, <2>2
<1>15. \A i \in 0 .. m + 1 : r[q(i + 1)].next = q(i) /\ r[q(i)].prev = q(i + 1)
  <2> TAKE i \in 0 .. m + 1
  <2>1. i \in 0 .. m - 1 \/ i = m \/ i = m + 1 OBVIOUS
  <2>2. (m + 1) + 1 = m + 2 OBVIOUS
  <2>3. CASE i \in 0 .. m - 1 BY <1>12, <2>3
  <2>4. CASE i = m BY <1>13, <2>4
  <2>5. CASE i = m + 1 BY <1>14, <2>2, <2>5
  <2> QED BY <2>1, <2>3, <2>4, <2>5
<1> QED BY <1>9, <1>15 DEF Stacked, q, r, n

\* After a commit the list the compositor draws from holds the views.
LEMMA LinkViewsRing ==
  ASSUME links \in Links, NEW list \in Seq(Surfaces), Single(list)
  PROVE  LinkViews(list) \in Links /\ Ring(LinkViews(list), Reverse(list))
<1> DEFINE n == Len(list)
           k0 == ClearViews
           f == CHOOSE f : IsLinked(f, k0, list, n)
           P(m) == Stacked(f[m], list, m)
           T == {m \in Nat : m <= n => P(m)}
<1>1. n \in Nat BY LenProperties
<1>2. LinkViews(list) = f[n] BY DEF LinkViews, IsLinked
<1> HIDE DEF k0
<1>3. IsLinked(f, k0, list, n) BY <1>1, LinkedExists
<1> HIDE DEF f
<1>4. \A m \in 0 .. n : f[m] = IF m = 0 THEN k0 ELSE InsertFront(f[m - 1], list[m])
  BY <1>3 DEF IsLinked
<1>5. P(0)
  <2>1. ViewList \in Nodes BY DEF Nodes
  <2>2. k0 \in Links /\ k0[ViewList].next = ViewList /\ k0[ViewList].prev = ViewList
    BY <2>1 DEF k0, ClearViews, Links, Unlinked
  <2>3. f[0] = k0 BY <1>1, <1>4
  <2>4. \A i : Place(list, 0, i) = ViewList BY DEF Place
  <2> QED BY <2>2, <2>3, <2>4 DEF Stacked
<1>6. ASSUME NEW m \in Nat, m + 1 <= n, P(m) PROVE P(m + 1)
  <2>1. m + 1 \in 0 .. n /\ m + 1 # 0 /\ (m + 1) - 1 = m BY <1>1, <1>6
  <2>2. f[m + 1] = InsertFront(f[m], list[m + 1]) BY <1>4, <2>1
  <2> QED BY <1>6, <2>2, InsertStacks
<1> HIDE DEF P
<1>7. 0 \in T BY <1>5
<1>8. T \in SUBSET Nat /\ \A m \in T : m + 1 \in T
  <2>1. \A m \in Nat : m + 1 <= n => m <= n BY <1>1
  <2> QED BY <1>6, <2>1
<1> HIDE DEF T
<1>9. T = Nat BY <1>7, <1>8, Induction
<1>10. Stacked(f[n], list, n) BY <1>1, <1>9 DEF T, P
<1> DEFINE v == Reverse(list)
           u == f[n]
<1>11. v \in Seq(Surfaces) /\ Len(v) = n /\ \A i \in 1 .. n : v[i] = list[n - i + 1]
  BY ReverseOrder
<1> HIDE DEF v, u, n
<1>12. \A i \in 0 .. n + 1 : At(v, i) = Place(list, n, n - i + 1)
  <2> TAKE i \in 0 .. n + 1
  <2>1. n - i + 1 \in 0 .. n + 1 /\ (i \in 1 .. n <=> n - i + 1 \in 1 .. n) BY <1>1
  <2>2. At(v, i) = IF i \in 1 .. n THEN v[i] ELSE ViewList BY <1>11 DEF At
  <2>3. Place(list, n, n - i + 1) = IF n - i + 1 \in 1 .. n THEN list[n - i + 1] ELSE ViewList
    BY DEF Place
  <2> QED BY <1>11, <2>1, <2>2, <2>3
<1>13. \A i \in 0 .. n : u[At(v, i)].next = At(v, i + 1) /\ u[At(v, i + 1)].prev = At(v, i)
  <2> TAKE i \in 0 .. n
  <2> DEFINE j == n - i
  <2>1. /\ i \in 0 .. n + 1 /\ i + 1 \in 0 .. n + 1 /\ j \in 0 .. n
        /\ n - i + 1 = j + 1 /\ n - (i + 1) + 1 = j
    BY <1>1
  <2>2. At(v, i) = Place(list, n, j + 1) /\ At(v, i + 1) = Place(list, n, j)
    <3>1. At(v, i) = Place(list, n, n - i + 1) BY <1>12, <2>1
    <3>2. At(v, i + 1) = Place(list, n, n - (i + 1) + 1) BY <1>12, <2>1
    <3> QED BY <2>1, <3>1, <3>2
  <2> HIDE DEF j
  <2> QED BY <1>10, <2>1, <2>2 DEF Stacked, u
<1>14. Ring(u, v) BY <1>11, <1>13 DEF Ring
<1> QED BY <1>2, <1>10, <1>14 DEF Stacked, u, v, n

\* Keep, when all but the place p of the list is kept, or all of it
LEMMA KeepAllBut ==
  ASSUME NEW X, NEW list \in Seq(X), NEW S, NEW p \in Nat, p >= 1,
         \A i \in 1 .. Len(list) : list[i] \in S <=> i # p
  PROVE  /\ Len(Keep(list, S)) = IF p <= Len(list) THEN Len(list) - 1 ELSE Len(list)
         /\ \A i \in 1 .. Len(Keep(list, S)) :
              Keep(list, S)[i] = IF i < p THEN list[i] ELSE list[i + 1]
<1> DEFINE u == Len(list)
           L(n) == IF n < p THEN n ELSE n - 1
<1>1. PICK f : /\ Keep(list, S) = f[u] /\ f[0] = <<>>
               /\ \A m \in 1 .. u :
                    f[m] = IF list[m] \in S THEN Append(f[m - 1], list[m]) ELSE f[m - 1]
  BY KeepIs
<1>2. u \in Nat /\ \A i \in 1 .. u : list[i] \in X BY LenProperties, ElementOfSeq
<1> HIDE DEF u
<1>0. \A i \in 1 .. u : list[i] \in S <=> i # p BY DEF u
<1> DEFINE P(n) == /\ f[n] \in Seq(X) /\ Len(f[n]) = L(n)
                   /\ \A i \in 1 .. L(n) : f[n][i] = IF i < p THEN list[i] ELSE list[i + 1]
           T == {n \in Nat : n <= u => P(n)}
<1>3. P(0)
  <2> DEFINE e == <<>>
  <2>1. f[0] = e /\ e \in Seq(X) /\ Len(e) = 0 BY <1>1, EmptySeq
  <2>2. L(0) = 0 OBVIOUS
  <2> HIDE DEF e, L
  <2>3. \A i \in 1 .. 0 : FALSE OBVIOUS
  <2> QED BY <2>1, <2>2, <2>3
<1>4. ASSUME NEW n \in Nat, n + 1 <= u, P(n) PROVE P(n + 1)
  <2> DEFINE z == list[n + 1]
             a == f[n]
             b == f[n + 1]
  <2>1. n + 1 \in 1 .. u /\ (n + 1) - 1 = n BY <1>2, <1>4
  <2>2. z \in X BY <1>2, <2>1
  <2>3. b = IF z \in S THEN Append(a, z) ELSE a BY <1>1, <2>1
  <2>4. z \in S <=> n + 1 # p BY <1>0, <2>1
  <2>5. /\ a \in Seq(X) /\ Len(a) = L(n)
        /\ \A i \in 1 .. L(n) : a[i] = IF i < p THEN list[i] ELSE list[i + 1]
    BY <1>4
  <2>6. CASE n + 1 = p
    <3>1. b = a BY <2>3, <2>4, <2>6
    <3>2. L(n + 1) = L(n) BY <2>6
    <3> HIDE DEF a, b, L
    <3> QED BY <2>5, <3>1, <3>2 DEF b
  <2>7. CASE n + 1 # p
    <3>1. b = Append(a, z) BY <2>3, <2>4, <2>7
    <3>2. L(n) \in Nat /\ L(n + 1) = L(n) + 1 BY <2>7
    <3>3. L(n) + 1 = IF n + 1 < p THEN n + 1 ELSE n BY <2>7
    <3>4. z = IF L(n) + 1 < p THEN list[L(n) + 1] ELSE list[(L(n) + 1) + 1]
      <4>1. CASE n + 1 < p BY <3>3, <4>1
      <4>2. CASE ~(n + 1 < p) BY <2>7, <3>3, <4>2
      <4> QED BY <4>1, <4>2
    <3> HIDE DEF a, b, z, L
    <3> DEFINE m == L(n)
    <3>5. /\ b \in Seq(X) /\ Len(b) = m + 1 /\ b[m + 1] = z
          /\ \A i \in 1 .. m : b[i] = a[i]
      BY <2>2, <2>5, <3>1, AppendProperties
    <3>6. \A i \in 1 .. m + 1 : i \in 1 .. m \/ i = m + 1 BY <3>2
    <3> HIDE DEF m
    <3>7. \A i \in 1 .. m + 1 : b[i] = IF i < p THEN list[i] ELSE list[i + 1]
      BY <2>5, <3>4, <3>5, <3>6 DEF m
    <3> QED BY <3>2, <3>5, <3>7 DEF b, m
  <2> QED BY <2>6, <2>7
<1> HIDE DEF P
<1>5. 0 \in T BY <1>3
<1>6. T \in SUBSET Nat /\ \A m \in T : m + 1 \in T
  <2>1. \A m \in Nat : m + 1 <= u => m <= u BY <1>2
  <2> QED BY <1>4, <2>1
<1> HIDE DEF T
<1>7. T = Nat BY <1>5, <1>6, Induction
<1>8. P(u) BY <1>2, <1>7 DEF T
<1>9. L(u) = IF p <= u THEN u - 1 ELSE u BY <1>2
<1> QED BY <1>1, <1>8, <1>9 DEF P, u

\* A view is taken out of the list at its place.
LEMMA WithoutAt ==
  ASSUME NEW v \in Seq(Surfaces), Single(v), NEW p \in 1 .. Len(v)
  PROVE  /\ Without(v, v[p]) \in Seq(Surfaces) /\ Single(Without(v, v[p]))
         /\ Len(Without(v, v[p])) = Len(v) - 1
         /\ \A i \in 1 .. Len(v) - 1 :
              Without(v, v[p])[i] = IF i < p THEN v[i] ELSE v[i + 1]
<1> DEFINE S == ToSet(v) \ {v[p]}
           n == Len(v)
<1>1. n \in Nat /\ DOMAIN v = 1 .. n BY LenProperties
<1>2. p \in Nat /\ p >= 1 /\ p <= n BY <1>1
<1>3. \A i \in 1 .. n : v[i] \in S <=> i # p
  <2> TAKE i \in 1 .. n
  <2>1. v[i] \in ToSet(v) BY <1>1 DEF ToSet
  <2>2. i # p => v[i] # v[p]
    <3>1. ~(v[i] = v[p] /\ (i < p \/ p < i)) BY DEF Single, Before
    <3> QED BY <1>1, <1>2, <3>1
  <2> QED BY <2>1, <2>2
<1>4. Without(v, v[p]) = Keep(v, S) BY DEF Without
<1>5. Without(v, v[p]) \in Seq(Surfaces) /\ Single(Without(v, v[p]))
  BY <1>4, KeepFacts, KeepSingle
<1> HIDE DEF S
<1>6. /\ Len(Keep(v, S)) = IF p <= n THEN n - 1 ELSE n
      /\ \A i \in 1 .. Len(Keep(v, S)) : Keep(v, S)[i] = IF i < p THEN v[i] ELSE v[i + 1]
  BY <1>2, <1>3, KeepAllBut
<1> QED BY <1>2, <1>4, <1>5, <1>6

\* Nothing is taken out of a list that does not hold it.
LEMMA WithoutNone ==
  ASSUME NEW v \in Seq(Surfaces), NEW s, ~On(s, v)
  PROVE  Without(v, s) = v
<1> DEFINE S == ToSet(v) \ {s}
           n == Len(v)
           w == Without(v, s)
<1>1. n \in Nat /\ DOMAIN v = 1 .. n BY LenProperties
<1> DEFINE p == n + 1
<1>2. p \in Nat /\ p >= 1 /\ ~(p <= n) /\ \A i \in 1 .. n : i # p /\ i < p BY <1>1
<1> HIDE DEF p
<1>3. \A i \in 1 .. n : v[i] \in S <=> i # p
  <2> TAKE i \in 1 .. n
  <2>1. v[i] \in ToSet(v) BY <1>1 DEF ToSet
  <2>2. v[i] # s BY <2>1 DEF On
  <2>3. i # p BY <1>2
  <2> QED BY <2>1, <2>2, <2>3
<1>4. w = Keep(v, S) BY DEF Without
<1>5. w \in Seq(Surfaces) BY WithoutFacts
<1> HIDE DEF S
<1>6. /\ Len(Keep(v, S)) = IF p <= n THEN n - 1 ELSE n
      /\ \A i \in 1 .. Len(Keep(v, S)) : Keep(v, S)[i] = IF i < p THEN v[i] ELSE v[i + 1]
  BY <1>2, <1>3, KeepAllBut
<1> HIDE DEF w
<1>7. Len(w) = n /\ \A i \in 1 .. n : w[i] = v[i] BY <1>1, <1>2, <1>4, <1>6
<1> QED BY <1>5, <1>7, SeqEqual DEF w

\* A view that is in the list leaves it whole.
LEMMA UnlinkRing ==
  ASSUME NEW u \in Links, NEW v \in Seq(Surfaces), Single(v), Ring(u, v),
         NEW p \in 1 .. Len(v)
  PROVE  Ring(Unlink(u, v[p]), Without(v, v[p]))
<1> DEFINE n == Len(v)
           s == v[p]
           w == Without(v, s)
           r == Unlink(u, s)
           a(i) == At(v, i)
           b(i) == At(w, i)
<1>1. /\ n \in Nat
      /\ \A i \in 1 .. n : a(i) = v[i] /\ v[i] \in Surfaces /\ v[i] # ViewList
      /\ \A i \in Int : ~(i \in 1 .. n) => a(i) = ViewList
      /\ \A i \in Int : a(i) \in Nodes
      /\ \A i, j \in 0 .. n : a(i) = a(j) => i = j
      /\ \A i, j \in 1 .. n + 1 : a(i) = a(j) => i = j
  BY AtFacts
<1>2. Len(w) = n - 1 /\ \A i \in 1 .. n - 1 : w[i] = IF i < p THEN v[i] ELSE v[i + 1]
  BY WithoutAt
<1>3. s \in Surfaces BY <1>1
<1>4. \A i \in 0 .. n : u[a(i)].next = a(i + 1) /\ u[a(i + 1)].prev = a(i) BY DEF Ring
<1> HIDE DEF n, r
<1>5. n >= 1 /\ p \in Nat /\ p >= 1 /\ p <= n BY <1>1 DEF n
<1> HIDE DEF w
<1>6. \A i \in 0 .. n : b(i) = IF i < p THEN a(i) ELSE a(i + 1)
  <2> TAKE i \in 0 .. n
  <2>1. i \in Int /\ i + 1 \in Int BY <1>1
  <2>2. CASE i \in 1 .. n - 1
    <3>1. i \in 1 .. n /\ i + 1 \in 1 .. n BY <1>1, <2>2
    <3>2. b(i) = w[i] BY <1>2, <2>2 DEF At
    <3>3. w[i] = IF i < p THEN v[i] ELSE v[i + 1] BY <1>2, <2>2
    <3>4. a(i) = v[i] /\ a(i + 1) = v[i + 1] BY <1>1, <3>1
    <3> QED BY <3>2, <3>3, <3>4
  <2>3. CASE i = 0
    <3>1. b(i) = ViewList BY <1>2, <2>3 DEF At
    <3>2. i < p /\ ~(i \in 1 .. n) BY <1>5, <2>3
    <3> QED BY <1>1, <2>1, <3>1, <3>2
  <2>4. CASE i = n
    <3>1. ~(n \in 1 .. n - 1) /\ ~(n < p) /\ ~(n + 1 \in 1 .. n) BY <1>1, <1>5
    <3>2. b(i) = ViewList BY <1>2, <2>4, <3>1 DEF At
    <3>3. a(i + 1) = ViewList BY <1>1, <2>1, <2>4, <3>1
    <3> QED BY <2>4, <3>1, <3>2, <3>3
  <2>5. i \in 1 .. n - 1 \/ i = 0 \/ i = n BY <1>1
  <2> QED BY <2>2, <2>3, <2>4, <2>5
<1>7. a(p) = s /\ p \in 0 .. n /\ p - 1 \in 0 .. n /\ (p - 1) + 1 = p BY <1>1, <1>5 DEF n
<1>8. u[s].next = a(p + 1) /\ u[s].prev = a(p - 1) BY <1>4, <1>7
<1>9. \A x \in Nodes :
        /\ r[x].next = IF x = s THEN s ELSE IF x = a(p - 1) THEN a(p + 1) ELSE u[x].next
        /\ r[x].prev = IF x = s THEN s ELSE IF x = a(p + 1) THEN a(p - 1) ELSE u[x].prev
  BY <1>3, <1>8, UnlinkFacts DEF r
<1> HIDE DEF s, a, b
<1>10. ASSUME NEW i \in 0 .. n - 1
       PROVE  r[b(i)].next = b(i + 1) /\ r[b(i + 1)].prev = b(i)
  <2>1. i \in 0 .. n /\ i + 1 \in 0 .. n /\ i \in Int /\ i + 1 \in Int /\ i + 2 \in Int
        /\ (i + 1) + 1 = i + 2 /\ p + 1 \in Int /\ p - 1 \in Int
    BY <1>1, <1>5
  <2>2. CASE i = p - 1
    <3>1. i < p /\ ~(i + 1 < p) /\ i + 1 = p /\ i + 2 = p + 1 BY <1>5, <2>2
    <3>2. b(i) = a(p - 1) BY <1>6, <2>1, <2>2, <3>1
    <3>3. b(i + 1) = a(p + 1) BY <1>6, <2>1, <3>1
    <3>4. a(p - 1) # a(p)
      <4>1. p - 1 # p BY <1>5
      <4> QED BY <1>1, <1>7, <4>1
    <3>5. a(p + 1) # a(p)
      <4>1. p + 1 # p /\ p + 1 \in 1 .. n + 1 /\ p \in 1 .. n + 1 BY <1>1, <1>5
      <4> QED BY <1>1, <4>1
    <3> QED BY <1>1, <1>7, <1>9, <2>1, <3>2, <3>3, <3>4, <3>5
  <2>3. CASE i # p - 1
    <3> DEFINE j == IF i < p THEN i ELSE i + 1
    <3>1. /\ j \in 0 .. n /\ j # p /\ j # p - 1
          /\ j + 1 \in 1 .. n + 1 /\ j + 1 # p /\ j + 1 # p + 1 /\ j \in Int /\ j + 1 \in Int
          /\ p \in 1 .. n + 1 /\ p + 1 \in 1 .. n + 1
      BY <1>1, <1>5, <2>3
    <3>2. b(i) = a(j) BY <1>6, <2>1
    <3>3. b(i + 1) = a(j + 1)
      <4>1. i < p => i + 1 < p BY <1>5, <2>3
      <4>2. ~(i < p) => ~(i + 1 < p) BY <1>5
      <4> QED BY <1>6, <2>1, <4>1, <4>2
    <3> HIDE DEF j
    <3>4. a(j) # a(p) /\ a(j) # a(p - 1) BY <1>1, <1>7, <3>1
    <3>5. a(j + 1) # a(p) /\ a(j + 1) # a(p + 1) BY <1>1, <3>1
    <3>6. u[a(j)].next = a(j + 1) /\ u[a(j + 1)].prev = a(j) BY <1>4, <3>1
    <3>7. a(j) \in Nodes /\ a(j + 1) \in Nodes BY <1>1, <3>1
    <3> QED BY <1>7, <1>9, <3>2, <3>3, <3>4, <3>5, <3>6, <3>7
  <2> QED BY <2>2, <2>3
<1>11. Ring(r, w) BY <1>1, <1>2, <1>10 DEF Ring, b
<1> QED BY <1>11 DEF r, w, s

\* Unlinking a view that is not in the list, and whose links are its own,
\* changes nothing.
LEMMA UnlinkOutside ==
  ASSUME NEW u \in Links, NEW s \in Surfaces, u[s] = Unlinked(s), NEW v \in Seq(Surfaces),
         Single(v), ~On(s, v), Ring(u, v)
  PROVE  Ring(Unlink(u, s), v)
<1> DEFINE r == Unlink(u, s)
<1>1. u[s].next = s /\ u[s].prev = s BY DEF Unlinked
<1>2. \A x \in Nodes : r[x].next = u[x].next /\ r[x].prev = u[x].prev BY <1>1, UnlinkFacts
<1>3. Len(v) \in Nat /\ \A i \in Int : At(v, i) \in Nodes BY AtFacts
<1> HIDE DEF r
<1>4. \A i \in 0 .. Len(v) : At(v, i) \in Nodes /\ At(v, i + 1) \in Nodes
  <2> TAKE i \in 0 .. Len(v)
  <2>1. i \in Int /\ i + 1 \in Int BY <1>3
  <2> QED BY <1>3, <2>1
<1>5. Ring(r, v) BY <1>2, <1>4 DEF Ring
<1> QED BY <1>5 DEF r
-----------------------------------------------------------------------------
(* How the calls change a scene                                            *)

LEMMA SeqIn ==
  ASSUME NEW X, NEW Y, X \subseteq Y, NEW a \in Seq(X)
  PROVE  a \in Seq(Y)
BY OnTypes, SeqOfFewer

LEMMA SingleInjective ==
  ASSUME NEW X, NEW a \in Seq(X)
  PROVE  IsInjective(a) <=> Single(a)
BY InjectiveIs DEF Single

\* SetToSeqs: the orders of a finite set
LEMMA OrdersOf ==
  ASSUME NEW S, IsFiniteSet(S), NEW list \in SetToSeqs(S)
  PROVE  list \in Seq(S) /\ Single(list) /\ \A x \in S : On(x, list)
<1> DEFINE n == Cardinality(S)
           D == 1 .. n
<1>1. n \in Nat BY FS_CardinalityType
<1>2. /\ list \in [1 .. n -> S]
      /\ \A i, j \in 1 .. n : i # j => list[i] # list[j]
  BY DEF SetToSeqs
<1>0. n = Cardinality(S) OBVIOUS
<1> HIDE DEF n
<1>3. list \in Seq(S) /\ DOMAIN list = 1 .. n BY <1>1, <1>2, SeqDef
<1>4. IsInjective(list) BY <1>2, <1>3 DEF IsInjective
<1>5. list \in Injection(D, S) BY <1>2, <1>3, <1>4 DEF Injection
<1>6. Cardinality(D) = n BY <1>1, FS_Interval
<1> HIDE DEF D
<1>7. list \in Surjection(D, S) BY <1>0, <1>5, <1>6, FS_Injection
<1>8. \A x \in S : On(x, list) BY <1>3, <1>7 DEF Surjection, On, ToSet, D
<1> QED BY <1>3, <1>4, <1>8, SingleInjective

LEMMA SceneOfSameLists ==
  ASSUME NEW ss, NEW gone, NEW sf, NEW ly, Scene(sf, ly, ss, gone),
         NEW ny \in [Layers -> LayerRecords(ss)],
         \A u \in Layers : /\ ny[u].surfaces = ly[u].surfaces /\ ny[u].order = ly[u].order
                           /\ ny[u].dirty = ly[u].dirty
  PROVE  Scene(sf, ny, ss, gone)
BY DEF Scene, Types, Known, Singles, Quiet

\* A layer is made or destroyed: nothing is on it.
LEMMA EmptyLayerScene ==
  ASSUME NEW ss, NEW gone, NEW sf, NEW ly, Scene(sf, ly, ss, gone), NEW l \in Layers,
         NEW more, gone \subseteq more, l \in more
  PROVE  Scene(sf, [ly EXCEPT ![l] = NewLayer], ss, more)
<1> DEFINE ny == [ly EXCEPT ![l] = NewLayer]
           e == <<>>
<1>1. /\ e \in Seq(ss) /\ \A x : ~On(x, e) /\ \A y : ~Before(x, y, e) BY EmptyOrder
<1>2. /\ NewLayer.surfaces = e /\ NewLayer.order = e /\ NewLayer \in LayerRecords(ss)
  BY <1>1 DEF NewLayer, LayerRecords
<1> HIDE DEF e
<1>3. sf \in [Surfaces -> SurfaceRecords] /\ ly \in [Layers -> LayerRecords(ss)]
      /\ Singles(ly) /\ Known(sf, ly, ss, gone) /\ Quiet(ly)
  BY DEF Scene, Types
<1>4. /\ ny \in [Layers -> LayerRecords(ss)] /\ ny[l] = NewLayer
      /\ \A u \in Layers : u # l => ny[u] = ly[u]
  BY <1>2, <1>3
<1> HIDE DEF ny
<1>5. Types(sf, ny, ss) BY <1>3, <1>4 DEF Types
<1>6. Single(e) /\ \A a : Opposite(e, a) /\ Apart(e, a) /\ Apart(a, e)
  BY <1>1 DEF Single, Opposite, Apart
<1>7. Singles(ny) BY <1>2, <1>3, <1>4, <1>6 DEF Singles
<1>8. Quiet(ny) BY <1>2, <1>3, <1>4, <1>6 DEF Quiet
<1>9. Known(sf, ny, ss, more)
  <2> SUFFICES ASSUME NEW s \in ss, NEW u \in Layers
               PROVE  /\ On(s, ny[u].order) => sf[s].on_layer = u
                      /\ sf[s].on_layer = u => On(s, ny[u].order) \/ u \in more
    BY DEF Known
  <2>1. /\ On(s, ly[u].order) => sf[s].on_layer = u
        /\ sf[s].on_layer = u => On(s, ly[u].order) \/ u \in gone
    BY <1>3 DEF Known
  <2> QED BY <1>1, <1>2, <1>4, <2>1
<1> QED BY <1>5, <1>7, <1>8, <1>9 DEF Scene, ny

\* What is pending changes: a dirty layer gets some of what the others lose.
Pended(ly, ny, l) ==
  /\ \A u \in Layers : ny[u].order = ly[u].order
  /\ ny[l].dirty /\ Single(ny[l].surfaces)
  /\ \A u \in Layers : u # l =>
       /\ ny[u].dirty = ly[u].dirty
       /\ \A x : On(x, ny[u].surfaces) => On(x, ly[u].surfaces) /\ ~On(x, ny[l].surfaces)
       /\ \A x, y : Before(x, y, ny[u].surfaces) <=>
            Before(x, y, ly[u].surfaces) /\ On(x, ny[u].surfaces) /\ On(y, ny[u].surfaces)

LEMMA PendingScene ==
  ASSUME NEW ss, NEW gone, NEW sf, NEW ly, Scene(sf, ly, ss, gone), NEW l \in Layers,
         NEW ny \in [Layers -> LayerRecords(ss)], Pended(ly, ny, l)
  PROVE  Scene(sf, ny, ss, gone)
<1>1. sf \in [Surfaces -> SurfaceRecords]
      /\ Singles(ly) /\ Known(sf, ly, ss, gone) /\ Quiet(ly)
  BY DEF Scene, Types
<1>2. Types(sf, ny, ss) BY <1>1 DEF Types
<1>3. Known(sf, ny, ss, gone) BY <1>1 DEF Known, Pended
<1>4. Singles(ny) BY <1>1 DEF Singles, Single, Apart, Pended
<1>5. Quiet(ny)
  <2> SUFFICES ASSUME NEW u \in Layers, ~ny[u].dirty PROVE Opposite(ny[u].surfaces, ny[u].order)
    BY DEF Quiet
  <2>1. u # l /\ ~ly[u].dirty BY DEF Pended
  <2>2. Opposite(ly[u].surfaces, ly[u].order) BY <1>1, <2>1 DEF Quiet
  <2> QED BY <2>1, <2>2 DEF Opposite, Pended
<1> QED BY <1>2, <1>3, <1>4, <1>5 DEF Scene

LEMMA SurfaceGone ==
  ASSUME NEW ss \in SUBSET Surfaces, NEW gone, NEW sf, NEW ly, Scene(sf, ly, ss, gone),
         NEW s \in Surfaces,
         NEW nf \in [Surfaces -> SurfaceRecords], \A t \in Surfaces : t # s => nf[t] = sf[t],
         NEW ny \in [Layers -> LayerRecords(ss)],
         \A u \in Layers : /\ ny[u].surfaces = Without(ly[u].surfaces, s)
                           /\ ny[u].order = Without(ly[u].order, s)
                           /\ ny[u].dirty = ly[u].dirty
  PROVE  Scene(nf, ny, ss \ {s}, gone)
<1> DEFINE tt == ss \ {s}
<1>1. sf \in [Surfaces -> SurfaceRecords] /\ ly \in [Layers -> LayerRecords(ss)]
      /\ Singles(ly) /\ Known(sf, ly, ss, gone) /\ Quiet(ly)
  BY DEF Scene, Types
<1>2. \A u \in Layers : ly[u].surfaces \in Seq(ss) /\ ly[u].order \in Seq(ss)
  BY <1>1 DEF LayerRecords
<1>3. \A u \in Layers :
        /\ ny[u].surfaces \in Seq(tt) /\ ny[u].order \in Seq(tt)
        /\ \A x : /\ On(x, ny[u].surfaces) <=> x # s /\ On(x, ly[u].surfaces)
                  /\ On(x, ny[u].order) <=> x # s /\ On(x, ly[u].order)
        /\ \A x, y : /\ Before(x, y, ny[u].surfaces) <=>
                          x # s /\ y # s /\ Before(x, y, ly[u].surfaces)
                     /\ Before(x, y, ny[u].order) <=> x # s /\ y # s /\ Before(x, y, ly[u].order)
  <2> TAKE u \in Layers
  <2> DEFINE a == ly[u].surfaces
             b == ly[u].order
  <2>1. a \in Seq(ss) /\ b \in Seq(ss) BY <1>2
  <2>2. ny[u].surfaces = Without(a, s) /\ ny[u].order = Without(b, s) OBVIOUS
  <2> HIDE DEF a, b
  <2>3. /\ ny[u].surfaces \in Seq(tt)
        /\ \A x : On(x, ny[u].surfaces) <=> x # s /\ On(x, a)
        /\ \A x, y : Before(x, y, ny[u].surfaces) <=> x # s /\ y # s /\ Before(x, y, a)
    BY <2>1, <2>2, WithoutFacts
  <2>4. /\ ny[u].order \in Seq(tt)
        /\ \A x : On(x, ny[u].order) <=> x # s /\ On(x, b)
        /\ \A x, y : Before(x, y, ny[u].order) <=> x # s /\ y # s /\ Before(x, y, b)
    BY <2>1, <2>2, WithoutFacts
  <2> QED BY <2>3, <2>4 DEF a, b
<1>4. ny \in [Layers -> LayerRecords(tt)]
  <2>1. \A u \in Layers : ny[u] \in LayerRecords(tt) BY <1>3 DEF LayerRecords
  <2> QED BY <2>1
<1>5. Types(nf, ny, tt) BY <1>4 DEF Types
<1>6. Singles(ny) BY <1>1, <1>3 DEF Singles, Single, Apart
<1>7. Quiet(ny)
  <2> SUFFICES ASSUME NEW u \in Layers, ~ny[u].dirty PROVE Opposite(ny[u].surfaces, ny[u].order)
    BY DEF Quiet
  <2>1. Opposite(ly[u].surfaces, ly[u].order) BY <1>1 DEF Quiet
  <2> QED BY <1>3, <2>1 DEF Opposite
<1>8. Known(nf, ny, tt, gone)
  <2> SUFFICES ASSUME NEW t \in tt, NEW u \in Layers
               PROVE  /\ On(t, ny[u].order) => nf[t].on_layer = u
                      /\ nf[t].on_layer = u => On(t, ny[u].order) \/ u \in gone
    BY DEF Known
  <2>1. t \in ss /\ t # s /\ nf[t] = sf[t] OBVIOUS
  <2>2. /\ On(t, ly[u].order) => sf[t].on_layer = u
        /\ sf[t].on_layer = u => On(t, ly[u].order) \/ u \in gone
    BY <1>1, <2>1 DEF Known
  <2>3. On(t, ny[u].order) <=> t # s /\ On(t, ly[u].order) BY <1>3
  <2> QED BY <2>1, <2>2, <2>3
<1> QED BY <1>5, <1>6, <1>7, <1>8 DEF Scene
-----------------------------------------------------------------------------
(* The inductive invariant                                                 *)

\* The lists of the scene: no layer is twice on the screen, and one that is
\* not in the layout was destroyed at some time.
ListsKept ==
  /\ surface_list \subseteq views /\ views \subseteq Surfaces
  /\ layer_list \in Seq(Layers)
  /\ screen \in [layers : Seq(ToSet(layer_list)), order : Seq(ToSet(layer_list)),
                 dirty : BOOLEAN]
  /\ Single(screen.layers) /\ Single(screen.order)
  /\ \A l \in Layers : On(l, layer_list) \/ l \in destroyed

\* The links are those of a ring, unless a stray view was unlinked.
LinksKept ==
  /\ links \in Links /\ view_list \in Seq(views) /\ Single(view_list) /\ stray \in BOOLEAN
  /\ ~stray => Ring(links, view_list)

SceneKept == Scene(surf, lay, surface_list, destroyed)

SceneInductive == ListsKept /\ SceneKept /\ LinksKept

LEMMA InductiveSound ==
  ASSUME SceneInductive
  PROVE  SceneSound /\ ViewListSound
<1>1. ListsKept /\ Scene(surf, lay, surface_list, destroyed) /\ LinksKept
  BY DEF SceneInductive, SceneKept
<1>2. /\ surf \in [Surfaces -> SurfaceRecords] /\ lay \in [Layers -> LayerRecords(surface_list)]
      /\ Singles(lay) /\ Known(surf, lay, surface_list, destroyed) /\ Quiet(lay)
  BY <1>1 DEF Scene, Types
<1>3. SceneTypeOK
  BY <1>1, <1>2 DEF ListsKept, LinksKept, Links, Nodes, SurfaceRecords, LayerRecords, SceneTypeOK
<1>4. \A l \in Layers : lay[l].surfaces \in Seq(surface_list) /\ lay[l].order \in Seq(surface_list)
  BY <1>2 DEF LayerRecords
<1>5. OnePlace
  <2>1. \A l \in Layers : IsInjective(lay[l].surfaces) /\ IsInjective(lay[l].order)
    BY <1>2, <1>4, SingleInjective DEF Singles
  <2>2. \A a, b : Apart(a, b) => ToSet(a) \cap ToSet(b) = {} BY DEF Apart, On
  <2> QED BY <1>2, <2>1, <2>2 DEF OnePlace, Singles
<1>6. OnLayerTrue BY <1>2 DEF OnLayerTrue, Known
<1>7. QuietLayers BY <1>2 DEF QuietLayers, Quiet, Opposite, On
<1>8. ViewListSound
  <2> SUFFICES ASSUME ~stray PROVE ViewListSound BY DEF ViewListSound
  <2>1. Ring(links, view_list) BY <1>1 DEF LinksKept
  <2> QED BY <2>1 DEF Ring, At, ViewListSound
<1> QED BY <1>3, <1>5, <1>6, <1>7, <1>8 DEF SceneSound

LEMMA SceneInitial ==
  ASSUME SceneInit
  PROVE  SceneInductive
<1> DEFINE e == <<>>
<1>1. /\ \A X : e \in Seq(X)
      /\ \A x : ~On(x, e) /\ \A y : ~Before(x, y, e)
  BY EmptyOrder
<1>2. Single(e) /\ \A a : Opposite(e, a) /\ Apart(e, a) BY <1>1 DEF Single, Opposite, Apart
<1>3. layer_list \in Seq(Layers) /\ Single(layer_list) /\ \A l \in Layers : On(l, layer_list)
  BY SceneAssumption, OrdersOf DEF SceneInit
<1>4. /\ Reverse(layer_list) \in Seq(Layers) /\ Single(Reverse(layer_list))
      /\ \A x : On(x, Reverse(layer_list)) <=> On(x, layer_list)
  BY <1>3, OppositeReverse
<1>5. ListsKept
  <2>1. \A x : On(x, layer_list) => x \in ToSet(layer_list) BY DEF On
  <2>2. layer_list \in Seq(ToSet(layer_list)) /\ Reverse(layer_list) \in Seq(ToSet(layer_list))
    BY <1>3, <1>4, <2>1, SeqOfFewer
  <2> QED BY <1>3, <1>4, <2>2 DEF ListsKept, SceneInit
<1>6. SceneKept
  <2>1. surf \in [Surfaces -> SurfaceRecords]
    BY DEF SceneInit, SurfaceRecords, NewSurface
  <2>2. e \in Seq({}) BY <1>1
  <2>3. ShownLayer \in LayerRecords({}) /\ ShownLayer.surfaces = e /\ ShownLayer.order = e
    <3>1. NewLayer \in LayerRecords({}) /\ NewLayer.surfaces = e /\ NewLayer.order = e
      BY <2>2 DEF NewLayer, LayerRecords
    <3> QED BY <3>1 DEF ShownLayer, LayerRecords
  <2>4. lay = [l \in Layers |-> ShownLayer] /\ surface_list = {} BY DEF SceneInit
  <2> HIDE DEF e
  <2>5. \A l \in Layers : lay[l].surfaces = e /\ lay[l].order = e BY <2>3, <2>4
  <2>6. lay \in [Layers -> LayerRecords(surface_list)] BY <2>3, <2>4
  <2>7. Singles(lay) /\ Quiet(lay) BY <1>2, <2>5 DEF Singles, Quiet
  <2>8. Known(surf, lay, surface_list, destroyed) BY <2>4 DEF Known
  <2> QED BY <2>1, <2>6, <2>7, <2>8 DEF SceneKept, Scene, Types
<1>7. LinksKept
  <2>1. links = [n \in Nodes |-> Unlinked(n)] /\ view_list = e /\ stray = FALSE
    BY DEF SceneInit, Nodes
  <2>2. links \in Links BY <2>1 DEF Links, Unlinked
  <2>3. e \in Seq(views) /\ Single(e) BY <1>1, <1>2
  <2>4. Len(e) = 0 OBVIOUS
  <2> HIDE DEF e
  <2>5. \A i : At(e, i) = ViewList BY <2>4 DEF At
  <2>6. links[ViewList].next = ViewList /\ links[ViewList].prev = ViewList
    BY <2>1 DEF Nodes, Unlinked
  <2>7. Ring(links, e) BY <2>5, <2>6 DEF Ring
  <2> QED BY <2>1, <2>2, <2>3, <2>7 DEF LinksKept
<1> QED BY <1>5, <1>6, <1>7 DEF SceneInductive
-----------------------------------------------------------------------------
(* The steps                                                               *)

LEMMA InductiveFacts ==
  ASSUME SceneInductive
  PROVE  /\ surface_list \in SUBSET Surfaces /\ surface_list \subseteq views
         /\ views \in SUBSET Surfaces /\ layer_list \in Seq(Layers)
         /\ \A x : On(x, layer_list) => x \in Layers
         /\ screen.layers \in Seq(ToSet(layer_list)) /\ screen.order \in Seq(ToSet(layer_list))
         /\ screen.layers \in Seq(Layers) /\ screen.order \in Seq(Layers)
         /\ screen.dirty \in BOOLEAN /\ Single(screen.layers) /\ Single(screen.order)
         /\ Scene(surf, lay, surface_list, destroyed)
         /\ surf \in [Surfaces -> SurfaceRecords] /\ lay \in [Layers -> LayerRecords(surface_list)]
         /\ \A l \in Layers : lay[l].surfaces \in Seq(surface_list) /\ Single(lay[l].surfaces)
         /\ links \in Links /\ view_list \in Seq(views) /\ view_list \in Seq(Surfaces)
         /\ Single(view_list)
<1>1. /\ surface_list \in SUBSET Surfaces /\ surface_list \subseteq views
      /\ views \in SUBSET Surfaces /\ layer_list \in Seq(Layers)
      /\ screen.layers \in Seq(ToSet(layer_list)) /\ screen.order \in Seq(ToSet(layer_list))
      /\ screen.dirty \in BOOLEAN /\ Single(screen.layers) /\ Single(screen.order)
  BY DEF SceneInductive, ListsKept
<1>2. \A x : On(x, layer_list) => x \in Layers BY <1>1, OnTypes
<1>3. ToSet(layer_list) \subseteq Layers BY <1>2 DEF On
<1>4. screen.layers \in Seq(Layers) /\ screen.order \in Seq(Layers) BY <1>1, <1>3, SeqIn
<1>5. /\ Scene(surf, lay, surface_list, destroyed)
      /\ surf \in [Surfaces -> SurfaceRecords] /\ lay \in [Layers -> LayerRecords(surface_list)]
      /\ Singles(lay)
  BY DEF SceneInductive, SceneKept, Scene, Types
<1>6. \A l \in Layers : lay[l].surfaces \in Seq(surface_list) /\ Single(lay[l].surfaces)
  BY <1>5 DEF LayerRecords, Singles
<1>7. links \in Links /\ view_list \in Seq(views) /\ Single(view_list)
  BY DEF SceneInductive, LinksKept
<1>8. view_list \in Seq(Surfaces) BY <1>1, <1>7, SeqIn
<1> QED BY <1>1, <1>2, <1>4, <1>5, <1>6, <1>7, <1>8

LEMMA SameLinks ==
  ASSUME SceneInductive, views' = views, UNCHANGED listVars
  PROVE  LinksKept'
BY DEF SceneInductive, LinksKept, listVars, Ring, At

LEMMA CommitStep ==
  ASSUME SceneInductive, CommitChanges
  PROVE  SceneInductive'
<1> DEFINE st == CommitLists
           layers == ScreenOrder
           shown == ViewsOf(st, layers)
<1>1. /\ surface_list \in SUBSET Surfaces /\ surface_list \subseteq views
      /\ views \in SUBSET Surfaces /\ layer_list \in Seq(Layers)
      /\ screen.layers \in Seq(ToSet(layer_list)) /\ screen.order \in Seq(ToSet(layer_list))
      /\ screen.layers \in Seq(Layers) /\ screen.order \in Seq(Layers)
      /\ Single(screen.layers) /\ Single(screen.order)
      /\ Scene(surf, lay, surface_list, destroyed) /\ links \in Links
  BY InductiveFacts
<1>2. Scened(st, surface_list, destroyed) BY <1>1, CommitListsScene
<1>3. /\ layers \in Seq(Layers) /\ layers \in Seq(ToSet(layer_list)) /\ Single(layers)
  BY <1>1, OppositeReverse DEF ScreenOrder
<1>4. shown \in Seq(surface_list) /\ Single(shown) BY <1>1, <1>2, <1>3, ViewsOfSingle
<1>5. /\ surf' = st.surf
      /\ lay' = [l \in Layers |-> [st.lay[l] EXCEPT !.on_screen = On(l, layers)]]
      /\ screen' = [screen EXCEPT !.order = layers, !.dirty = FALSE]
      /\ links' = LinkViews(shown) /\ view_list' = Reverse(shown) /\ stray' = FALSE
      /\ UNCHANGED <<surface_list, views, layer_list, destroyed>>
  BY DEF CommitChanges
<1> HIDE DEF st, layers, shown
<1>6. SceneKept'
  <2>1. PICK sf, ly : st = [surf |-> sf, lay |-> ly] /\ Scene(sf, ly, surface_list, destroyed)
    BY <1>2 DEF Scened
  <2>2. surf' = sf /\ lay' = [l \in Layers |-> [ly[l] EXCEPT !.on_screen = On(l, layers)]]
    BY <1>5, <2>1
  <2>3. ly \in [Layers -> LayerRecords(surface_list)] BY <2>1 DEF Scene, Types
  <2>4. \A l \in Layers : On(l, layers) \in BOOLEAN BY DEF On
  <2>5. /\ lay' \in [Layers -> LayerRecords(surface_list)]
        /\ \A u \in Layers : /\ lay'[u].surfaces = ly[u].surfaces
                             /\ lay'[u].order = ly[u].order /\ lay'[u].dirty = ly[u].dirty
    BY <2>2, <2>3, <2>4 DEF LayerRecords
  <2>6. Scene(sf, lay', surface_list, destroyed) BY <2>1, <2>5, SceneOfSameLists
  <2> QED BY <1>5, <2>2, <2>6 DEF SceneKept
<1>7. ListsKept'
  <2>1. ListsKept BY DEF SceneInductive
  <2> QED BY <1>3, <1>5, <2>1 DEF ListsKept
<1>8. LinksKept'
  <2>1. shown \in Seq(Surfaces) /\ shown \in Seq(views) BY <1>1, <1>4, SeqIn
  <2>2. Reverse(shown) \in Seq(views) /\ Single(Reverse(shown)) BY <1>4, <2>1, OppositeReverse
  <2>3. links' \in Links /\ Ring(links', view_list') BY <1>1, <1>4, <1>5, <2>1, LinkViewsRing
  <2> QED BY <1>5, <2>2, <2>3 DEF LinksKept
<1> QED BY <1>6, <1>7, <1>8 DEF SceneInductive

LEMMA ScreenOrderStep ==
  ASSUME SceneInductive, ScreenSetRenderOrder
  PROVE  SceneInductive'
<1>0. PICK ls \in SUBSET ToSet(layer_list) : \E list \in SetToSeqs(ls) :
        screen' = [screen EXCEPT !.layers = list, !.dirty = TRUE]
  BY DEF ScreenSetRenderOrder
<1>1. PICK list \in SetToSeqs(ls) : screen' = [screen EXCEPT !.layers = list, !.dirty = TRUE]
  BY <1>0
<1>2. UNCHANGED <<surface_list, views, surf, layer_list, lay, destroyed>> /\ UNCHANGED listVars
  BY DEF ScreenSetRenderOrder
<1>3. \A x : On(x, layer_list) => x \in Layers BY InductiveFacts
<1>4. ls \in SUBSET Layers BY <1>1, <1>3 DEF On
<1>5. IsFiniteSet(ls) BY <1>4, SceneAssumption, FS_Subset
<1>6. list \in Seq(ls) /\ Single(list) BY <1>1, <1>5, OrdersOf
<1>7. list \in Seq(ToSet(layer_list)) BY <1>1, <1>6, SeqIn
<1>8. ListsKept BY DEF SceneInductive
<1>9. ListsKept' BY <1>1, <1>2, <1>6, <1>7, <1>8 DEF ListsKept
<1>10. SceneKept' BY <1>2 DEF SceneInductive, SceneKept
<1> QED BY <1>2, <1>9, <1>10, SameLinks DEF SceneInductive

LEMMA ScreenAddStep ==
  ASSUME SceneInductive, NEW l \in Layers, ScreenAddLayer(l)
  PROVE  SceneInductive'
<1> DEFINE old == screen.layers
           w == Without(old, l)
           D == ToSet(layer_list)
           new == <<l>> \o w
<1>1. /\ screen' = [screen EXCEPT !.layers = new, !.dirty = TRUE] /\ l \in D
      /\ UNCHANGED <<surface_list, views, surf, layer_list, lay, destroyed>> /\ UNCHANGED listVars
  BY DEF ScreenAddLayer, On
<1>2. old \in Seq(D) /\ Single(old) BY InductiveFacts
<1>3. new \in Seq(D) /\ Single(new)
  <2> HIDE DEF D
  <2> DEFINE f == <<l>>
  <2>1. /\ w \in Seq(D) /\ \A x : On(x, w) <=> x # l /\ On(x, old)
        /\ \A x, y : Before(x, y, w) <=> x # l /\ y # l /\ Before(x, y, old)
    BY <1>2, WithoutFacts
  <2>2. f \in Seq(D) /\ \A x : (On(x, f) <=> x = l) /\ \A y : ~Before(x, y, f)
    BY <1>1, OneOrder
  <2>3. new = f \o w OBVIOUS
  <2> HIDE DEF f, w, new
  <2>4. /\ f \o w \in Seq(D)
        /\ \A x, y : Before(x, y, f \o w) <=>
                       Before(x, y, f) \/ Before(x, y, w) \/ (On(x, f) /\ On(y, w))
    BY <2>1, <2>2, ConcatOrder
  <2> QED BY <1>2, <2>1, <2>2, <2>3, <2>4 DEF Single
<1> HIDE DEF new
<1>4. ListsKept BY DEF SceneInductive
<1>5. ListsKept' BY <1>1, <1>3, <1>4 DEF ListsKept
<1>6. SceneKept' BY <1>1 DEF SceneInductive, SceneKept
<1> QED BY <1>1, <1>5, <1>6, SameLinks DEF SceneInductive

\* A step that makes another scene of the same surfaces, with the same screen
LEMMA LayersChange ==
  ASSUME SceneInductive, Scene(surf', lay', surface_list, destroyed),
         UNCHANGED <<surface_list, views, layer_list, screen, destroyed>>, UNCHANGED listVars
  PROVE  SceneInductive'
<1>1. ListsKept /\ ListsKept' BY DEF SceneInductive, ListsKept
<1>2. SceneKept' BY DEF SceneKept
<1> QED BY <1>1, <1>2, SameLinks DEF SceneInductive

LEMMA RenderOrderStep ==
  ASSUME SceneInductive, NEW l \in Layers, LayerSetRenderOrder(l)
  PROVE  SceneInductive'
<1>0. PICK ss \in SUBSET surface_list : \E list \in SetToSeqs(ss) : lay' = Pend(l, list)
  BY DEF LayerSetRenderOrder
<1>1. PICK list \in SetToSeqs(ss) : lay' = Pend(l, list) BY <1>0
<1>2. UNCHANGED <<surface_list, views, surf, layer_list, screen, destroyed>> /\ UNCHANGED listVars
  BY DEF LayerSetRenderOrder
<1>3. /\ surface_list \in SUBSET Surfaces
      /\ Scene(surf, lay, surface_list, destroyed)
      /\ lay \in [Layers -> LayerRecords(surface_list)]
      /\ \A u \in Layers : lay[u].surfaces \in Seq(surface_list)
  BY InductiveFacts
<1>4. IsFiniteSet(ss)
  <2>1. ss \in SUBSET Surfaces BY <1>3
  <2> QED BY <2>1, SceneAssumption, FS_Subset
<1>5. list \in Seq(ss) /\ Single(list) BY <1>1, <1>4, OrdersOf
<1>6. list \in Seq(surface_list) BY <1>5, SeqIn
<1> DEFINE r == Reverse(list)
           S == Surfaces \ ToSet(list)
           p(u) == Keep(lay[u].surfaces, S)
<1>7. r \in Seq(surface_list) /\ Single(r) /\ \A x : On(x, r) <=> On(x, list)
  BY <1>5, <1>6, OppositeReverse
<1>8. \A x : x \in S => ~On(x, list) BY DEF On
<1>9. lay' = [u \in Layers |->
                IF u = l THEN [lay[l] EXCEPT !.surfaces = r, !.dirty = TRUE]
                ELSE [lay[u] EXCEPT !.surfaces = p(u)]]
  BY <1>1 DEF Pend
<1> HIDE DEF r, S
<1>10. \A u \in Layers :
         /\ p(u) \in Seq(surface_list) /\ \A x : On(x, p(u)) <=> x \in S /\ On(x, lay[u].surfaces)
         /\ \A x, y : Before(x, y, p(u)) <=> x \in S /\ y \in S /\ Before(x, y, lay[u].surfaces)
  BY <1>3, KeepFacts
<1> HIDE DEF p
<1>11. /\ lay' \in [Layers -> LayerRecords(surface_list)]
       /\ lay'[l].surfaces = r /\ lay'[l].dirty
       /\ \A u \in Layers : /\ lay'[u].order = lay[u].order
                            /\ u # l => lay'[u].dirty = lay[u].dirty /\ lay'[u].surfaces = p(u)
  <2>1. \A u \in Layers : lay[u] \in LayerRecords(surface_list) BY <1>3
  <2>2. lay'[l] = [lay[l] EXCEPT !.surfaces = r, !.dirty = TRUE] BY <1>9
  <2>3. \A u \in Layers : u # l => lay'[u] = [lay[u] EXCEPT !.surfaces = p(u)] BY <1>9
  <2>4. /\ lay'[l] \in LayerRecords(surface_list)
        /\ lay'[l].surfaces = r /\ lay'[l].dirty /\ lay'[l].order = lay[l].order
    BY <1>7, <2>1, <2>2 DEF LayerRecords
  <2>5. ASSUME NEW u \in Layers, u # l
        PROVE  /\ lay'[u] \in LayerRecords(surface_list) /\ lay'[u].order = lay[u].order
               /\ lay'[u].dirty = lay[u].dirty /\ lay'[u].surfaces = p(u)
    BY <1>10, <2>1, <2>3, <2>5 DEF LayerRecords
  <2>6. lay' \in [Layers -> LayerRecords(surface_list)] BY <1>9, <2>4, <2>5
  <2> QED BY <2>4, <2>5, <2>6
<1>12. \A u \in Layers : u # l =>
         /\ lay'[u].dirty = lay[u].dirty
         /\ \A x : On(x, lay'[u].surfaces) => On(x, lay[u].surfaces) /\ ~On(x, lay'[l].surfaces)
         /\ \A x, y : Before(x, y, lay'[u].surfaces) <=>
              Before(x, y, lay[u].surfaces) /\ On(x, lay'[u].surfaces) /\ On(y, lay'[u].surfaces)
  <2> TAKE u \in Layers
  <2> HAVE u # l
  <2>1. \A x, y : Before(x, y, lay[u].surfaces) => On(x, lay[u].surfaces) /\ On(y, lay[u].surfaces)
    BY <1>3, BeforeOn
  <2>2. lay'[u].surfaces = p(u) /\ lay'[u].dirty = lay[u].dirty /\ lay'[l].surfaces = r BY <1>11
  <2>3. \A x : On(x, p(u)) => On(x, lay[u].surfaces) /\ ~On(x, r) BY <1>7, <1>8, <1>10
  <2>4. \A x, y : Before(x, y, p(u)) <=>
                    Before(x, y, lay[u].surfaces) /\ On(x, p(u)) /\ On(y, p(u))
    BY <1>10, <2>1
  <2> QED BY <2>2, <2>3, <2>4
<1>13. Pended(lay, lay', l) BY <1>7, <1>11, <1>12 DEF Pended
<1>14. Scene(surf, lay', surface_list, destroyed) BY <1>3, <1>11, <1>13, PendingScene
<1> QED BY <1>2, <1>14, LayersChange

LEMMA AddSurfaceStep ==
  ASSUME SceneInductive, NEW l \in Layers, NEW s \in Surfaces, LayerAddSurface(l, s)
  PROVE  SceneInductive'
<1> DEFINE w(u) == Without(lay[u].surfaces, s)
           f == <<s>>
           r == f \o w(l)
<1>1. s \in surface_list
      /\ lay' = [u \in Layers |->
                  IF u = l THEN [lay[l] EXCEPT !.surfaces = r, !.dirty = TRUE]
                  ELSE [lay[u] EXCEPT !.surfaces = w(u)]]
  BY DEF LayerAddSurface
<1>2. UNCHANGED <<surface_list, views, surf, layer_list, screen, destroyed>> /\ UNCHANGED listVars
  BY DEF LayerAddSurface
<1>3. /\ surface_list \in SUBSET Surfaces
      /\ Scene(surf, lay, surface_list, destroyed)
      /\ lay \in [Layers -> LayerRecords(surface_list)]
      /\ \A u \in Layers : lay[u].surfaces \in Seq(surface_list) /\ Single(lay[u].surfaces)
  BY InductiveFacts
<1>4. Singles(lay) BY <1>3 DEF Scene
<1>5. \A u \in Layers :
         /\ w(u) \in Seq(surface_list) /\ \A x : On(x, w(u)) <=> x # s /\ On(x, lay[u].surfaces)
         /\ \A x, y : Before(x, y, w(u)) <=> x # s /\ y # s /\ Before(x, y, lay[u].surfaces)
  BY <1>3, WithoutFacts
<1> HIDE DEF w, f
<1>6. f \in Seq(surface_list) /\ \A x : (On(x, f) <=> x = s) /\ \A y : ~Before(x, y, f)
  BY <1>1, OneOrder DEF f
<1>7. /\ r \in Seq(surface_list)
      /\ \A x : On(x, r) <=> On(x, f) \/ On(x, w(l))
      /\ \A x, y : Before(x, y, r) <=>
                     Before(x, y, f) \/ Before(x, y, w(l)) \/ (On(x, f) /\ On(y, w(l)))
  BY <1>5, <1>6, ConcatOrder
<1> HIDE DEF r
<1>8. Single(r) BY <1>3, <1>5, <1>6, <1>7 DEF Single
<1>11. /\ lay' \in [Layers -> LayerRecords(surface_list)]
       /\ lay'[l].surfaces = r /\ lay'[l].dirty
       /\ \A u \in Layers : /\ lay'[u].order = lay[u].order
                            /\ u # l => lay'[u].dirty = lay[u].dirty /\ lay'[u].surfaces = w(u)
  <2>1. \A u \in Layers : lay[u] \in LayerRecords(surface_list) BY <1>3
  <2>2. lay'[l] = [lay[l] EXCEPT !.surfaces = r, !.dirty = TRUE] BY <1>1
  <2>3. \A u \in Layers : u # l => lay'[u] = [lay[u] EXCEPT !.surfaces = w(u)] BY <1>1
  <2>4. /\ lay'[l] \in LayerRecords(surface_list)
        /\ lay'[l].surfaces = r /\ lay'[l].dirty /\ lay'[l].order = lay[l].order
    BY <1>7, <2>1, <2>2 DEF LayerRecords
  <2>5. ASSUME NEW u \in Layers, u # l
        PROVE  /\ lay'[u] \in LayerRecords(surface_list) /\ lay'[u].order = lay[u].order
               /\ lay'[u].dirty = lay[u].dirty /\ lay'[u].surfaces = w(u)
    BY <1>5, <2>1, <2>3, <2>5 DEF LayerRecords
  <2>6. lay' \in [Layers -> LayerRecords(surface_list)] BY <1>1, <2>4, <2>5
  <2> QED BY <2>4, <2>5, <2>6
<1>12. \A u \in Layers : u # l =>
         /\ lay'[u].dirty = lay[u].dirty
         /\ \A x : On(x, lay'[u].surfaces) => On(x, lay[u].surfaces) /\ ~On(x, lay'[l].surfaces)
         /\ \A x, y : Before(x, y, lay'[u].surfaces) <=>
              Before(x, y, lay[u].surfaces) /\ On(x, lay'[u].surfaces) /\ On(y, lay'[u].surfaces)
  <2> TAKE u \in Layers
  <2> HAVE u # l
  <2>1. \A x, y : Before(x, y, lay[u].surfaces) => On(x, lay[u].surfaces) /\ On(y, lay[u].surfaces)
    BY <1>3, BeforeOn
  <2>2. \A x : ~(On(x, lay[u].surfaces) /\ On(x, lay[l].surfaces)) BY <1>4 DEF Singles, Apart
  <2> QED BY <1>5, <1>6, <1>7, <1>11, <2>1, <2>2
<1>13. Pended(lay, lay', l) BY <1>8, <1>11, <1>12 DEF Pended
<1>14. Scene(surf, lay', surface_list, destroyed) BY <1>3, <1>11, <1>13, PendingScene
<1> QED BY <1>2, <1>14, LayersChange

LEMMA RemoveSurfaceStep ==
  ASSUME SceneInductive, NEW l \in Layers, NEW s \in Surfaces, LayerRemoveSurface(l, s)
  PROVE  SceneInductive'
<1> DEFINE w == Without(lay[l].surfaces, s)
<1>1. lay' = [lay EXCEPT ![l].surfaces = w, ![l].dirty = TRUE]
  BY DEF LayerRemoveSurface
<1>2. UNCHANGED <<surface_list, views, surf, layer_list, screen, destroyed>> /\ UNCHANGED listVars
  BY DEF LayerRemoveSurface
<1>3. /\ surface_list \in SUBSET Surfaces
      /\ Scene(surf, lay, surface_list, destroyed)
      /\ lay \in [Layers -> LayerRecords(surface_list)]
      /\ \A u \in Layers : lay[u].surfaces \in Seq(surface_list) /\ Single(lay[u].surfaces)
  BY InductiveFacts
<1>4. Singles(lay) BY <1>3 DEF Scene
<1>5. /\ w \in Seq(surface_list) /\ \A x : On(x, w) <=> x # s /\ On(x, lay[l].surfaces)
      /\ \A x, y : Before(x, y, w) <=> x # s /\ y # s /\ Before(x, y, lay[l].surfaces)
  BY <1>3, WithoutFacts
<1> HIDE DEF w
<1>8. Single(w) BY <1>3, <1>5 DEF Single
<1>11. /\ lay' \in [Layers -> LayerRecords(surface_list)]
       /\ lay'[l].surfaces = w /\ lay'[l].dirty
       /\ \A u \in Layers : /\ lay'[u].order = lay[u].order
                            /\ u # l => lay'[u].dirty = lay[u].dirty
                                        /\ lay'[u].surfaces = lay[u].surfaces
  BY <1>1, <1>3, <1>5 DEF LayerRecords
<1>12. \A u \in Layers : u # l =>
         /\ lay'[u].dirty = lay[u].dirty
         /\ \A x : On(x, lay'[u].surfaces) => On(x, lay[u].surfaces) /\ ~On(x, lay'[l].surfaces)
         /\ \A x, y : Before(x, y, lay'[u].surfaces) <=>
              Before(x, y, lay[u].surfaces) /\ On(x, lay'[u].surfaces) /\ On(y, lay'[u].surfaces)
  <2> TAKE u \in Layers
  <2> HAVE u # l
  <2>1. \A x, y : Before(x, y, lay[u].surfaces) => On(x, lay[u].surfaces) /\ On(y, lay[u].surfaces)
    BY <1>3, BeforeOn
  <2>2. \A x : ~(On(x, lay[u].surfaces) /\ On(x, lay[l].surfaces)) BY <1>4 DEF Singles, Apart
  <2> QED BY <1>5, <1>11, <2>1, <2>2
<1>13. Pended(lay, lay', l) BY <1>8, <1>11, <1>12 DEF Pended
<1>14. Scene(surf, lay', surface_list, destroyed) BY <1>3, <1>11, <1>13, PendingScene
<1> QED BY <1>2, <1>14, LayersChange

LEMMA VisibilityStep ==
  ASSUME SceneInductive,
         (\E s \in Surfaces : SurfaceSetVisibility(s)) \/ (\E l \in Layers : LayerSetVisibility(l))
  PROVE  SceneInductive'
<1>1. /\ Scene(surf, lay, surface_list, destroyed) /\ surface_list \in SUBSET Surfaces
      /\ surf \in [Surfaces -> SurfaceRecords] /\ lay \in [Layers -> LayerRecords(surface_list)]
  BY InductiveFacts
<1>2. ASSUME NEW s \in Surfaces, SurfaceSetVisibility(s) PROVE SceneInductive'
  <2>1. /\ surf' = [surf EXCEPT ![s].pending = ~@]
        /\ UNCHANGED <<surface_list, views, layer_list, lay, screen, destroyed>>
        /\ UNCHANGED listVars
    BY <1>2 DEF SurfaceSetVisibility
  <2>2. /\ surf' \in [Surfaces -> SurfaceRecords]
        /\ \A t \in Surfaces : surf'[t].on_layer = surf[t].on_layer
    BY <1>1, <2>1 DEF SurfaceRecords
  <2>3. Scene(surf', lay', surface_list, destroyed) BY <1>1, <2>1, <2>2, SceneOfSame
  <2> QED BY <2>1, <2>3, LayersChange
<1>3. ASSUME NEW l \in Layers, LayerSetVisibility(l) PROVE SceneInductive'
  <2>1. /\ lay' = [lay EXCEPT ![l].pending = ~@]
        /\ UNCHANGED <<surface_list, views, surf, layer_list, screen, destroyed>>
        /\ UNCHANGED listVars
    BY <1>3 DEF LayerSetVisibility
  <2>2. /\ lay' \in [Layers -> LayerRecords(surface_list)]
        /\ \A u \in Layers : /\ lay'[u].surfaces = lay[u].surfaces
                             /\ lay'[u].order = lay[u].order /\ lay'[u].dirty = lay[u].dirty
    BY <1>1, <2>1 DEF LayerRecords
  <2>3. Scene(surf', lay', surface_list, destroyed) BY <1>1, <2>1, <2>2, SceneOfSameLists
  <2> QED BY <2>1, <2>3, LayersChange
<1> QED BY <1>2, <1>3

LEMMA LayerCreateStep ==
  ASSUME SceneInductive, NEW l \in Layers, LayerCreate(l)
  PROVE  SceneInductive'
<1> DEFINE f == <<l>>
           new == f \o layer_list
<1>1. /\ ~On(l, layer_list) /\ layer_list' = new /\ lay' = [lay EXCEPT ![l] = NewLayer]
      /\ UNCHANGED <<surface_list, views, surf, screen, destroyed>> /\ UNCHANGED listVars
  BY DEF LayerCreate
<1>2. ListsKept /\ layer_list \in Seq(Layers) /\ Scene(surf, lay, surface_list, destroyed)
      /\ screen.layers \in Seq(ToSet(layer_list)) /\ screen.order \in Seq(ToSet(layer_list))
  BY InductiveFacts DEF SceneInductive
<1>3. l \in destroyed BY <1>1, <1>2 DEF ListsKept
<1>4. Scene(surf, lay', surface_list, destroyed) BY <1>1, <1>2, <1>3, EmptyLayerScene
<1>5. f \in Seq(Layers) BY OneOrder
<1> HIDE DEF f
<1>6. new \in Seq(Layers) /\ \A x : On(x, layer_list) => On(x, new)
  BY <1>2, <1>5, ConcatOrder
<1> HIDE DEF new
<1>7. ToSet(layer_list) \subseteq ToSet(new) BY <1>6 DEF On
<1>8. screen.layers \in Seq(ToSet(new)) /\ screen.order \in Seq(ToSet(new))
  BY <1>2, <1>7, SeqIn
<1>9. ListsKept' BY <1>1, <1>2, <1>6, <1>8 DEF ListsKept
<1>10. SceneKept' BY <1>1, <1>4 DEF SceneKept
<1> QED BY <1>1, <1>9, <1>10, SameLinks DEF SceneInductive

LEMMA LayerDestroyStep ==
  ASSUME SceneInductive, NEW l \in Layers, LayerDestroy(l)
  PROVE  SceneInductive'
<1> DEFINE w(list) == Without(list, l)
           D == ToSet(layer_list)
           E == ToSet(w(layer_list))
<1>1. /\ layer_list' = w(layer_list) /\ lay' = [lay EXCEPT ![l] = NewLayer]
      /\ screen' = [screen EXCEPT !.layers = w(screen.layers), !.order = w(screen.order)]
      /\ destroyed' = destroyed \cup {l}
      /\ UNCHANGED <<surface_list, views, surf>> /\ UNCHANGED listVars
  BY DEF LayerDestroy
<1>2. /\ ListsKept /\ layer_list \in Seq(Layers) /\ Scene(surf, lay, surface_list, destroyed)
      /\ screen.layers \in Seq(D) /\ screen.order \in Seq(D)
      /\ Single(screen.layers) /\ Single(screen.order)
  BY InductiveFacts DEF SceneInductive
<1>3. Scene(surf, [lay EXCEPT ![l] = NewLayer], surface_list, destroyed \cup {l})
  BY <1>2, EmptyLayerScene
<1>4. Scene(surf', lay', surface_list', destroyed') BY <1>1, <1>3
<1>5. w(layer_list) \in Seq(Layers) /\ \A x : On(x, w(layer_list)) <=> x # l /\ On(x, layer_list)
  BY <1>2, WithoutFacts
<1>6. \A list \in Seq(D) : Single(list) => w(list) \in Seq(E) /\ Single(w(list))
  <2> TAKE list \in Seq(D)
  <2> HAVE Single(list)
  <2>1. /\ w(list) \in Seq(D) /\ \A x : On(x, w(list)) <=> x # l /\ On(x, list)
        /\ \A x, y : Before(x, y, w(list)) <=> x # l /\ y # l /\ Before(x, y, list)
    BY WithoutFacts
  <2>2. Single(w(list)) BY <2>1 DEF Single
  <2>3. \A x : On(x, list) => x \in D BY OnTypes
  <2>4. \A x : On(x, w(list)) => x \in E BY <1>5, <2>1, <2>3 DEF On
  <2>5. w(list) \in Seq(E) BY <2>1, <2>4, SeqOfFewer
  <2> QED BY <2>2, <2>5
<1>7. /\ w(screen.layers) \in Seq(E) /\ Single(w(screen.layers))
      /\ w(screen.order) \in Seq(E) /\ Single(w(screen.order))
  BY <1>2, <1>6
<1>8. \A u \in Layers : On(u, w(layer_list)) \/ u \in destroyed'
  BY <1>1, <1>2, <1>5 DEF ListsKept
<1>9. ToSet(layer_list') = E BY <1>1
<1> HIDE DEF w, E
<1>10. ListsKept' BY <1>1, <1>2, <1>5, <1>7, <1>8, <1>9 DEF ListsKept
<1>11. SceneKept' BY <1>4 DEF SceneKept
<1> QED BY <1>1, <1>10, <1>11, SameLinks DEF SceneInductive

LEMMA SurfaceCreateStep ==
  ASSUME SceneInductive, NEW s \in Surfaces, SurfaceCreate(s)
  PROVE  SceneInductive'
<1> DEFINE tt == surface_list \cup {s}
           vv == views \cup {s}
<1>1. /\ s \notin views /\ surface_list' = tt /\ views' = vv
      /\ surf' = [surf EXCEPT ![s] = NewSurface] /\ links' = [links EXCEPT ![s] = Unlinked(s)]
      /\ UNCHANGED <<layer_list, lay, screen, view_list, stray, destroyed>>
  BY DEF SurfaceCreate
<1>2. /\ ListsKept /\ surface_list \in SUBSET Surfaces /\ surface_list \subseteq views
      /\ views \in SUBSET Surfaces
      /\ Scene(surf, lay, surface_list, destroyed)
      /\ surf \in [Surfaces -> SurfaceRecords] /\ lay \in [Layers -> LayerRecords(surface_list)]
      /\ links \in Links /\ view_list \in Seq(views) /\ view_list \in Seq(Surfaces)
      /\ Single(view_list)
  BY InductiveFacts DEF SceneInductive
<1>3. SceneKept'
  <2>1. surf' \in [Surfaces -> SurfaceRecords] /\ surf'[s].on_layer = NULL
    BY <1>1, <1>2 DEF SurfaceRecords, NewSurface
  <2>2. \A t \in surface_list : surf'[t] = surf[t] BY <1>1, <1>2
  <2>3. Seq(surface_list) \subseteq Seq(tt) BY SeqIn
  <2>4. lay \in [Layers -> LayerRecords(tt)] BY <1>2, <2>3 DEF LayerRecords
  <2>5. \A u \in Layers : ~On(s, lay[u].order)
    <3> TAKE u \in Layers
    <3>1. lay[u].order \in Seq(surface_list) /\ s \notin surface_list
      BY <1>1, <1>2 DEF LayerRecords
    <3> QED BY <3>1, OnTypes
  <2>6. NULL \notin Layers BY SceneAssumption
  <2>7. Known(surf', lay, tt, destroyed)
    <3> SUFFICES ASSUME NEW t \in tt, NEW u \in Layers
                 PROVE  /\ On(t, lay[u].order) => surf'[t].on_layer = u
                        /\ surf'[t].on_layer = u => On(t, lay[u].order) \/ u \in destroyed
      BY DEF Known
    <3>1. CASE t = s BY <2>1, <2>5, <2>6, <3>1
    <3>2. CASE t # s
      <4>1. t \in surface_list BY <3>2
      <4>2. /\ On(t, lay[u].order) => surf[t].on_layer = u
            /\ surf[t].on_layer = u => On(t, lay[u].order) \/ u \in destroyed
        BY <1>2, <4>1 DEF Scene, Known
      <4> QED BY <2>2, <4>1, <4>2
    <3> QED BY <3>1, <3>2
  <2> QED BY <1>1, <1>2, <2>1, <2>4, <2>7 DEF SceneKept, Scene, Types
<1>4. ListsKept' BY <1>1, <1>2 DEF ListsKept
<1>5. LinksKept'
  <2>1. view_list \in Seq(vv) BY <1>2, SeqIn
  <2>2. s \in Nodes /\ s # ViewList BY SceneAssumption DEF Nodes
  <2>3. links' \in Links /\ \A x \in Nodes : x # s => links'[x] = links[x]
    BY <1>1, <1>2, <2>2 DEF Links, Unlinked
  <2>4. ASSUME Ring(links, view_list) PROVE Ring(links', view_list)
    <3>1. /\ Len(view_list) \in Nat
          /\ \A i \in Int : At(view_list, i) \in Nodes
          /\ \A i \in 1 .. Len(view_list) : At(view_list, i) = view_list[i]
          /\ \A i \in Int : ~(i \in 1 .. Len(view_list)) => At(view_list, i) = ViewList
      BY <1>2, AtFacts
    <3>2. \A i \in 1 .. Len(view_list) : view_list[i] \in views BY <1>2, ElementOfSeq
    <3>3. \A i \in Int : At(view_list, i) # s BY <1>1, <2>2, <3>1, <3>2
    <3>4. \A i \in 0 .. Len(view_list) : i \in Int /\ i + 1 \in Int BY <3>1
    <3> QED BY <2>3, <2>4, <3>1, <3>3, <3>4 DEF Ring
  <2> QED BY <1>1, <1>2, <2>1, <2>3, <2>4 DEF LinksKept, SceneInductive
<1> QED BY <1>3, <1>4, <1>5 DEF SceneInductive

LEMMA SurfaceDestroyStep ==
  ASSUME SceneInductive, NEW s \in Surfaces, SurfaceDestroy(s)
  PROVE  SceneInductive'
<1> DEFINE tt == surface_list \ {s}
           p(l) == Without(lay[l].surfaces, s)
           o(l) == Without(lay[l].order, s)
<1>1. /\ surface_list' = tt
      /\ lay' = [l \in Layers |-> [lay[l] EXCEPT !.surfaces = p(l), !.order = o(l)]]
      /\ surf' = [surf EXCEPT ![s] = NewSurface]
      /\ UNCHANGED <<views, layer_list, screen, destroyed>> /\ UNCHANGED listVars
  BY DEF SurfaceDestroy
<1>2. /\ ListsKept /\ surface_list \in SUBSET Surfaces /\ surface_list \subseteq views
      /\ Scene(surf, lay, surface_list, destroyed)
      /\ surf \in [Surfaces -> SurfaceRecords] /\ lay \in [Layers -> LayerRecords(surface_list)]
  BY InductiveFacts DEF SceneInductive
<1>3. \A l \in Layers : lay[l].surfaces \in Seq(surface_list) /\ lay[l].order \in Seq(surface_list)
  BY <1>2 DEF LayerRecords
<1>4. \A l \in Layers : p(l) \in Seq(surface_list) /\ o(l) \in Seq(surface_list)
  BY <1>3, WithoutFacts
<1>5. /\ surf' \in [Surfaces -> SurfaceRecords]
      /\ \A t \in Surfaces : t # s => surf'[t] = surf[t]
  BY <1>1, <1>2 DEF SurfaceRecords, NewSurface
<1> HIDE DEF p, o
<1>6. /\ lay' \in [Layers -> LayerRecords(surface_list)]
      /\ \A u \in Layers : /\ lay'[u].surfaces = p(u) /\ lay'[u].order = o(u)
                           /\ lay'[u].dirty = lay[u].dirty
  BY <1>1, <1>2, <1>4 DEF LayerRecords
<1>7. Scene(surf', lay', tt, destroyed) BY <1>2, <1>5, <1>6, SurfaceGone DEF p, o
<1>8. SceneKept' BY <1>1, <1>7 DEF SceneKept
<1>9. ListsKept' BY <1>1, <1>2 DEF ListsKept
<1> QED BY <1>1, <1>8, <1>9, SameLinks DEF SceneInductive

\* Taking a view out of the place its links say leaves the list a ring of the
\* others, if that place is in the list or nowhere.
LEMMA EntryRemoved ==
  ASSUME SceneInductive, NEW s \in Surfaces, LayerEntryRemove(s)
  PROVE  /\ view_list' \in Seq(views \ {s}) /\ Single(view_list')
         /\ links' \in Links /\ stray' \in BOOLEAN
         /\ ~stray' => Ring(links', view_list')
<1> DEFINE vv == views \ {s}
           w == Without(view_list, s)
           r == Unlink(links, s)
<1>1. /\ links' = r /\ view_list' = w
      /\ stray' = (stray \/ (~On(s, view_list) /\ links[s] # Unlinked(s)))
  BY DEF LayerEntryRemove
<1>2. /\ LinksKept /\ links \in Links
      /\ view_list \in Seq(views) /\ view_list \in Seq(Surfaces) /\ Single(view_list)
  BY InductiveFacts DEF SceneInductive
<1>5. w \in Seq(vv) /\ Single(w)
  <2>1. /\ w \in Seq(vv)
        /\ \A x, y : Before(x, y, w) <=> x # s /\ y # s /\ Before(x, y, view_list)
    BY <1>2, WithoutFacts
  <2> QED BY <1>2, <2>1 DEF Single
<1>6. r \in Links BY <1>2, UnlinkFacts
<1>7. ASSUME ~stray' PROVE Ring(r, w)
  <2>1. Ring(links, view_list) /\ (On(s, view_list) \/ links[s] = Unlinked(s))
    BY <1>1, <1>2, <1>7 DEF LinksKept
  <2>2. CASE On(s, view_list)
    <3>1. PICK p \in 1 .. Len(view_list) : view_list[p] = s BY <1>2, <2>2, OnIsHas DEF Has
    <3> QED BY <1>2, <2>1, <3>1, UnlinkRing
  <2>3. CASE ~On(s, view_list)
    <3>1. w = view_list BY <1>2, <2>3, WithoutNone
    <3> QED BY <1>2, <2>1, <2>3, <3>1, UnlinkOutside
  <2> QED BY <2>2, <2>3
<1>8. stray' \in BOOLEAN BY <1>1, <1>2 DEF LinksKept
<1> QED BY <1>1, <1>5, <1>6, <1>7, <1>8

LEMMA ViewDestroyStep ==
  ASSUME SceneInductive, NEW s \in Surfaces, ViewDestroy(s)
  PROVE  SceneInductive'
<1>1. /\ s \notin surface_list /\ views' = views \ {s} /\ LayerEntryRemove(s)
      /\ UNCHANGED <<surface_list, surf, layer_list, lay, screen, destroyed>>
  BY DEF ViewDestroy
<1>2. SceneKept' BY <1>1 DEF SceneInductive, SceneKept
<1>3. ListsKept' BY <1>1 DEF SceneInductive, ListsKept
<1>4. LinksKept' BY <1>1, EntryRemoved DEF LinksKept
<1> QED BY <1>2, <1>3, <1>4 DEF SceneInductive

LEMMA UnmapStep ==
  ASSUME SceneInductive, NEW s \in Surfaces, Unmap(s)
  PROVE  SceneInductive'
<1>1. /\ LayerEntryRemove(s)
      /\ UNCHANGED <<surface_list, views, surf, layer_list, lay, screen, destroyed>>
  BY DEF Unmap
<1>2. SceneKept' BY <1>1 DEF SceneInductive, SceneKept
<1>3. ListsKept' BY <1>1 DEF SceneInductive, ListsKept
<1>4. LinksKept'
  <2>1. Seq(views \ {s}) \subseteq Seq(views) BY SeqIn
  <2> QED BY <1>1, <2>1, EntryRemoved DEF LinksKept
<1> QED BY <1>2, <1>3, <1>4 DEF SceneInductive

LEMMA SceneStep ==
  ASSUME SceneInductive, [SceneNext]_sceneVars
  PROVE  SceneInductive'
<1>1. CASE CommitChanges BY <1>1, CommitStep
<1>2. CASE ScreenSetRenderOrder BY <1>2, ScreenOrderStep
<1>3. ASSUME NEW l \in Layers,
             LayerCreate(l) \/ LayerDestroy(l) \/ LayerSetVisibility(l)
             \/ LayerSetRenderOrder(l) \/ ScreenAddLayer(l)
      PROVE  SceneInductive'
  BY <1>3, LayerCreateStep, LayerDestroyStep, VisibilityStep, RenderOrderStep, ScreenAddStep
<1>4. ASSUME NEW l \in Layers, NEW s \in Surfaces,
             LayerAddSurface(l, s) \/ LayerRemoveSurface(l, s)
      PROVE  SceneInductive'
  BY <1>4, AddSurfaceStep, RemoveSurfaceStep
<1>5. ASSUME NEW s \in Surfaces,
             SurfaceCreate(s) \/ SurfaceDestroy(s) \/ SurfaceSetVisibility(s) \/ ViewDestroy(s)
             \/ Unmap(s)
      PROVE  SceneInductive'
  BY <1>5, SurfaceCreateStep, SurfaceDestroyStep, VisibilityStep, ViewDestroyStep, UnmapStep
<1>6. CASE UNCHANGED sceneVars
  BY <1>6 DEF sceneVars, listVars, SceneInductive, ListsKept, SceneKept, LinksKept, Ring, At
<1> QED BY <1>1, <1>2, <1>3, <1>4, <1>5, <1>6 DEF SceneNext

\* Every reachable scene is sound, for any finite sets of surfaces and layers
\* and any number of the controller's calls: the pending and the committed
\* lists agree, whatever was destroyed and allocated again between two commits.
THEOREM SceneTheorem == SceneSpec => []SceneSound
<1>1. SceneInit => SceneInductive BY SceneInitial
<1>2. SceneInductive /\ [SceneNext]_sceneVars => SceneInductive' BY SceneStep
<1>3. SceneInductive => SceneSound BY InductiveSound
<1> QED BY <1>1, <1>2, <1>3, PTL DEF SceneSpec

\* The pointers of the list the compositor draws from stay those of a ring of
\* the views it should hold, as long as no view that a commit had left out of
\* the list was removed from where it used to be.
THEOREM ViewListTheorem == SceneSpec => []ViewListSound
<1>1. SceneInit => SceneInductive BY SceneInitial
<1>2. SceneInductive /\ [SceneNext]_sceneVars => SceneInductive' BY SceneStep
<1>3. SceneInductive => ViewListSound BY InductiveSound
<1> QED BY <1>1, <1>2, <1>3, PTL DEF SceneSpec
=============================================================================
