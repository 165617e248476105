---------------------------- MODULE Shells_proofs ----------------------------
(***************************************************************************)
(* What TLAPS proves of two shells.  Of ScreenLock, for any set of windows *)
(* and any number of deaths of the helper: its safety properties.  Every   *)
(* operator of ScreenLock on the record "shell" has a lemma that says what *)
(* it changes, and is opaque after that.                                   *)
(*                                                                         *)
(* Of IviTransition, for any places, opacities and duration and any number *)
(* of moves of the layer: its safety properties, from an invariant that    *)
(* says of every running transition where it will leave what it moves.     *)
(***************************************************************************)
EXTENDS ScreenLock, IviTransition, FiniteSetTheorems, SequenceTheorems, WellFoundedInduction,
        TLAPS

Fields ==
  {"power", "locked", "showing", "attached", "corrupt", "fade", "startup",
   "bound", "prepareSent", "lockSurface", "frame", "kfocus", "saved", "painted",
   "away", "open", "super", "switching", "current"}

\* Of the windows: which there are, what the switcher does, who waits.
Desk(s) ==
  /\ s.open \in SUBSET Windows /\ s.super \in BOOLEAN /\ s.switching \in BOOLEAN
  /\ s.away \in Windows \cup {None} /\ s.current \in Windows \cup {None}

\* The record "shell" is one, and its fields have their types.
Shaped(s) ==
  /\ DOMAIN s = Fields
  /\ DOMAIN s.fade = {"view", "animation", "type"}
  /\ s.power \in {"active", "idle", "sleeping"}
  /\ s.locked \in BOOLEAN /\ s.showing \in BOOLEAN /\ s.frame \in BOOLEAN
  /\ s.corrupt \in BOOLEAN /\ s.bound \in BOOLEAN /\ s.prepareSent \in BOOLEAN
  /\ s.fade.view \in BOOLEAN /\ s.fade.animation \in BOOLEAN
  /\ s.fade.type \in {"in", "out"}
  /\ s.attached \in SUBSET Layers /\ s.painted \in SUBSET (Layers \cup Windows)
  /\ s.startup \in {"timer", "idle", "off"}
  /\ s.lockSurface \in {"none", "set", "mapped"}
  /\ s.kfocus \in Windows \cup {None} /\ s.saved \in Windows \cup {None}
  /\ Desk(s)

\* Only the fields fs change from s to t.
OnlyOf(s, t, fs) == \A f \in Fields \ fs : t[f] = s[f]

LayersOf(s) == IF s.locked THEN {"lock"}
               ELSE {"panel", "workspace"} \cup InputPanels(s)

\* LayersTrue and FadeHasView of one record; and a fade to black that could
\* still lock the screen belongs to a compositor that is not awake.
Whole(s) ==
  /\ ~s.corrupt /\ s.attached = LayersOf(s)
  /\ s.fade.animation => s.fade.view
  /\ s.fade.view /\ ~s.fade.animation => s.startup # "off" \/ s.locked
  /\ ~s.locked /\ s.fade.animation /\ s.power = "active" => s.fade.type = "in"

\* Nobody's focus is left to a window that is gone.
Living(s) == {s.kfocus, s.saved, s.away, s.current} \subseteq s.open \cup {None}

\* The windows are the same, and of the focuses at most the keyboard's moved.
Still(s, t) == /\ t.saved = s.saved /\ t.away = s.away
               /\ t.current = s.current /\ t.open = s.open

\* What weston_compositor_build_view_list puts into the list of views.
Listed(s) == s.attached \cup IF "workspace" \in s.attached THEN s.open ELSE {}

LEMMA LivingKept ==
  ASSUME NEW s, NEW t, Living(s), Still(s, t), t.kfocus \in {s.kfocus, s.saved, None}
  PROVE  Living(t)
  BY DEF Living, Still

-----------------------------------------------------------------------------
(* Lists of layers, repaints, the fade.                                    *)

LEMMA InsertFacts ==
  ASSUME NEW s, Shaped(s), NEW ls \in SUBSET Layers
  PROVE  /\ Shaped(Insert(s, ls))
         /\ OnlyOf(s, Insert(s, ls), {"attached", "corrupt"})
         /\ Insert(s, ls).attached = s.attached \cup ls
         /\ Insert(s, ls).corrupt = (s.corrupt \/ ls \cap s.attached # {})
<1>1. DOMAIN Insert(s, ls) = Fields BY DEF Shaped, Insert
<1>2. /\ Insert(s, ls).attached = s.attached \cup ls
      /\ Insert(s, ls).corrupt = (s.corrupt \/ ls \cap s.attached # {})
  BY DEF Shaped, Insert, Fields
<1>3. \A f \in Fields \ {"attached", "corrupt"} : Insert(s, ls)[f] = s[f]
  BY DEF Shaped, Insert, Fields
<1>4. Insert(s, ls).fade = s.fade BY <1>3 DEF Fields
<1>5. Shaped(Insert(s, ls))
  <2>1. Desk(Insert(s, ls)) BY <1>3 DEF Desk, Shaped, Fields
  <2> QED BY <1>1, <1>2, <1>3, <1>4, <2>1 DEF Shaped, Fields
<1> QED BY <1>2, <1>3, <1>5 DEF OnlyOf

LEMMA DetachFacts ==
  ASSUME NEW s, Shaped(s), NEW ls \in SUBSET Layers
  PROVE  /\ Shaped(Detach(s, ls))
         /\ OnlyOf(s, Detach(s, ls), {"attached", "corrupt"})
         /\ Detach(s, ls).attached = s.attached \ ls
         /\ Detach(s, ls).corrupt = (s.corrupt \/ ~(ls \subseteq s.attached))
<1>1. DOMAIN Detach(s, ls) = Fields BY DEF Shaped, Detach
<1>2. /\ Detach(s, ls).attached = s.attached \ ls
      /\ Detach(s, ls).corrupt = (s.corrupt \/ ~(ls \subseteq s.attached))
  BY DEF Shaped, Detach, Fields
<1>3. \A f \in Fields \ {"attached", "corrupt"} : Detach(s, ls)[f] = s[f]
  BY DEF Shaped, Detach, Fields
<1>4. Detach(s, ls).fade = s.fade BY <1>3 DEF Fields
<1>5. Shaped(Detach(s, ls))
  <2>1. Desk(Detach(s, ls)) BY <1>3 DEF Desk, Shaped, Fields
  <2> QED BY <1>1, <1>2, <1>3, <1>4, <2>1 DEF Shaped, Fields
<1> QED BY <1>2, <1>3, <1>5 DEF OnlyOf

LEMMA BuildFacts ==
  ASSUME NEW s, Shaped(s)
  PROVE  /\ Shaped(BuildViewList(s))
         /\ OnlyOf(s, BuildViewList(s), {"painted"})
         /\ BuildViewList(s).painted = Listed(s)
<1>1. DOMAIN BuildViewList(s) = Fields BY DEF Shaped, BuildViewList
<1>2. /\ BuildViewList(s).painted = Listed(s)
      /\ Listed(s) \in SUBSET (Layers \cup Windows)
  <2>1. BuildViewList(s).painted = Listed(s)
    BY DEF Shaped, BuildViewList, Listed, Fields
  <2>2. s.attached \in SUBSET Layers /\ s.open \in SUBSET Windows
    BY DEF Shaped, Desk
  <2> QED BY <2>1, <2>2 DEF Listed
<1>3. \A f \in Fields \ {"painted"} : BuildViewList(s)[f] = s[f]
  BY DEF Shaped, BuildViewList, Fields
<1>4. BuildViewList(s).fade = s.fade BY <1>3 DEF Fields
<1>5. Shaped(BuildViewList(s))
  <2>1. Desk(BuildViewList(s)) BY <1>3 DEF Desk, Shaped, Fields
  <2> QED BY <1>1, <1>2, <1>3, <1>4, <2>1 DEF Shaped, Fields
<1> QED BY <1>2, <1>3, <1>5 DEF OnlyOf

LEMMA ScheduleFacts ==
  ASSUME NEW s, Shaped(s)
  PROVE  /\ Shaped(ScheduleRepaint(s))
         /\ OnlyOf(s, ScheduleRepaint(s), {"frame"})
<1>1. DOMAIN ScheduleRepaint(s) = Fields BY DEF Shaped, ScheduleRepaint
<1>2. ScheduleRepaint(s).frame \in BOOLEAN
  BY DEF Shaped, ScheduleRepaint, Fields
<1>3. \A f \in Fields \ {"frame"} : ScheduleRepaint(s)[f] = s[f]
  BY DEF Shaped, ScheduleRepaint, Fields
<1>4. ScheduleRepaint(s).fade = s.fade BY <1>3 DEF Fields
<1>5. Shaped(ScheduleRepaint(s))
  <2>1. Desk(ScheduleRepaint(s)) BY <1>3 DEF Desk, Shaped, Fields
  <2> QED BY <1>1, <1>2, <1>3, <1>4, <2>1 DEF Shaped, Fields
<1> QED BY <1>3, <1>5 DEF OnlyOf

LEMMA OnlyTrans ==
  ASSUME NEW s, NEW t, NEW u, NEW a, NEW b, NEW c,
         OnlyOf(s, t, a), OnlyOf(t, u, b), a \subseteq c, b \subseteq c
  PROVE  OnlyOf(s, u, c)
  BY DEF OnlyOf

\* A change of one field of the record to a value of its type.
LEMMA SetFacts ==
  ASSUME NEW s, Shaped(s), NEW f \in Fields, NEW v
  PROVE  /\ DOMAIN [s EXCEPT ![f] = v] = Fields
         /\ [s EXCEPT ![f] = v][f] = v
         /\ OnlyOf(s, [s EXCEPT ![f] = v], {f})
  BY DEF Shaped, OnlyOf

\* A change of one field keeps the others' types.
LEMMA PowerShaped ==
  ASSUME NEW s, Shaped(s), NEW t, DOMAIN t = Fields, OnlyOf(s, t, {"power"}),
         t.power \in {"active", "idle", "sleeping"}
  PROVE  Shaped(t)
<1>1. /\ t.locked = s.locked /\ t.showing = s.showing /\ t.attached = s.attached
      /\ t.corrupt = s.corrupt /\ t.fade = s.fade /\ t.startup = s.startup
      /\ t.bound = s.bound /\ t.prepareSent = s.prepareSent /\ t.lockSurface = s.lockSurface
      /\ t.frame = s.frame /\ t.kfocus = s.kfocus /\ t.saved = s.saved
      /\ t.painted = s.painted
  BY DEF OnlyOf, Fields
<1>2. Desk(t) BY DEF Desk, Shaped, OnlyOf, Fields
<1> QED BY <1>1, <1>2 DEF Shaped

\* As above, for the fade of the start-up.
LEMMA StartupShaped ==
  ASSUME NEW s, Shaped(s), NEW t, DOMAIN t = Fields, OnlyOf(s, t, {"startup"}),
         t.startup \in {"timer", "idle", "off"}
  PROVE  Shaped(t)
<1>1. /\ t.power = s.power /\ t.locked = s.locked /\ t.showing = s.showing
      /\ t.attached = s.attached /\ t.corrupt = s.corrupt /\ t.fade = s.fade
      /\ t.bound = s.bound /\ t.prepareSent = s.prepareSent /\ t.lockSurface = s.lockSurface
      /\ t.frame = s.frame /\ t.kfocus = s.kfocus /\ t.saved = s.saved
      /\ t.painted = s.painted
  BY DEF OnlyOf, Fields
<1>2. Desk(t) BY DEF Desk, Shaped, OnlyOf, Fields
<1> QED BY <1>1, <1>2 DEF Shaped

\* As above, for the input panels.
LEMMA ShowingShaped ==
  ASSUME NEW s, Shaped(s), NEW t, DOMAIN t = Fields, OnlyOf(s, t, {"showing"}),
         t.showing \in BOOLEAN
  PROVE  Shaped(t)
<1>1. /\ t.power = s.power /\ t.locked = s.locked /\ t.attached = s.attached
      /\ t.corrupt = s.corrupt /\ t.fade = s.fade /\ t.startup = s.startup
      /\ t.bound = s.bound /\ t.prepareSent = s.prepareSent /\ t.lockSurface = s.lockSurface
      /\ t.frame = s.frame /\ t.kfocus = s.kfocus /\ t.saved = s.saved
      /\ t.painted = s.painted
  BY DEF OnlyOf, Fields
<1>2. Desk(t) BY DEF Desk, Shaped, OnlyOf, Fields
<1> QED BY <1>1, <1>2 DEF Shaped

\* As above, for the request to the client to lock.
LEMMA PrepareShaped ==
  ASSUME NEW s, Shaped(s), NEW t, DOMAIN t = Fields, OnlyOf(s, t, {"prepareSent"}),
         t.prepareSent \in BOOLEAN
  PROVE  Shaped(t)
<1>1. /\ t.power = s.power /\ t.locked = s.locked /\ t.showing = s.showing
      /\ t.attached = s.attached /\ t.corrupt = s.corrupt /\ t.fade = s.fade
      /\ t.startup = s.startup /\ t.bound = s.bound /\ t.lockSurface = s.lockSurface
      /\ t.frame = s.frame /\ t.kfocus = s.kfocus /\ t.saved = s.saved
      /\ t.painted = s.painted
  BY DEF OnlyOf, Fields
<1>2. Desk(t) BY DEF Desk, Shaped, OnlyOf, Fields
<1> QED BY <1>1, <1>2 DEF Shaped

\* As above, for the fade.
LEMMA FadeShaped ==
  ASSUME NEW s, Shaped(s), NEW t, DOMAIN t = Fields, OnlyOf(s, t, {"fade"}),
         DOMAIN t.fade = {"view", "animation", "type"},
         t.fade.view \in BOOLEAN, t.fade.animation \in BOOLEAN,
         t.fade.type \in {"in", "out"}
  PROVE  Shaped(t)
<1>1. /\ t.power = s.power /\ t.locked = s.locked /\ t.showing = s.showing
      /\ t.attached = s.attached /\ t.corrupt = s.corrupt /\ t.startup = s.startup
      /\ t.bound = s.bound /\ t.prepareSent = s.prepareSent /\ t.lockSurface = s.lockSurface
      /\ t.frame = s.frame /\ t.kfocus = s.kfocus /\ t.saved = s.saved
      /\ t.painted = s.painted
  BY DEF OnlyOf, Fields
<1>2. Desk(t) BY DEF Desk, Shaped, OnlyOf, Fields
<1> QED BY <1>1, <1>2 DEF Shaped

LEMMA FadeFacts ==
  ASSUME NEW s, Shaped(s), NEW type \in {"in", "out"}
  PROVE  /\ Shaped(ShellFade(s, type))
         /\ OnlyOf(s, ShellFade(s, type), {"fade", "frame"})
         /\ ShellFade(s, type).fade.animation
         /\ ShellFade(s, type).fade.type = type
         /\ (s.fade.animation => s.fade.view) => ShellFade(s, type).fade.view
<1> DEFINE t == ShellFade(s, type)
<1>1. CASE s.fade.animation
  <2>1. t = [s EXCEPT !.fade.type = type] BY <1>1 DEF ShellFade
  <2>2. /\ DOMAIN t = Fields /\ OnlyOf(s, t, {"fade"})
        /\ t.fade = [s.fade EXCEPT !.type = type]
    BY <2>1 DEF Shaped, Fields, OnlyOf
  <2>3. /\ DOMAIN t.fade = {"view", "animation", "type"}
        /\ t.fade.view = s.fade.view /\ t.fade.animation = s.fade.animation
        /\ t.fade.type = type
    BY <2>2 DEF Shaped
  <2> HIDE DEF t
  <2>4. Shaped(t) BY <2>2, <2>3, FadeShaped DEF Shaped
  <2> QED BY <1>1, <2>2, <2>3, <2>4 DEF t, OnlyOf
<1>2. CASE ~s.fade.animation
  <2> DEFINE black == [view |-> TRUE, animation |-> TRUE, type |-> type]
             u == [s EXCEPT !.fade = black]
  <2>1. t = ScheduleRepaint(u) BY <1>2 DEF ShellFade
  <2>2. /\ DOMAIN black = {"view", "animation", "type"}
        /\ black.view = TRUE /\ black.animation = TRUE /\ black.type = type
    OBVIOUS
  <2> HIDE DEF black
  <2>3. /\ DOMAIN u = Fields /\ OnlyOf(s, u, {"fade"}) /\ u.fade = black
    BY DEF Shaped, Fields, OnlyOf
  <2> HIDE DEF u
  <2>4. Shaped(u) BY <2>2, <2>3, FadeShaped
  <2>5. Shaped(t) /\ OnlyOf(u, t, {"frame"}) BY <2>1, <2>4, ScheduleFacts
  <2> HIDE DEF t
  <2>6. t.fade = black BY <2>3, <2>5 DEF OnlyOf, Fields
  <2>7. OnlyOf(s, t, {"fade", "frame"}) BY <2>3, <2>5 DEF OnlyOf
  <2> QED BY <2>2, <2>5, <2>6, <2>7 DEF t
<1> QED BY <1>1, <1>2 DEF Shaped

-----------------------------------------------------------------------------
(* lock() and unlock().                                                    *)

\* lock() takes the desktop's layers out, puts the lock's in, and takes the
\* keyboard's focus; it only sends a locked compositor to sleep.
LEMMA LockFacts ==
  ASSUME NEW s, Shaped(s), s.attached = LayersOf(s), ~s.corrupt,
         s.fade.view, ~s.fade.animation
  PROVE  /\ Shaped(Lock(s)) /\ Whole(Lock(s))
         /\ OnlyOf(s, Lock(s), {"locked", "power", "kfocus", "attached", "corrupt"})
         /\ Lock(s).locked
         /\ Lock(s).kfocus = IF s.locked THEN s.kfocus ELSE None
<1> DEFINE t == Lock(s)
           ls == {"panel", "workspace"} \cup InputPanels(s)
           d == Detach(s, ls)
           u == Insert(d, {"lock"})
<1>1. CASE s.locked
  <2>1. t = [s EXCEPT !.power = "sleeping"] BY <1>1 DEF Lock
  <2>2. /\ DOMAIN t = Fields /\ OnlyOf(s, t, {"power"}) /\ t.power = "sleeping"
    BY <2>1 DEF Shaped, Fields, OnlyOf
  <2> HIDE DEF t
  <2>3. Shaped(t) BY <2>2, PowerShaped
  <2>4. Whole(t) BY <1>1, <2>2 DEF Whole, LayersOf, OnlyOf, Fields
  <2> QED BY <1>1, <2>2, <2>3, <2>4 DEF t, OnlyOf, Fields
<1>2. CASE ~s.locked
  <2>1. ls \in SUBSET Layers /\ {"lock"} \in SUBSET Layers
    BY DEF Layers, InputPanels
  <2>2. s.attached = ls /\ "lock" \notin ls
    BY <1>2 DEF LayersOf, InputPanels
  <2>3. t = [u EXCEPT !.locked = TRUE, !.power = "sleeping", !.kfocus = None]
    BY <1>2 DEF Lock
  <2> HIDE DEF ls, t
  <2>4. /\ Shaped(d) /\ OnlyOf(s, d, {"attached", "corrupt"})
        /\ d.attached = s.attached \ ls
        /\ d.corrupt = (s.corrupt \/ ~(ls \subseteq s.attached))
    BY <2>1, DetachFacts
  <2>41. d.attached = {} /\ ~d.corrupt BY <2>2, <2>4
  <2> HIDE DEF d
  <2>5. /\ Shaped(u) /\ OnlyOf(d, u, {"attached", "corrupt"})
        /\ u.attached = d.attached \cup {"lock"}
        /\ u.corrupt = (d.corrupt \/ {"lock"} \cap d.attached # {})
    BY <2>1, <2>4, InsertFacts
  <2>51. u.attached = {"lock"} /\ ~u.corrupt BY <2>41, <2>5
  <2> HIDE DEF u
  <2>52. DOMAIN u = Fields BY <2>5 DEF Shaped
  <2>53. t.locked = TRUE /\ t.power = "sleeping" /\ t.kfocus = None
    BY <2>3, <2>52 DEF Fields
  <2>54. \A f \in Fields \ {"locked", "power", "kfocus"} : t[f] = u[f]
    BY <2>3, <2>52 DEF Fields
  <2>55. DOMAIN t = Fields BY <2>3, <2>52
  <2>6. /\ DOMAIN t = Fields /\ OnlyOf(u, t, {"locked", "power", "kfocus"})
        /\ t.locked = TRUE /\ t.power = "sleeping" /\ t.kfocus = None
    BY <2>53, <2>54, <2>55 DEF OnlyOf
  <2>61. /\ t.showing = u.showing /\ t.attached = u.attached
         /\ t.corrupt = u.corrupt /\ t.fade = u.fade /\ t.startup = u.startup
         /\ t.bound = u.bound /\ t.prepareSent = u.prepareSent
         /\ t.lockSurface = u.lockSurface /\ t.frame = u.frame
         /\ t.saved = u.saved /\ t.painted = u.painted
    BY <2>6 DEF OnlyOf, Fields
  <2>62. Desk(t) BY <2>5, <2>6 DEF Desk, Shaped, OnlyOf, Fields
  <2>7. Shaped(t) BY <2>5, <2>6, <2>61, <2>62 DEF Shaped
  <2>8. t.attached = {"lock"} /\ ~t.corrupt /\ t.fade = s.fade
    BY <2>4, <2>5, <2>51, <2>6 DEF OnlyOf, Fields
  <2>9. Whole(t) BY <2>6, <2>8 DEF Whole, LayersOf
  <2>10. OnlyOf(s, t, {"locked", "power", "kfocus", "attached", "corrupt"})
    BY <2>4, <2>5, <2>6 DEF OnlyOf
  <2> QED BY <1>2, <2>6, <2>7, <2>9, <2>10 DEF t
<1> QED BY <1>1, <1>2 DEF Shaped

\* resume_desktop() undoes it and fades in.
LEMMA ResumeFacts ==
  ASSUME NEW s, Shaped(s), Whole(s), s.locked
  PROVE  /\ Shaped(ResumeDesktop(s)) /\ Whole(ResumeDesktop(s))
         /\ OnlyOf(s, ResumeDesktop(s),
              {"locked", "kfocus", "attached", "corrupt", "fade", "frame"})
         /\ ~ResumeDesktop(s).locked /\ ResumeDesktop(s).kfocus = s.saved
<1> DEFINE ls == {"panel", "workspace"} \cup InputPanels(s)
           d == Detach(s, {"lock"})
           u == Insert(d, ls)
           v == [u EXCEPT !.locked = FALSE, !.kfocus = s.saved]
           w == ShellFade(v, "in")
           t == ScheduleRepaint(w)
<1>1. /\ ls \in SUBSET Layers /\ {"lock"} \in SUBSET Layers /\ "lock" \notin ls
  BY DEF Layers, InputPanels
<1>2. s.attached = {"lock"} /\ ~s.corrupt /\ (s.fade.animation => s.fade.view)
  BY DEF Whole, LayersOf
<1>3. ResumeDesktop(s) = t BY DEF ResumeDesktop
<1> HIDE DEF ls, t
<1>4. /\ Shaped(d) /\ OnlyOf(s, d, {"attached", "corrupt"})
      /\ d.attached = s.attached \ {"lock"}
      /\ d.corrupt = (s.corrupt \/ ~({"lock"} \subseteq s.attached))
  BY <1>1, DetachFacts
<1>41. d.attached = {} /\ ~d.corrupt BY <1>2, <1>4
<1> HIDE DEF d
<1>5. /\ Shaped(u) /\ OnlyOf(d, u, {"attached", "corrupt"})
      /\ u.attached = d.attached \cup ls
      /\ u.corrupt = (d.corrupt \/ ls \cap d.attached # {})
  BY <1>1, <1>4, InsertFacts
<1>51. u.attached = ls /\ ~u.corrupt BY <1>41, <1>5
<1>6. s.saved \in Windows \cup {None} BY DEF Shaped
<1> HIDE DEF u
<1>61. DOMAIN u = Fields BY <1>5 DEF Shaped
<1>62. v.locked = FALSE /\ v.kfocus = s.saved BY <1>61 DEF Fields
<1>63. \A f \in Fields \ {"locked", "kfocus"} : v[f] = u[f]
  BY <1>61 DEF Fields
<1>64. DOMAIN v = Fields BY <1>61
<1>7. /\ DOMAIN v = Fields /\ OnlyOf(u, v, {"locked", "kfocus"})
      /\ v.locked = FALSE /\ v.kfocus = s.saved
  BY <1>62, <1>63, <1>64 DEF OnlyOf
<1> HIDE DEF v
<1>71. /\ v.power = u.power /\ v.showing = u.showing
       /\ v.attached = u.attached /\ v.corrupt = u.corrupt /\ v.fade = u.fade
       /\ v.startup = u.startup /\ v.bound = u.bound
       /\ v.prepareSent = u.prepareSent /\ v.lockSurface = u.lockSurface
       /\ v.frame = u.frame /\ v.painted = u.painted
  BY <1>7 DEF OnlyOf, Fields
<1>8. Shaped(v)
  <2>1. v.saved = u.saved BY <1>7 DEF OnlyOf, Fields
  <2>2. Desk(v) BY <1>5, <1>7 DEF Desk, Shaped, OnlyOf, Fields
  <2>3. v.kfocus \in Windows \cup {None} BY <1>6, <1>7
  <2> QED BY <1>5, <1>7, <1>71, <2>1, <2>2, <2>3 DEF Shaped
<1>9. v.fade = s.fade BY <1>4, <1>5, <1>7 DEF OnlyOf, Fields
<1>10. /\ Shaped(w) /\ OnlyOf(v, w, {"fade", "frame"})
       /\ w.fade.animation /\ w.fade.type = "in" /\ w.fade.view
  BY <1>2, <1>8, <1>9, FadeFacts
<1> HIDE DEF w
<1>11. Shaped(t) /\ OnlyOf(w, t, {"frame"})
  BY <1>10, ScheduleFacts DEF t
<1>12. t.fade = w.fade BY <1>11 DEF OnlyOf, Fields
<1>13. OnlyOf(s, t, {"locked", "kfocus", "attached", "corrupt", "fade", "frame"})
  BY <1>4, <1>5, <1>7, <1>10, <1>11 DEF OnlyOf
<1>14. t.attached = ls /\ ~t.corrupt /\ t.locked = FALSE /\ t.showing = s.showing
  BY <1>4, <1>5, <1>51, <1>7, <1>10, <1>11 DEF OnlyOf, Fields
<1>15. t.attached = LayersOf(t) BY <1>14 DEF ls, LayersOf, InputPanels
<1>16. Whole(t) BY <1>10, <1>12, <1>14, <1>15 DEF Whole
<1>17. t.kfocus = s.saved BY <1>7, <1>10, <1>11 DEF OnlyOf, Fields
<1> QED BY <1>3, <1>11, <1>13, <1>14, <1>16, <1>17

\* A fade of a record that is whole: it may be one to black only if the
\* compositor is not awake, or locked already.
LEMMA FadeWhole ==
  ASSUME NEW s, Shaped(s), Whole(s), NEW type \in {"in", "out"},
         type = "in" \/ s.locked \/ s.power # "active"
  PROVE  Whole(ShellFade(s, type))
<1> DEFINE t == ShellFade(s, type)
<1>1. /\ OnlyOf(s, t, {"fade", "frame"}) /\ t.fade.animation
      /\ t.fade.type = type /\ t.fade.view
  BY FadeFacts DEF Whole
<1> HIDE DEF t
<1>2. /\ t.corrupt = s.corrupt /\ t.attached = s.attached
      /\ t.locked = s.locked /\ t.showing = s.showing /\ t.power = s.power
  BY <1>1 DEF OnlyOf, Fields
<1>3. LayersOf(t) = LayersOf(s) BY <1>2 DEF LayersOf, InputPanels
<1>4. Whole(t) BY <1>1, <1>2, <1>3 DEF Whole
<1> QED BY <1>4 DEF t

\* What weston_compositor_wake may do to the record.
Woken(s, t) ==
  /\ Shaped(t) /\ Whole(t) /\ t.power = "active"
  /\ OnlyOf(s, t, {"power", "prepareSent", "locked", "kfocus", "attached",
                   "corrupt", "fade", "frame"})
  /\ t.locked => s.locked /\ t.kfocus = s.kfocus
  /\ t.kfocus \in {s.kfocus, s.saved}
  /\ s.locked /\ s.bound => t.locked
  /\ t.prepareSent <=> s.prepareSent \/
       (s.power # "active" /\ s.locked /\ s.bound /\ s.lockSurface = "none")

LEMMA WakeFacts ==
  ASSUME NEW s, Shaped(s), Whole(s)
  PROVE  Woken(s, Wake(s))
<1> DEFINE u == [s EXCEPT !.power = "active"]
           t == Wake(s)
           v == [u EXCEPT !.prepareSent = TRUE]
<1>1. CASE s.power = "active"
  <2>1. t = s BY <1>1 DEF Wake
  <2>3. Woken(s, s) BY <1>1 DEF Woken, OnlyOf
  <2> QED BY <2>1, <2>3
<1>2. CASE s.power # "active"
  <2>1. t = Unlock(u) BY <1>2 DEF Wake
  <2>2. /\ DOMAIN u = Fields /\ OnlyOf(s, u, {"power"}) /\ u.power = "active"
    BY DEF Shaped, Fields, OnlyOf
  <2> HIDE DEF u, t
  <2>3. Shaped(u) BY <2>2, PowerShaped
  <2>4. /\ u.corrupt = s.corrupt /\ u.attached = s.attached /\ u.fade = s.fade
        /\ u.locked = s.locked /\ u.showing = s.showing
        /\ u.startup = s.startup /\ u.bound = s.bound /\ u.kfocus = s.kfocus
        /\ u.lockSurface = s.lockSurface /\ u.prepareSent = s.prepareSent
    BY <2>2 DEF OnlyOf, Fields
  <2>5. LayersOf(u) = LayersOf(s) BY <2>4 DEF LayersOf, InputPanels
  <2>6. CASE ~s.locked \/ s.lockSurface # "none"
    <3> DEFINE w == ShellFade(u, "in")
    <3>1. t = w BY <2>1, <2>4, <2>6 DEF Unlock
    <3>2. u.fade.animation => u.fade.view BY <2>4 DEF Whole
    <3>3. /\ Shaped(w) /\ OnlyOf(u, w, {"fade", "frame"})
          /\ w.fade.animation /\ w.fade.type = "in" /\ w.fade.view
      BY <2>3, <3>2, FadeFacts
    <3> HIDE DEF w
    <3>4. /\ w.corrupt = s.corrupt /\ w.attached = s.attached
          /\ w.locked = s.locked /\ w.showing = s.showing
          /\ w.power = "active" /\ w.kfocus = s.kfocus
          /\ w.prepareSent = s.prepareSent
      BY <2>2, <2>4, <3>3 DEF OnlyOf, Fields
    <3>5. LayersOf(w) = LayersOf(s) BY <3>4 DEF LayersOf, InputPanels
    <3>6. Whole(w) BY <3>3, <3>4, <3>5 DEF Whole
    <3>7. OnlyOf(s, w, {"power", "fade", "frame"})
      BY <2>2, <3>3, Zenon DEF OnlyOf
    <3>8. Woken(s, w) BY <2>6, <3>3, <3>4, <3>6, <3>7 DEF Woken, OnlyOf
    <3> QED BY <3>1, <3>8 DEF t
  <2>7. CASE s.locked /\ s.lockSurface = "none" /\ ~s.bound
    <3> DEFINE w == ResumeDesktop(u)
    <3>1. t = w BY <2>1, <2>4, <2>7 DEF Unlock, Shaped
    <3>2. Whole(u) BY <2>4, <2>5, <2>7 DEF Whole
    <3>3. /\ Shaped(w) /\ Whole(w) /\ ~w.locked
          /\ OnlyOf(u, w,
               {"locked", "kfocus", "attached", "corrupt", "fade", "frame"})
          /\ w.kfocus = u.saved
      BY <2>3, <2>4, <2>7, <3>2, ResumeFacts
    <3> HIDE DEF w
    <3>4. /\ w.power = "active" /\ w.prepareSent = s.prepareSent
          /\ w.kfocus = s.saved
      BY <2>2, <2>4, <3>3 DEF OnlyOf, Fields
    <3>5. OnlyOf(s, w, {"power", "locked", "kfocus", "attached", "corrupt",
                        "fade", "frame"})
      BY <2>2, <3>3, Zenon DEF OnlyOf
    <3>6. Woken(s, w) BY <2>7, <3>3, <3>4, <3>5 DEF Woken, OnlyOf
    <3> QED BY <3>1, <3>6 DEF t
  <2>8. CASE s.locked /\ s.lockSurface = "none" /\ s.bound
    <3>1. t = v BY <2>1, <2>4, <2>8 DEF Unlock
    <3>2. /\ DOMAIN v = Fields /\ OnlyOf(u, v, {"prepareSent"})
          /\ v.prepareSent = TRUE
      BY <2>3 DEF Shaped, OnlyOf, Fields
    <3> HIDE DEF v
    <3>3. Shaped(v) BY <2>3, <3>2, PrepareShaped
    <3>4. /\ v.corrupt = s.corrupt /\ v.attached = s.attached /\ v.fade = s.fade
          /\ v.locked = s.locked /\ v.showing = s.showing
          /\ v.power = "active" /\ v.kfocus = s.kfocus /\ v.startup = s.startup
      BY <2>2, <2>4, <3>2 DEF OnlyOf, Fields
    <3>5. LayersOf(v) = LayersOf(s) BY <3>4 DEF LayersOf, InputPanels
    <3>6. Whole(v) BY <2>8, <3>4, <3>5 DEF Whole
    <3>7. OnlyOf(s, v, {"power", "prepareSent"})
      BY <2>2, <3>2, Zenon DEF OnlyOf
    <3>8. Woken(s, v)
      BY <1>2, <2>8, <3>2, <3>3, <3>4, <3>6, <3>7 DEF Woken, OnlyOf
    <3> QED BY <3>1, <3>8 DEF t
  <2> QED BY <2>6, <2>7, <2>8 DEF Shaped, t
<1> QED BY <1>1, <1>2

-----------------------------------------------------------------------------
(* The other operators.                                                    *)

\* The fields Whole says nothing of.
Minor == {"prepareSent", "bound", "lockSurface", "frame", "kfocus", "saved",
          "painted"}

LEMMA MinorShaped ==
  ASSUME NEW s, Shaped(s), NEW t, DOMAIN t = Fields, OnlyOf(s, t, Minor),
         t.prepareSent \in BOOLEAN, t.bound \in BOOLEAN, t.frame \in BOOLEAN,
         t.lockSurface \in {"none", "set", "mapped"}, t.painted \in SUBSET (Layers \cup Windows),
         t.kfocus \in Windows \cup {None}, t.saved \in Windows \cup {None}
  PROVE  Shaped(t)
<1>1. /\ t.power = s.power /\ t.locked = s.locked /\ t.showing = s.showing
      /\ t.attached = s.attached /\ t.corrupt = s.corrupt /\ t.fade = s.fade
      /\ t.startup = s.startup
  BY DEF OnlyOf, Fields, Minor
<1>2. Desk(t) BY DEF Desk, Shaped, OnlyOf, Fields, Minor
<1> QED BY <1>1, <1>2 DEF Shaped

LEMMA MinorWhole ==
  ASSUME NEW s, Whole(s), NEW t, OnlyOf(s, t, Minor)
  PROVE  Whole(t)
<1>1. /\ t.power = s.power /\ t.locked = s.locked /\ t.showing = s.showing
      /\ t.attached = s.attached /\ t.corrupt = s.corrupt /\ t.fade = s.fade
      /\ t.startup = s.startup
  BY DEF OnlyOf, Fields, Minor
<1>2. LayersOf(t) = LayersOf(s) BY <1>1 DEF LayersOf, InputPanels
<1> QED BY <1>1, <1>2 DEF Whole

\* What the end of a fade may do to the record.
Faded(s, t) ==
  /\ Shaped(t) /\ Whole(t)
  /\ OnlyOf(s, t, {"fade", "frame", "painted", "locked", "power", "kfocus",
                   "attached", "corrupt"})
  /\ s.locked => t.locked /\ t.kfocus = s.kfocus
  /\ t.kfocus \in {s.kfocus, None}
  /\ ~s.locked /\ t.locked => t.kfocus = None /\ s.power # "active"
  /\ t.painted = s.painted

\* shell_fade_done() of a repaint, which has just built the list of views.
LEMMA DoneFacts ==
  ASSUME NEW s, Shaped(s), Whole(s), s.fade.animation, s.painted = Listed(s)
  PROVE  Faded(s, ShellFadeDone(s))
<1> DEFINE u == [s EXCEPT !.fade.animation = FALSE]
           t == ScheduleRepaint(u)
           v == [t EXCEPT !.fade.view = FALSE]
           w == BuildViewList(v)
           x == Lock(t)
<1>1. ShellFadeDone(s) = IF s.fade.type = "in" THEN w ELSE x
  BY DEF ShellFadeDone
<1>2. /\ DOMAIN u = Fields /\ OnlyOf(s, u, {"fade"})
      /\ u.fade = [s.fade EXCEPT !.animation = FALSE]
  BY DEF Shaped, Fields, OnlyOf
<1>3. /\ DOMAIN u.fade = {"view", "animation", "type"}
      /\ u.fade.view = s.fade.view /\ u.fade.animation = FALSE
      /\ u.fade.type = s.fade.type
  BY <1>2 DEF Shaped
<1> HIDE DEF u
<1>4. Shaped(u)
  <2>1. s.fade.view \in BOOLEAN /\ s.fade.type \in {"in", "out"} BY DEF Shaped
  <2> QED BY <1>2, <1>3, <2>1, FadeShaped
<1>5. Shaped(t) /\ OnlyOf(u, t, {"frame"}) BY <1>4, ScheduleFacts
<1> HIDE DEF t
<1>6. /\ t.fade = u.fade /\ t.locked = s.locked /\ t.attached = s.attached
      /\ t.corrupt = s.corrupt /\ t.showing = s.showing
      /\ t.kfocus = s.kfocus /\ t.painted = s.painted /\ t.open = s.open
  BY <1>2, <1>5 DEF OnlyOf, Fields
<1>7. OnlyOf(s, t, {"fade", "frame"}) BY <1>2, <1>5, Zenon DEF OnlyOf
<1>8. LayersOf(t) = LayersOf(s) BY <1>6 DEF LayersOf, InputPanels
<1>9. ~s.corrupt /\ s.attached = LayersOf(s) /\ s.fade.view BY DEF Whole
<1>10. CASE s.fade.type = "in"
  <2>0. DOMAIN t = Fields /\ DOMAIN t.fade = {"view", "animation", "type"}
    BY <1>5 DEF Shaped
  <2>1. /\ DOMAIN v = Fields /\ OnlyOf(t, v, {"fade"})
        /\ v.fade = [t.fade EXCEPT !.view = FALSE]
    BY <2>0 DEF Fields, OnlyOf
  <2>2. /\ DOMAIN v.fade = {"view", "animation", "type"} /\ v.fade.view = FALSE
        /\ v.fade.animation = FALSE /\ v.fade.type = s.fade.type
    BY <1>3, <1>6, <2>0, <2>1
  <2> HIDE DEF v
  <2>13. s.fade.type \in {"in", "out"} BY DEF Shaped
  <2>3. Shaped(v) BY <1>5, <2>1, <2>2, <2>13, FadeShaped
  <2>4. Shaped(w) /\ OnlyOf(v, w, {"painted"}) /\ w.painted = Listed(v)
    BY <2>3, BuildFacts
  <2> HIDE DEF w
  <2>14. /\ v.locked = t.locked /\ v.attached = t.attached
         /\ v.corrupt = t.corrupt /\ v.showing = t.showing /\ v.kfocus = t.kfocus
         /\ v.open = t.open
    BY <2>1 DEF OnlyOf, Fields
  <2>15. /\ w.fade = v.fade /\ w.locked = v.locked /\ w.attached = v.attached
         /\ w.corrupt = v.corrupt /\ w.showing = v.showing
         /\ w.kfocus = v.kfocus
    BY <2>4 DEF OnlyOf, Fields
  <2>5. /\ w.fade = v.fade /\ w.locked = s.locked /\ w.attached = s.attached
        /\ w.corrupt = s.corrupt /\ w.showing = s.showing
        /\ w.kfocus = s.kfocus /\ w.painted = s.painted
    BY <1>6, <2>4, <2>14, <2>15 DEF Listed
  <2>6. LayersOf(w) = LayersOf(s) BY <2>5 DEF LayersOf, InputPanels
  <2>7. Whole(w) BY <1>9, <2>2, <2>5, <2>6 DEF Whole
  <2>8. OnlyOf(t, w, {"fade", "painted"}) BY <2>1, <2>4, Zenon DEF OnlyOf
  <2>9. OnlyOf(s, w, {"fade", "frame", "painted"})
    BY <1>7, <2>8, Zenon DEF OnlyOf
  <2>10. OnlyOf(s, w, {"fade", "frame", "painted", "locked", "power", "kfocus",
                       "attached", "corrupt"})
    BY <2>9 DEF OnlyOf
  <2>11. Faded(s, w) BY <2>4, <2>5, <2>7, <2>10 DEF Faded
  <2> QED BY <1>1, <1>10, <2>11
<1>11. CASE s.fade.type # "in"
  <2>1. /\ t.attached = LayersOf(t) /\ ~t.corrupt
        /\ t.fade.view /\ ~t.fade.animation
    BY <1>3, <1>6, <1>8, <1>9
  <2>2. /\ Shaped(x) /\ Whole(x)
        /\ OnlyOf(t, x, {"locked", "power", "kfocus", "attached", "corrupt"})
        /\ x.locked /\ x.kfocus = IF t.locked THEN t.kfocus ELSE None
    BY <1>5, <2>1, LockFacts
  <2> HIDE DEF x
  <2>3. x.painted = s.painted BY <1>6, <2>2 DEF OnlyOf, Fields
  <2>4. OnlyOf(s, x, {"fade", "frame", "painted", "locked", "power", "kfocus",
                      "attached", "corrupt"})
    BY <1>7, <2>2, Zenon DEF OnlyOf
  <2>5. ~s.locked => s.power # "active" BY <1>11 DEF Whole
  <2>6. Faded(s, x) BY <1>6, <2>2, <2>3, <2>4, <2>5 DEF Faded
  <2> QED BY <1>1, <1>11, <2>6
<1> QED BY <1>10, <1>11

\* shell_fade_startup(): the timer gives way to the idle callback.
LEMMA StartupFacts ==
  ASSUME NEW s, Shaped(s), Whole(s)
  PROVE  /\ Shaped(ShellFadeStartup(s)) /\ Whole(ShellFadeStartup(s))
         /\ OnlyOf(s, ShellFadeStartup(s), {"startup"})
<1> DEFINE t == ShellFadeStartup(s)
<1>1. CASE s.startup = "timer"
  <2>1. t = [s EXCEPT !.startup = "idle"] BY <1>1 DEF ShellFadeStartup
  <2>2. DOMAIN t = Fields /\ OnlyOf(s, t, {"startup"}) /\ t.startup = "idle"
    BY <2>1 DEF Shaped, Fields, OnlyOf
  <2> HIDE DEF t
  <2>3. Shaped(t) BY <2>2, StartupShaped
  <2>4. /\ t.power = s.power /\ t.locked = s.locked /\ t.showing = s.showing
        /\ t.attached = s.attached /\ t.corrupt = s.corrupt /\ t.fade = s.fade
    BY <2>2 DEF OnlyOf, Fields
  <2>5. LayersOf(t) = LayersOf(s) BY <2>4 DEF LayersOf, InputPanels
  <2>6. Whole(t) BY <2>2, <2>4, <2>5 DEF Whole
  <2> QED BY <2>2, <2>3, <2>6 DEF t
<1>2. CASE s.startup # "timer"
  BY <1>2 DEF ShellFadeStartup, OnlyOf
<1> QED BY <1>1, <1>2

LEMMA ActivateFacts ==
  ASSUME NEW s, Shaped(s), Whole(s), NEW w \in Windows
  PROVE  /\ Shaped(Activate(s, w)) /\ Whole(Activate(s, w))
         /\ OnlyOf(s, Activate(s, w), {"kfocus", "saved"})
         /\ Activate(s, w).kfocus = w /\ Activate(s, w).saved = w
<1> DEFINE t == Activate(s, w)
<1>1. DOMAIN s = Fields BY DEF Shaped
<1>2. DOMAIN t = Fields BY <1>1 DEF Activate
<1>3. t.kfocus = w /\ t.saved = w BY <1>1 DEF Activate, Fields
<1>4. \A f \in Fields \ {"kfocus", "saved"} : t[f] = s[f]
  BY <1>1 DEF Activate, Fields
<1> HIDE DEF t
<1>5. OnlyOf(s, t, {"kfocus", "saved"}) BY <1>4 DEF OnlyOf
<1>6. OnlyOf(s, t, Minor) BY <1>4 DEF OnlyOf, Minor
<1>7. /\ t.prepareSent = s.prepareSent /\ t.bound = s.bound /\ t.frame = s.frame
      /\ t.lockSurface = s.lockSurface /\ t.painted = s.painted
  BY <1>4 DEF Fields
<1>8. Shaped(t)
  <2>1. /\ t.prepareSent \in BOOLEAN /\ t.bound \in BOOLEAN /\ t.frame \in BOOLEAN
        /\ t.lockSurface \in {"none", "set", "mapped"}
        /\ t.painted \in SUBSET (Layers \cup Windows)
        /\ t.kfocus \in Windows \cup {None} /\ t.saved \in Windows \cup {None}
    BY <1>3, <1>7 DEF Shaped
  <2> QED BY <1>2, <1>6, <2>1, MinorShaped
<1>9. Whole(t) BY <1>6, MinorWhole
<1> QED BY <1>3, <1>5, <1>8, <1>9 DEF t

\* One minor field is given a value of its type.
LEMMA SetMinor ==
  ASSUME NEW s, Shaped(s), NEW t, NEW f \in Minor, NEW v,
         t = [s EXCEPT ![f] = v],
         f \in {"prepareSent", "bound", "frame"} => v \in BOOLEAN,
         f = "lockSurface" => v \in {"none", "set", "mapped"},
         f = "painted" => v \in SUBSET (Layers \cup Windows),
         f \in {"kfocus", "saved"} => v \in Windows \cup {None}
  PROVE  /\ Shaped(t) /\ OnlyOf(s, t, {f}) /\ t[f] = v
         /\ Whole(s) => Whole(t)
<1>0. f \in Fields BY DEF Minor, Fields
<1>1. DOMAIN t = Fields /\ t[f] = v /\ OnlyOf(s, t, {f})
  BY <1>0, SetFacts
<1>2. OnlyOf(s, t, Minor) BY <1>1 DEF OnlyOf
<1>3. \A g \in Fields : g # f => t[g] = s[g] BY <1>1 DEF OnlyOf
<1>4. /\ t.prepareSent \in BOOLEAN /\ t.bound \in BOOLEAN /\ t.frame \in BOOLEAN
      /\ t.lockSurface \in {"none", "set", "mapped"}
      /\ t.painted \in SUBSET (Layers \cup Windows)
      /\ t.kfocus \in Windows \cup {None} /\ t.saved \in Windows \cup {None}
  BY <1>1, <1>3 DEF Shaped, Fields
<1>5. Shaped(t) BY <1>1, <1>2, <1>4, MinorShaped
<1>6. Whole(s) => Whole(t) BY <1>2, MinorWhole
<1> QED BY <1>1, <1>5, <1>6

LEMMA AskedClear ==
  ASSUME NEW s, Shaped(s), NEW t, t = [s EXCEPT !.prepareSent = FALSE]
  PROVE  /\ Shaped(t) /\ OnlyOf(s, t, {"prepareSent"}) /\ t.prepareSent = FALSE
         /\ Whole(s) => Whole(t)
<1>1. DOMAIN t = Fields BY DEF Shaped
<1>2. t.prepareSent = FALSE BY DEF Shaped, Fields
<1>3. \A f \in Fields \ {"prepareSent"} : t[f] = s[f] BY DEF Shaped
<1>4. OnlyOf(s, t, {"prepareSent"}) BY <1>3 DEF OnlyOf
<1>5. OnlyOf(s, t, Minor) BY <1>3 DEF OnlyOf, Minor
<1>6. Shaped(t)
  <2>1. /\ t.prepareSent \in BOOLEAN /\ t.bound \in BOOLEAN /\ t.frame \in BOOLEAN
        /\ t.lockSurface \in {"none", "set", "mapped"}
        /\ t.painted \in SUBSET (Layers \cup Windows)
        /\ t.kfocus \in Windows \cup {None} /\ t.saved \in Windows \cup {None}
    BY <1>2, <1>3 DEF Shaped, Fields
  <2> QED BY <1>1, <1>5, <2>1, MinorShaped
<1>7. Whole(s) => Whole(t) BY <1>5, MinorWhole
<1> QED BY <1>2, <1>4, <1>6, <1>7

LEMMA BoundSet ==
  ASSUME NEW s, Shaped(s), NEW t, t = [s EXCEPT !.bound = TRUE]
  PROVE  /\ Shaped(t) /\ OnlyOf(s, t, {"bound"}) /\ t.bound = TRUE
         /\ Whole(s) => Whole(t)
<1>1. DOMAIN t = Fields BY DEF Shaped
<1>2. t.bound = TRUE BY DEF Shaped, Fields
<1>3. \A f \in Fields \ {"bound"} : t[f] = s[f] BY DEF Shaped
<1>4. OnlyOf(s, t, {"bound"}) BY <1>3 DEF OnlyOf
<1>5. OnlyOf(s, t, Minor) BY <1>3 DEF OnlyOf, Minor
<1>6. Shaped(t)
  <2>1. /\ t.prepareSent \in BOOLEAN /\ t.bound \in BOOLEAN /\ t.frame \in BOOLEAN
        /\ t.lockSurface \in {"none", "set", "mapped"}
        /\ t.painted \in SUBSET (Layers \cup Windows)
        /\ t.kfocus \in Windows \cup {None} /\ t.saved \in Windows \cup {None}
    BY <1>2, <1>3 DEF Shaped, Fields
  <2> QED BY <1>1, <1>5, <2>1, MinorShaped
<1>7. Whole(s) => Whole(t) BY <1>5, MinorWhole
<1> QED BY <1>2, <1>4, <1>6, <1>7

LEMMA FrameClear ==
  ASSUME NEW s, Shaped(s), NEW t, t = [s EXCEPT !.frame = FALSE]
  PROVE  /\ Shaped(t) /\ OnlyOf(s, t, {"frame"}) /\ t.frame = FALSE
         /\ Whole(s) => Whole(t)
<1>1. DOMAIN t = Fields BY DEF Shaped
<1>2. t.frame = FALSE BY DEF Shaped, Fields
<1>3. \A f \in Fields \ {"frame"} : t[f] = s[f] BY DEF Shaped
<1>4. OnlyOf(s, t, {"frame"}) BY <1>3 DEF OnlyOf
<1>5. OnlyOf(s, t, Minor) BY <1>3 DEF OnlyOf, Minor
<1>6. Shaped(t)
  <2>1. /\ t.prepareSent \in BOOLEAN /\ t.bound \in BOOLEAN /\ t.frame \in BOOLEAN
        /\ t.lockSurface \in {"none", "set", "mapped"}
        /\ t.painted \in SUBSET (Layers \cup Windows)
        /\ t.kfocus \in Windows \cup {None} /\ t.saved \in Windows \cup {None}
    BY <1>2, <1>3 DEF Shaped, Fields
  <2> QED BY <1>1, <1>5, <2>1, MinorShaped
<1>7. Whole(s) => Whole(t) BY <1>5, MinorWhole
<1> QED BY <1>2, <1>4, <1>6, <1>7

LEMMA SetSurfaceFacts ==
  ASSUME NEW s, Shaped(s), Whole(s)
  PROVE  /\ Shaped(SetLockSurface(s)) /\ Whole(SetLockSurface(s))
         /\ OnlyOf(s, SetLockSurface(s), {"prepareSent", "lockSurface"})
         /\ ~SetLockSurface(s).prepareSent
         /\ SetLockSurface(s).lockSurface =
              IF s.locked THEN "set" ELSE s.lockSurface
<1> DEFINE t == [s EXCEPT !.prepareSent = FALSE]
           u == [t EXCEPT !.lockSurface = "set"]
<1>1. SetLockSurface(s) = IF s.locked THEN u ELSE t BY DEF SetLockSurface
<1>2. /\ Shaped(t) /\ Whole(t) /\ OnlyOf(s, t, {"prepareSent"})
      /\ t.prepareSent = FALSE
  BY AskedClear
<1> HIDE DEF t
<1>3. /\ Shaped(u) /\ Whole(u) /\ OnlyOf(t, u, {"lockSurface"})
      /\ u["lockSurface"] = "set"
  BY <1>2, SetMinor DEF Minor
<1> HIDE DEF u
<1>4. t.lockSurface = s.lockSurface /\ u.prepareSent = FALSE
  BY <1>2, <1>3 DEF OnlyOf, Fields
<1>5. /\ OnlyOf(s, u, {"prepareSent", "lockSurface"})
      /\ OnlyOf(s, t, {"prepareSent", "lockSurface"})
  BY <1>2, <1>3, Zenon DEF OnlyOf
<1> QED BY <1>1, <1>2, <1>3, <1>4, <1>5

LEMMA ConfigureFacts ==
  ASSUME NEW s, Shaped(s), Whole(s)
  PROVE  /\ Shaped(LockSurfaceConfigure(s)) /\ Whole(LockSurfaceConfigure(s))
         /\ OnlyOf(s, LockSurfaceConfigure(s), {"lockSurface", "fade", "frame"})
         /\ LockSurfaceConfigure(s).lockSurface =
              IF s.lockSurface = "set" THEN "mapped" ELSE s.lockSurface
<1> DEFINE u == [s EXCEPT !.lockSurface = "mapped"]
           v == ShellFade(u, "in")
           w == ScheduleRepaint(v)
<1>1. LockSurfaceConfigure(s) = IF s.lockSurface = "set" THEN w ELSE s
  BY DEF LockSurfaceConfigure
<1>2. /\ Shaped(u) /\ Whole(u) /\ OnlyOf(s, u, {"lockSurface"})
      /\ u["lockSurface"] = "mapped"
  BY SetMinor DEF Minor
<1> HIDE DEF u
<1>3. Shaped(v) /\ Whole(v) /\ OnlyOf(u, v, {"fade", "frame"})
  BY <1>2, FadeFacts, FadeWhole
<1> HIDE DEF v
<1>4. Shaped(w) /\ OnlyOf(v, w, {"frame"}) BY <1>3, ScheduleFacts
<1> HIDE DEF w
<1>5. OnlyOf(v, w, Minor) BY <1>4 DEF OnlyOf, Minor
<1>6. Whole(w) BY <1>3, <1>5, MinorWhole
<1>7. w.lockSurface = "mapped" BY <1>2, <1>3, <1>4 DEF OnlyOf, Fields
<1>8. OnlyOf(u, w, {"fade", "frame"}) BY <1>3, <1>4, Zenon DEF OnlyOf
<1>9. OnlyOf(s, w, {"lockSurface", "fade", "frame"})
  BY <1>2, <1>8, Zenon DEF OnlyOf
<1>10. OnlyOf(s, s, {"lockSurface", "fade", "frame"}) BY DEF OnlyOf
<1> QED BY <1>1, <1>4, <1>6, <1>7, <1>9, <1>10

\* What a request to unlock may do to the record.
Unlocked(s, t) ==
  /\ Shaped(t) /\ Whole(t) /\ ~t.locked /\ ~t.prepareSent
  /\ t.kfocus \in {s.kfocus, s.saved}
  /\ OnlyOf(s, t, {"prepareSent", "locked", "kfocus", "attached", "corrupt",
                   "fade", "frame"})

LEMMA DesktopShellUnlockFacts ==
  ASSUME NEW s, Shaped(s), Whole(s)
  PROVE  Unlocked(s, DesktopShellUnlock(s))
<1> DEFINE t == [s EXCEPT !.prepareSent = FALSE]
           u == ResumeDesktop(t)
<1>1. DesktopShellUnlock(s) = IF s.locked THEN u ELSE t
  BY DEF DesktopShellUnlock
<1>2. /\ Shaped(t) /\ Whole(t) /\ OnlyOf(s, t, {"prepareSent"})
      /\ t.prepareSent = FALSE
  BY AskedClear
<1> HIDE DEF t
<1>3. t.locked = s.locked /\ t.kfocus = s.kfocus /\ t.saved = s.saved
  BY <1>2 DEF OnlyOf, Fields
<1>4. CASE s.locked
  <2>1. /\ Shaped(u) /\ Whole(u) /\ ~u.locked /\ u.kfocus = t.saved
        /\ OnlyOf(t, u,
             {"locked", "kfocus", "attached", "corrupt", "fade", "frame"})
    BY <1>2, <1>3, <1>4, ResumeFacts
  <2> HIDE DEF u
  <2>2. u.prepareSent = FALSE BY <1>2, <2>1 DEF OnlyOf, Fields
  <2>3. OnlyOf(s, u, {"prepareSent", "locked", "kfocus", "attached", "corrupt",
                      "fade", "frame"})
    BY <1>2, <2>1, Zenon DEF OnlyOf
  <2> QED BY <1>1, <1>3, <1>4, <2>1, <2>2, <2>3 DEF Unlocked
<1>5. CASE ~s.locked
  <2>1. OnlyOf(s, t, {"prepareSent", "locked", "kfocus", "attached", "corrupt",
                      "fade", "frame"})
    BY <1>2, Zenon DEF OnlyOf
  <2> QED BY <1>1, <1>2, <1>3, <1>5, <2>1 DEF Unlocked
<1> QED BY <1>4, <1>5 DEF Shaped

LEMMA DestroyFacts ==
  ASSUME NEW s, Shaped(s), Whole(s)
  PROVE  /\ Shaped(LockSurfaceDestroy(s)) /\ Whole(LockSurfaceDestroy(s))
         /\ OnlyOf(s, LockSurfaceDestroy(s), {"lockSurface", "painted", "frame"})
         /\ LockSurfaceDestroy(s).lockSurface = "none"
         /\ LockSurfaceDestroy(s).painted \in {s.painted, Listed(s)}
<1> DEFINE t == [s EXCEPT !.lockSurface = "none"]
           u == BuildViewList(t)
           v == ScheduleRepaint(u)
<1>1. LockSurfaceDestroy(s) = IF s.lockSurface = "mapped" THEN v ELSE t
  BY DEF LockSurfaceDestroy
<1>2. /\ Shaped(t) /\ Whole(t) /\ OnlyOf(s, t, {"lockSurface"})
      /\ t["lockSurface"] = "none"
  BY SetMinor DEF Minor
<1> HIDE DEF t
<1>3. Shaped(u) /\ OnlyOf(t, u, {"painted"}) /\ u.painted = Listed(t)
  BY <1>2, BuildFacts
<1> HIDE DEF u
<1>4. Shaped(v) /\ OnlyOf(u, v, {"frame"}) BY <1>3, ScheduleFacts
<1> HIDE DEF v
<1>5. OnlyOf(t, v, {"painted", "frame"}) BY <1>3, <1>4, Zenon DEF OnlyOf
<1>6. Whole(v)
  <2>1. OnlyOf(t, v, Minor) BY <1>5 DEF OnlyOf, Minor
  <2> QED BY <1>2, <2>1, MinorWhole
<1>7. /\ Listed(t) = Listed(s) /\ t.painted = s.painted
      /\ v.lockSurface = "none" /\ v.painted = u.painted
  BY <1>2, <1>3, <1>4 DEF Listed, OnlyOf, Fields
<1>8. /\ OnlyOf(s, v, {"lockSurface", "painted", "frame"})
      /\ OnlyOf(s, t, {"lockSurface", "painted", "frame"})
  BY <1>2, <1>5, Zenon DEF OnlyOf
<1> QED BY <1>1, <1>2, <1>3, <1>4, <1>6, <1>7, <1>8

\* unbind_desktop_shell(): a locked desktop comes back.
LEMMA UnbindFacts ==
  ASSUME NEW s, Shaped(s), Whole(s)
  PROVE  /\ Shaped(Unbind(s)) /\ Whole(Unbind(s))
         /\ ~Unbind(s).locked /\ ~Unbind(s).prepareSent
         /\ Unbind(s).painted = s.painted /\ Still(s, Unbind(s))
         /\ Unbind(s).kfocus \in {s.kfocus, s.saved}
<1> DEFINE r == IF s.locked THEN ResumeDesktop(s) ELSE s
           u == Unbind(s)
<1>1. /\ Shaped(r) /\ Whole(r) /\ ~r.locked /\ r.painted = s.painted
      /\ Still(s, r) /\ r.kfocus \in {s.kfocus, s.saved}
  <2>1. CASE s.locked
    <3> DEFINE d == ResumeDesktop(s)
    <3>1. /\ Shaped(d) /\ Whole(d) /\ ~d.locked /\ d.kfocus = s.saved
          /\ OnlyOf(s, d,
               {"locked", "kfocus", "attached", "corrupt", "fade", "frame"})
      BY <2>1, ResumeFacts
    <3> HIDE DEF d
    <3>2. d.painted = s.painted /\ Still(s, d) BY <3>1 DEF OnlyOf, Fields, Still
    <3>3. r = d BY <2>1 DEF d
    <3> QED BY <3>1, <3>2, <3>3
  <2>2. CASE ~s.locked BY <2>2 DEF Still
  <2> QED BY <2>1, <2>2
<1>2. u = [r EXCEPT !.bound = FALSE, !.prepareSent = FALSE] BY DEF Unbind
<1> HIDE DEF r, u
<1>3. DOMAIN r = Fields BY <1>1 DEF Shaped
<1>4. DOMAIN u = Fields BY <1>2, <1>3
<1>5. u.bound = FALSE /\ u.prepareSent = FALSE BY <1>2, <1>3 DEF Fields
<1>6. \A f \in Fields \ {"bound", "prepareSent"} : u[f] = r[f]
  BY <1>2, <1>3 DEF Fields
<1>7. OnlyOf(r, u, Minor) BY <1>6 DEF OnlyOf, Minor
<1>8. /\ u.frame = r.frame /\ u.lockSurface = r.lockSurface
      /\ u.painted = r.painted /\ u.kfocus = r.kfocus /\ u.saved = r.saved
      /\ u.locked = r.locked
  BY <1>6 DEF Fields
<1>9. Shaped(u)
  <2>1. /\ u.prepareSent \in BOOLEAN /\ u.bound \in BOOLEAN /\ u.frame \in BOOLEAN
        /\ u.lockSurface \in {"none", "set", "mapped"}
        /\ u.painted \in SUBSET (Layers \cup Windows)
        /\ u.kfocus \in Windows \cup {None} /\ u.saved \in Windows \cup {None}
    BY <1>1, <1>5, <1>8 DEF Shaped
  <2> QED BY <1>1, <1>4, <1>7, <2>1, MinorShaped
<1>10. Whole(u) BY <1>1, <1>7, MinorWhole
<1>11. Still(s, u) BY <1>1, <1>6 DEF Still, Fields
<1> QED BY <1>1, <1>5, <1>8, <1>9, <1>10, <1>11 DEF u

-----------------------------------------------------------------------------
(* The inductive invariant.                                                *)

\* All that can be in the queue of the helper's requests: a lock surface that
\* is asked for and then shown, the same when half read, the click on the
\* dialog's button, and the same when half read.
Asking == <<"set_lock_surface", "commit">>
Showing == <<"commit">>
Leaving == <<"unlock", "destroy">>
Left == <<"destroy">>

Typed ==
  /\ pointer \in [focus : Foci, held : BOOLEAN]
  /\ helper \in [phase : {"starting", "bound", "gone"}, dialog : BOOLEAN]
  /\ deaths \in 0..MaxDeaths
  /\ repainted \in BOOLEAN /\ given \in BOOLEAN
  /\ revived \in BOOLEAN /\ unasked \in BOOLEAN

\* Where the helper's dialog and the shell's lock surface are: the flag is set
\* from the event on, through the dialog and its request, until the request
\* is read; the surface is set between two requests and mapped after both, and
\* outlives the dialog until its destruction is read.
TalkOf(s, req, ev, dialog, focus) ==
  /\ req \in {<<>>, Asking, Showing, Leaving, Left}
  /\ s.prepareSent => s.locked /\ s.bound /\ s.lockSurface = "none"
  /\ ev = IF s.prepareSent /\ req = <<>> THEN 1 ELSE 0
  /\ s.lockSurface = "none" <=> req = Asking \/ (req = <<>> /\ ~dialog)
  /\ s.lockSurface = "set" <=> req = Showing
  /\ req = Asking => s.prepareSent
  /\ req \in {Leaving, Left} => ~dialog
  /\ req \in {Asking, Showing} => dialog
  /\ focus = "dialog" => s.lockSurface = "mapped"

Talk == TalkOf(shell, requests, events, helper.dialog, pointer.focus)

\* What is behind a locked screen has neither the keyboard nor, once the screen
\* was repainted, a place in the list of views.
Hidden ==
  /\ shell.locked /\ ~given => shell.kfocus = None
  /\ shell.locked /\ repainted => shell.painted \subseteq {"lock"}
  /\ shell.locked /\ repainted /\ ~pointer.held =>
       pointer.focus \notin Windows \cup {"input_panel"}

\* The windows in the list of views, and the one under the pointer, are there.
Lists ==
  /\ shell.painted \cap Windows \subseteq shell.open
  /\ pointer.focus \in Windows => pointer.focus \in shell.open

Inv == /\ Shaped(shell) /\ Whole(shell) /\ Living(shell)
       /\ Typed /\ Talk /\ Hidden /\ Lists

\* The step of LocksWhenIdle.
LocksIdle == ~shell.locked /\ shell'.locked => shell.power = "idle"

\* The requests of each shape, one after the other.
LEMMA ShapeFacts ==
  /\ Head(Asking) = "set_lock_surface" /\ Tail(Asking) = Showing
  /\ Head(Showing) = "commit" /\ Tail(Showing) = <<>>
  /\ Head(Leaving) = "unlock" /\ Tail(Leaving) = Left
  /\ Head(Left) = "destroy" /\ Tail(Left) = <<>>
  /\ <<>> \o Asking = Asking /\ <<>> \o Leaving = Leaving
<1>1. /\ Head(Asking) = "set_lock_surface" /\ Head(Showing) = "commit"
      /\ Head(Leaving) = "unlock" /\ Head(Left) = "destroy"
  BY DEF Asking, Showing, Leaving, Left
<1>2. Tail(Showing) = <<>> /\ Tail(Left) = <<>> BY DEF Showing, Left
<1>3. Tail(Asking) = Showing /\ Tail(Leaving) = Left
  BY DEF Asking, Showing, Leaving, Left
<1>4. <<>> \o Asking = Asking /\ <<>> \o Leaving = Leaving
  BY DEF Asking, Leaving
<1> QED BY <1>1, <1>2, <1>3, <1>4

LEMMA ShapesDiffer ==
  /\ Asking # <<>> /\ Showing # <<>> /\ Leaving # <<>> /\ Left # <<>>
  /\ Asking # Showing /\ Asking # Leaving /\ Asking # Left
  /\ Showing # Leaving /\ Showing # Left /\ Leaving # Left
  BY DEF Asking, Showing, Leaving, Left

\* The initial states.
THEOREM Initially == Init => Inv
<1> SUFFICES ASSUME Init PROVE Inv OBVIOUS
<1>1. PICK fades \in BOOLEAN :
       shell = [power |-> "active", locked |-> FALSE, showing |-> FALSE,
                attached |-> {"panel", "workspace"}, corrupt |-> FALSE,
                fade |-> [view |-> fades, animation |-> FALSE, type |-> "in"],
                startup |-> IF fades THEN "timer" ELSE "off",
                bound |-> FALSE, prepareSent |-> FALSE, lockSurface |-> "none",
                frame |-> TRUE, kfocus |-> None, saved |-> None, away |-> None,
                open |-> {}, painted |-> {"panel", "workspace"},
                super |-> FALSE, switching |-> FALSE, current |-> None]
  BY DEF Init
<1>2. DOMAIN shell = Fields BY <1>1 DEF Fields
<1>3. /\ shell.power = "active" /\ shell.locked = FALSE /\ shell.showing = FALSE
      /\ shell.attached = {"panel", "workspace"} /\ shell.corrupt = FALSE
      /\ shell.fade = [view |-> fades, animation |-> FALSE, type |-> "in"]
      /\ shell.startup = IF fades THEN "timer" ELSE "off"
      /\ shell.bound = FALSE /\ shell.prepareSent = FALSE
      /\ shell.lockSurface = "none" /\ shell.frame = TRUE
      /\ shell.kfocus = None /\ shell.saved = None
      /\ shell.painted = {"panel", "workspace"}
      /\ shell.open = {} /\ shell.away = None /\ shell.current = None
      /\ shell.super = FALSE /\ shell.switching = FALSE
  BY <1>1
<1>31. /\ DOMAIN shell.fade = {"view", "animation", "type"}
       /\ shell.fade.view = fades /\ shell.fade.animation = FALSE
       /\ shell.fade.type = "in"
  BY <1>3
<1>32. Desk(shell) /\ Living(shell) BY <1>3 DEF Desk, Living
<1>4. Shaped(shell) BY <1>2, <1>3, <1>31, <1>32 DEF Shaped, Layers
<1>5. Whole(shell)
  <2>1. LayersOf(shell) = {"panel", "workspace"}
    BY <1>3 DEF LayersOf, InputPanels
  <2>2. shell.fade.view => shell.startup # "off" BY <1>3, <1>31
  <2>3. /\ ~shell.corrupt /\ ~shell.fade.animation
        /\ shell.attached = LayersOf(shell)
    BY <1>3, <1>31, <2>1
  <2> QED BY <2>2, <2>3 DEF Whole
<1>6. Typed
  <2>1. /\ pointer = [focus |-> "background", held |-> FALSE]
        /\ helper = [phase |-> "starting", dialog |-> FALSE]
        /\ deaths = 0 /\ repainted = FALSE /\ given = FALSE
        /\ revived = FALSE /\ unasked = FALSE
    BY DEF Init
  <2>2. "background" \in Foci BY DEF Foci
  <2>3. pointer \in [focus : Foci, held : BOOLEAN] BY <2>1, <2>2
  <2>4. helper \in [phase : {"starting", "bound", "gone"}, dialog : BOOLEAN]
    BY <2>1
  <2>5. deaths \in 0..MaxDeaths BY <2>1, LockAssumption
  <2> QED BY <2>1, <2>3, <2>4, <2>5 DEF Typed
<1>7. Talk BY <1>3, ShapesDiffer DEF Init, Talk, TalkOf
<1>8. Hidden BY <1>3 DEF Hidden
<1>9. Lists
  <2>1. {"panel", "workspace", "background"} \cap Windows = {}
    BY LockAssumption DEF Layers
  <2>2. pointer.focus = "background" BY DEF Init
  <2> QED BY <1>3, <2>1, <2>2 DEF Lists
<1> QED BY <1>9, <1>32, <1>4, <1>5, <1>6, <1>7, <1>8 DEF Inv

-----------------------------------------------------------------------------
(* The talk with the helper, and what is hidden, after a step.             *)

\* A step that reads no request, sends no event and leaves the lock surface.
LEMMA TalkKept ==
  ASSUME NEW s, NEW t, NEW req, NEW ev, NEW dialog, NEW focus, NEW focus1,
         TalkOf(s, req, ev, dialog, focus),
         t.prepareSent = s.prepareSent, t.lockSurface = s.lockSurface,
         s.prepareSent => t.locked /\ t.bound,
         focus1 = "dialog" => t.lockSurface = "mapped"
  PROVE  TalkOf(t, req, ev, dialog, focus1)
  BY DEF TalkOf

\* A wake-up may ask for a lock surface, when none is asked for and none there.
LEMMA TalkWoken ==
  ASSUME NEW s, Shaped(s), NEW t, Woken(s, t), NEW ev1,
         NEW req, NEW ev, NEW dialog \in BOOLEAN, NEW focus, NEW focus1,
         TalkOf(s, req, ev, dialog, focus),
         ev1 = ev + IF ~s.prepareSent /\ t.prepareSent THEN 1 ELSE 0,
         focus1 = "dialog" => s.lockSurface = "mapped"
  PROVE  TalkOf(t, req, ev1, dialog, focus1)
<1>1. t.bound = s.bound /\ t.lockSurface = s.lockSurface
  BY DEF Woken, OnlyOf, Fields
<1>2. s.locked /\ s.bound => t.locked BY DEF Woken
<1>3. t.prepareSent <=> s.prepareSent \/
        (s.power # "active" /\ s.locked /\ s.bound /\ s.lockSurface = "none")
  BY DEF Woken
<1>4. s.prepareSent \in BOOLEAN /\ t.prepareSent \in BOOLEAN
  BY DEF Woken, Shaped
<1>5. CASE t.prepareSent /\ ~s.prepareSent
  <2>1. s.locked /\ s.bound /\ s.lockSurface = "none" BY <1>3, <1>5
  <2>2. req = <<>> /\ ~dialog BY <1>5, <2>1 DEF TalkOf
  <2>3. ev = 0 /\ ev1 = 1 BY <1>5 DEF TalkOf
  <2> QED BY <1>1, <1>2, <1>5, <2>1, <2>2, <2>3, ShapesDiffer DEF TalkOf
<1>6. CASE t.prepareSent <=> s.prepareSent
  <2>1. ev1 = ev BY <1>6 DEF TalkOf
  <2>2. t.prepareSent = s.prepareSent BY <1>4, <1>6
  <2>3. s.prepareSent => t.locked /\ t.bound BY <1>1, <1>2 DEF TalkOf
  <2> QED BY <1>1, <2>1, <2>2, <2>3, TalkKept
<1> QED BY <1>3, <1>5, <1>6

\* What the pointer may pick.
LEMMA PickedFacts ==
  ASSUME NEW s, Shaped(s), NEW v \in Pickable(s)
  PROVE  /\ v \in Foci
         /\ v \in Windows => v \in s.painted
         /\ v = "dialog" => s.lockSurface = "mapped"
         /\ s.painted \subseteq {"lock"} => v \notin Windows \cup {"input_panel"}
<1>1. \A w \in Windows : w # "dialog" /\ w # "input_panel" /\ w # "background"
  BY LockAssumption DEF Layers
<1>2. v \in Foci BY DEF Pickable, Foci
<1>3. v = "dialog" => s.lockSurface = "mapped" BY <1>1 DEF Pickable
<1>4. s.painted \subseteq {"lock"} => v \notin Windows \cup {"input_panel"}
  <2> SUFFICES ASSUME s.painted \subseteq {"lock"}
               PROVE  v \notin Windows \cup {"input_panel"}
    OBVIOUS
  <2>1. s.painted \cap (Windows \cup {"input_panel"}) = {}
    BY LockAssumption DEF Layers
  <2> QED BY <1>1, <2>1 DEF Pickable
<1>5. v \in Windows => v \in s.painted BY <1>1 DEF Pickable
<1> QED BY <1>2, <1>3, <1>4, <1>5

\* A focus is changed.
LEMMA PointerFacts ==
  ASSUME NEW p \in [focus : Foci, held : BOOLEAN], NEW v \in Foci,
         NEW q, q = [p EXCEPT !.focus = v]
  PROVE  q \in [focus : Foci, held : BOOLEAN] /\ q.focus = v /\ q.held = p.held
  OBVIOUS

\* The user's motion, or the next repaint, picks.
LEMMA RepickFacts ==
  ASSUME NEW s, Shaped(s), Typed, Repick(s)
  PROVE  /\ pointer' \in [focus : Foci, held : BOOLEAN]
         /\ pointer'.held = pointer.held
         /\ pointer'.focus \in Windows =>
              pointer'.focus \in s.painted \cup {pointer.focus}
         /\ pointer'.focus = "dialog" =>
              s.lockSurface = "mapped" \/ pointer'.focus = pointer.focus
         /\ s.painted \subseteq {"lock"} /\ ~pointer.held =>
              pointer'.focus \notin Windows \cup {"input_panel"}
<1>0. pointer \in [focus : Foci, held : BOOLEAN] BY DEF Typed
<1>1. CASE pointer.held BY <1>0, <1>1 DEF Repick
<1>2. CASE ~pointer.held
  <2>1. PICK v \in Pickable(s) : pointer' = [pointer EXCEPT !.focus = v]
    BY <1>2 DEF Repick
  <2>2. /\ v \in Foci /\ (v \in Windows => v \in s.painted)
        /\ v = "dialog" => s.lockSurface = "mapped"
        /\ s.painted \subseteq {"lock"} => v \notin Windows \cup {"input_panel"}
    BY PickedFacts
  <2>3. /\ pointer' \in [focus : Foci, held : BOOLEAN]
        /\ pointer'.focus = v /\ pointer'.held = pointer.held
    BY <1>0, <2>1, <2>2, PointerFacts
  <2> QED BY <2>2, <2>3
<1> QED BY <1>0, <1>1, <1>2

\* The histories keep their types.
LEMMA HistoryTyped ==
  ASSUME Shaped(shell'), Typed, NEW gives \in BOOLEAN, HistoryAfter(gives)
  PROVE  given' \in BOOLEAN /\ revived' \in BOOLEAN
  BY DEF Shaped, Typed, HistoryAfter

LEMMA RecordedIfTyped ==
  ASSUME Shaped(shell'), Typed, NEW gives \in BOOLEAN, RecordedIf(gives)
  PROVE  given' \in BOOLEAN /\ revived' \in BOOLEAN /\ repainted' \in BOOLEAN
<1>1. given' \in BOOLEAN /\ revived' \in BOOLEAN
  BY HistoryTyped DEF RecordedIf
<1>2. repainted' \in BOOLEAN BY DEF RecordedIf, Shaped, Typed
<1> QED BY <1>1, <1>2

LEMMA RecordedTyped ==
  ASSUME Shaped(shell'), Typed, Recorded
  PROVE  given' \in BOOLEAN /\ revived' \in BOOLEAN /\ repainted' \in BOOLEAN
  BY RecordedIfTyped DEF Recorded

\* The same is hidden after a step that neither locks the screen nor paints
\* nor moves the pointer.
LEMMA HiddenKept ==
  ASSUME Hidden, Typed, Shaped(shell'),
         shell'.locked => shell.locked /\ shell'.kfocus = shell.kfocus
                          /\ shell'.painted \subseteq shell.painted,
         Recorded, pointer' = pointer
  PROVE  Hidden'
  BY DEF Hidden, Typed, Shaped, Recorded, RecordedIf, HistoryAfter

\* Of what was painted, or would be, the windows are there.
LEMMA ListsKept ==
  ASSUME Shaped(shell), Lists, shell'.open = shell.open,
         shell'.painted \subseteq shell.painted \cup Listed(shell),
         pointer'.focus \in Windows =>
           pointer'.focus \in shell.painted \cup Listed(shell) \cup {pointer.focus}
  PROVE  Lists'
<1>1. Listed(shell) \cap Windows \subseteq shell.open
  <2>1. shell.attached \subseteq Layers BY DEF Shaped
  <2>2. Layers \cap Windows = {} BY LockAssumption
  <2> QED BY <2>1, <2>2 DEF Listed
<1> QED BY <1>1 DEF Lists

-----------------------------------------------------------------------------
(* The steps.                                                              *)

\* Who has the keyboard and what is painted after a wake-up.
LEMMA WokenHidden ==
  ASSUME NEW s, NEW t, Woken(s, t)
  PROVE  /\ t.painted = s.painted /\ t.lockSurface = s.lockSurface
         /\ t.locked => s.locked /\ t.kfocus = s.kfocus
         /\ Living(s) => Living(t)
         /\ t.open = s.open
<1>1. /\ Still(s, t) /\ t.kfocus \in {s.kfocus, s.saved}
      /\ t.painted = s.painted /\ t.lockSurface = s.lockSurface
      /\ t.locked => s.locked /\ t.kfocus = s.kfocus
  BY DEF Woken, OnlyOf, Fields, Still
<1> QED BY <1>1, LivingKept DEF Still

LEMMA MotionStep == Inv /\ Motion => Inv' /\ LocksIdle
<1> SUFFICES ASSUME Inv, Motion PROVE Inv' /\ LocksIdle OBVIOUS
<1>0. /\ Shaped(shell) /\ Whole(shell) /\ Typed /\ Talk /\ Hidden
      /\ Living(shell) /\ Lists
  BY DEF Inv
<1>1. /\ shell' = Wake(shell) /\ Sends(shell, shell') /\ Repick(shell')
      /\ Recorded
      /\ UNCHANGED <<helper, requests, deaths, unasked>>
  BY DEF Motion
<1>2. Woken(shell, shell') BY <1>0, <1>1, WakeFacts
<1>3. Shaped(shell') /\ Whole(shell') BY <1>2 DEF Woken
<1>4. /\ shell'.painted = shell.painted /\ shell'.lockSurface = shell.lockSurface
      /\ shell'.locked => shell.locked /\ shell'.kfocus = shell.kfocus
      /\ Living(shell') /\ shell'.open = shell.open
  BY <1>0, <1>2, WokenHidden
<1>5. /\ pointer' \in [focus : Foci, held : BOOLEAN]
      /\ pointer'.held = pointer.held
      /\ pointer'.focus \in Windows =>
           pointer'.focus \in shell'.painted \cup {pointer.focus}
      /\ pointer'.focus = "dialog" =>
           shell'.lockSurface = "mapped" \/ pointer'.focus = pointer.focus
      /\ shell'.painted \subseteq {"lock"} /\ ~pointer.held =>
           pointer'.focus \notin Windows \cup {"input_panel"}
  BY <1>0, <1>1, <1>3, RepickFacts
<1>6. Typed' BY <1>0, <1>1, <1>3, <1>5, RecordedTyped DEF Typed
<1>7. Talk'
  <2>1. pointer'.focus = "dialog" => shell.lockSurface = "mapped"
    BY <1>0, <1>4, <1>5 DEF Talk, TalkOf
  <2>2. helper.dialog \in BOOLEAN BY <1>0 DEF Typed
  <2>3. events' = events + IF ~shell.prepareSent /\ shell'.prepareSent
                           THEN 1 ELSE 0
    BY <1>1 DEF Sends
  <2>4. TalkOf(shell, requests, events, helper.dialog, pointer.focus)
    BY <1>0 DEF Talk
  <2>5. TalkOf(shell', requests, events', helper.dialog, pointer'.focus)
    BY <1>0, <1>2, <2>1, <2>2, <2>3, <2>4, TalkWoken
  <2> QED BY <1>1, <2>5 DEF Talk
<1>8. Hidden'
  BY <1>0, <1>1, <1>3, <1>4, <1>5
  DEF Hidden, Typed, Shaped, Recorded, RecordedIf, HistoryAfter
<1>9. Lists' BY <1>0, <1>4, <1>5, ListsKept
<1> QED BY <1>3, <1>4, <1>6, <1>7, <1>8, <1>9 DEF Inv, LocksIdle

\* The focuses and the switcher's state.
Hands == {"kfocus", "saved", "away", "super", "switching", "current"}

\* Only those and the windows change, to values of their types.
LEMMA HandsFacts ==
  ASSUME NEW s, Shaped(s), Whole(s), NEW t, DOMAIN t = Fields,
         OnlyOf(s, t, Hands \cup {"open"}), Desk(t),
         t.kfocus \in Windows \cup {None}, t.saved \in Windows \cup {None}
  PROVE  Shaped(t) /\ Whole(t)
<1>1. /\ t.power = s.power /\ t.locked = s.locked /\ t.showing = s.showing
      /\ t.attached = s.attached /\ t.corrupt = s.corrupt /\ t.fade = s.fade
      /\ t.startup = s.startup /\ t.bound = s.bound /\ t.frame = s.frame
      /\ t.prepareSent = s.prepareSent /\ t.lockSurface = s.lockSurface
      /\ t.painted = s.painted
  BY DEF OnlyOf, Fields, Hands
<1>2. LayersOf(t) = LayersOf(s) BY <1>1 DEF LayersOf, InputPanels
<1>3. Shaped(t) BY <1>1 DEF Shaped
<1>4. Whole(t) BY <1>1, <1>2 DEF Whole
<1> QED BY <1>3, <1>4

\* A button or a key wakes the compositor, and may then move the focuses.
LEMMA KeyStep ==
  ASSUME Inv, NEW s, Woken(shell, s), Sends(shell, s),
         NEW gives \in BOOLEAN, RecordedIf(gives),
         pointer' \in [focus : Foci, held : BOOLEAN],
         pointer'.focus = pointer.focus, pointer.held => pointer'.held,
         UNCHANGED <<helper, requests, deaths, unasked>>,
         OnlyOf(s, shell', Hands), Shaped(shell'), Whole(shell'), Living(shell'),
         gives \/ shell'.kfocus \in {s.kfocus, None}
  PROVE  Inv' /\ LocksIdle
<1>0. Shaped(shell) /\ Typed /\ Talk /\ Hidden /\ Lists BY DEF Inv
<1>1. /\ s.painted = shell.painted /\ s.lockSurface = shell.lockSurface
      /\ s.locked => shell.locked /\ s.kfocus = shell.kfocus
      /\ s.open = shell.open
  BY WokenHidden
<1>2. /\ shell'.painted = s.painted /\ shell'.lockSurface = s.lockSurface
      /\ shell'.locked = s.locked /\ shell'.prepareSent = s.prepareSent
      /\ shell'.bound = s.bound /\ shell'.open = s.open
  BY DEF OnlyOf, Fields, Hands
<1>3. Typed' BY <1>0, RecordedIfTyped DEF Typed
<1>4. Talk'
  <2>1. TalkOf(shell, requests, events, helper.dialog, pointer.focus)
    BY <1>0 DEF Talk
  <2>2. helper.dialog \in BOOLEAN BY <1>0 DEF Typed
  <2>3. pointer.focus = "dialog" => shell.lockSurface = "mapped"
    BY <2>1 DEF TalkOf
  <2>4. events' = events + IF ~shell.prepareSent /\ s.prepareSent
                           THEN 1 ELSE 0
    BY DEF Sends
  <2>5. TalkOf(s, requests, events', helper.dialog, pointer.focus)
    BY <1>0, <2>1, <2>2, <2>3, <2>4, TalkWoken
  <2>6. s.prepareSent => shell'.locked /\ shell'.bound
    BY <1>2, <2>5 DEF TalkOf
  <2>7. pointer.focus = "dialog" => shell'.lockSurface = "mapped"
    BY <1>1, <1>2, <2>3
  <2>8. TalkOf(shell', requests, events', helper.dialog, pointer.focus)
    BY <1>2, <2>5, <2>6, <2>7, TalkKept
  <2> QED BY <2>8 DEF Talk
<1>5. Hidden'
  <2>1. shell'.locked /\ ~given' => shell'.kfocus = None
    <3> SUFFICES ASSUME shell'.locked, ~given' PROVE shell'.kfocus = None
      OBVIOUS
    <3>1. ~given /\ ~gives
      BY <1>0 DEF RecordedIf, HistoryAfter, Typed, Shaped
    <3>2. shell.locked /\ s.kfocus = shell.kfocus BY <1>1, <1>2
    <3> QED BY <1>0, <3>1, <3>2 DEF Hidden
  <2>2. shell'.locked /\ repainted' => shell'.painted \subseteq {"lock"}
    BY <1>0, <1>1, <1>2 DEF Hidden, RecordedIf
  <2>3. shell'.locked /\ repainted' /\ ~pointer'.held =>
          pointer'.focus \notin Windows \cup {"input_panel"}
    BY <1>0, <1>1, <1>2 DEF Hidden, RecordedIf, Typed
  <2> QED BY <2>1, <2>2, <2>3 DEF Hidden
<1>6. Lists' BY <1>0, <1>1, <1>2, ListsKept
<1> QED BY <1>1, <1>2, <1>3, <1>4, <1>5, <1>6 DEF Inv, LocksIdle

LEMMA PressStep == Inv /\ Press => Inv' /\ LocksIdle
<1> SUFFICES ASSUME Inv, Press PROVE Inv' /\ LocksIdle OBVIOUS
<1> DEFINE s == Wake(shell)
           hit == pointer.focus \in Windows /\ pointer.focus # s.saved
<1>0. Shaped(shell) /\ Whole(shell) /\ Typed /\ Living(shell) /\ Lists BY DEF Inv
<1>1. /\ pointer' = [pointer EXCEPT !.held = TRUE]
      /\ shell' = IF hit THEN Activate(s, pointer.focus) ELSE s
      /\ Sends(shell, s) /\ RecordedIf(hit)
      /\ UNCHANGED <<helper, requests, deaths, unasked>>
  BY DEF Press
<1>2. Woken(shell, s) BY <1>0, WakeFacts
<1> HIDE DEF s
<1>3. Shaped(s) /\ Whole(s) BY <1>2 DEF Woken
<1>4. Living(s) /\ s.open = shell.open BY <1>0, <1>2, WokenHidden
<1>5. /\ Shaped(shell') /\ Whole(shell') /\ Living(shell')
      /\ OnlyOf(s, shell', Hands) /\ (~hit => shell' = s)
  <2>1. CASE hit
    <3>1. pointer.focus \in s.open BY <1>0, <1>4, <2>1 DEF Lists
    <3>2. /\ Shaped(shell') /\ Whole(shell')
          /\ OnlyOf(s, shell', {"kfocus", "saved"})
          /\ shell'.kfocus = pointer.focus /\ shell'.saved = pointer.focus
      BY <1>1, <1>3, <2>1, ActivateFacts
    <3>3. /\ OnlyOf(s, shell', Hands) /\ shell'.open = s.open
          /\ shell'.away = s.away /\ shell'.current = s.current
      BY <3>2 DEF OnlyOf, Fields, Hands
    <3>4. Living(shell') BY <1>4, <3>1, <3>2, <3>3 DEF Living
    <3> QED BY <2>1, <3>2, <3>3, <3>4
  <2>2. CASE ~hit BY <1>1, <1>3, <1>4, <2>2 DEF OnlyOf
  <2> QED BY <2>1, <2>2
<1> HIDE DEF hit
<1>7. /\ pointer' \in [focus : Foci, held : BOOLEAN]
      /\ pointer'.focus = pointer.focus /\ pointer'.held = TRUE
  BY <1>0, <1>1 DEF Typed
<1>8. hit \in BOOLEAN BY DEF hit
<1>9. hit \/ shell'.kfocus \in {s.kfocus, None} BY <1>5
<1> QED BY <1>1, <1>2, <1>5, <1>7, <1>8, <1>9, KeyStep

LEMMA ReleaseStep == Inv /\ Release => Inv' /\ LocksIdle
<1> SUFFICES ASSUME Inv, Release PROVE Inv' /\ LocksIdle OBVIOUS
<1>0. /\ Shaped(shell) /\ Whole(shell) /\ Typed /\ Talk /\ Hidden
      /\ Living(shell) /\ Lists
  BY DEF Inv
<1>1. /\ shell' = Wake(shell) /\ Sends(shell, shell') /\ Recorded
      /\ UNCHANGED <<deaths, unasked>>
      /\ IF pointer.focus = "dialog" /\ helper.dialog
         THEN /\ helper' = [helper EXCEPT !.dialog = FALSE]
              /\ requests' = requests \o Leaving
         ELSE UNCHANGED <<helper, requests>>
  BY DEF Release, Leaving
<1>2. Woken(shell, shell') BY <1>0, <1>1, WakeFacts
<1>3. Shaped(shell') /\ Whole(shell') BY <1>2 DEF Woken
<1>4. /\ shell'.painted = shell.painted /\ shell'.lockSurface = shell.lockSurface
      /\ shell'.locked => shell.locked /\ shell'.kfocus = shell.kfocus
      /\ Living(shell') /\ shell'.open = shell.open
  BY <1>0, <1>2, WokenHidden
<1>5. PICK v \in Pickable(shell') : pointer' = [focus |-> v, held |-> FALSE]
  BY DEF Release
<1>6. /\ v \in Foci /\ (v \in Windows => v \in shell'.painted)
      /\ v = "dialog" => shell'.lockSurface = "mapped"
      /\ shell'.painted \subseteq {"lock"} =>
           v \notin Windows \cup {"input_panel"}
  BY <1>3, PickedFacts
<1>7. /\ pointer' \in [focus : Foci, held : BOOLEAN] /\ pointer'.focus = v
  BY <1>5, <1>6
<1>8. /\ helper' \in [phase : {"starting", "bound", "gone"}, dialog : BOOLEAN]
      /\ pointer.focus = "dialog" /\ helper.dialog => helper'.dialog = FALSE
  <2>1. helper \in [phase : {"starting", "bound", "gone"}, dialog : BOOLEAN]
    BY <1>0 DEF Typed
  <2> QED BY <1>1, <2>1
<1>9. Typed'
  BY <1>0, <1>1, <1>3, <1>7, <1>8, RecordedTyped DEF Typed
<1>10. Talk'
  <2>1. helper.dialog \in BOOLEAN BY <1>0 DEF Typed
  <2>2. events' = events + IF ~shell.prepareSent /\ shell'.prepareSent
                           THEN 1 ELSE 0
    BY <1>1 DEF Sends
  <2>3. TalkOf(shell, requests, events, helper.dialog, pointer.focus)
    BY <1>0 DEF Talk
  <2>4. v = "dialog" => shell.lockSurface = "mapped" BY <1>4, <1>6
  <2>5. TalkOf(shell', requests, events', helper.dialog, v)
    BY <1>0, <1>2, <2>1, <2>2, <2>3, <2>4, TalkWoken
  <2>6. CASE pointer.focus = "dialog" /\ helper.dialog
    <3>1. shell.lockSurface = "mapped" BY <2>3, <2>6 DEF TalkOf
    <3>2. requests = <<>> BY <2>3, <2>6, <3>1, ShapesDiffer DEF TalkOf
    <3>3. requests' = Leaving BY <1>1, <2>6, <3>2, ShapeFacts
    <3>4. shell'.lockSurface = "mapped" BY <1>4, <3>1
    <3>5. ~shell'.prepareSent /\ events' = 0
      BY <2>5, <3>2, <3>4 DEF TalkOf
    <3>6. helper'.dialog = FALSE BY <1>8, <2>6
    <3>7. TalkOf(shell', Leaving, events', FALSE, v)
      BY <3>4, <3>5, ShapesDiffer DEF TalkOf
    <3> QED BY <1>7, <3>3, <3>6, <3>7 DEF Talk
  <2>7. CASE ~(pointer.focus = "dialog" /\ helper.dialog)
    BY <1>1, <1>7, <2>5, <2>7 DEF Talk
  <2> QED BY <2>6, <2>7
<1>11. Hidden'
  <2>1. shell'.locked /\ ~given' => shell'.kfocus = None
    BY <1>0, <1>1, <1>3, <1>4
    DEF Hidden, Typed, Shaped, Recorded, RecordedIf, HistoryAfter
  <2>2. shell'.locked /\ repainted' => shell'.painted \subseteq {"lock"}
    BY <1>0, <1>1, <1>4 DEF Hidden, Recorded, RecordedIf
  <2> QED BY <1>6, <1>7, <2>1, <2>2 DEF Hidden
<1>12. Lists' BY <1>0, <1>4, <1>6, <1>7, ListsKept
<1> QED BY <1>3, <1>4, <1>9, <1>10, <1>11, <1>12 DEF Inv, LocksIdle

\* The modifier is pressed.
LEMMA PressSuperStep == Inv /\ PressSuper => Inv' /\ LocksIdle
<1> SUFFICES ASSUME Inv, PressSuper PROVE Inv' /\ LocksIdle OBVIOUS
<1> DEFINE s == Wake(shell)
<1>0. Shaped(shell) /\ Whole(shell) /\ Typed /\ Living(shell) BY DEF Inv
<1>1. /\ shell' = [s EXCEPT !.super = TRUE] /\ Sends(shell, s)
      /\ RecordedIf(FALSE) /\ pointer' = pointer
      /\ UNCHANGED <<helper, requests, deaths, unasked>>
  BY DEF PressSuper, Recorded
<1>2. Woken(shell, s) BY <1>0, WakeFacts
<1> HIDE DEF s
<1>3. Shaped(s) /\ Whole(s) /\ DOMAIN s = Fields BY <1>2 DEF Woken, Shaped
<1>4. Living(s) BY <1>0, <1>2, WokenHidden
<1>5. DOMAIN shell' = Fields /\ shell'.super = TRUE
  BY <1>1, <1>3 DEF Fields
<1>6. \A f \in Fields \ {"super"} : shell'[f] = s[f] BY <1>1, <1>3
<1>7. /\ shell'.kfocus = s.kfocus /\ shell'.saved = s.saved
      /\ shell'.away = s.away /\ shell'.current = s.current
      /\ shell'.open = s.open /\ shell'.switching = s.switching
  BY <1>6 DEF Fields
<1>8. OnlyOf(s, shell', Hands) /\ OnlyOf(s, shell', Hands \cup {"open"})
  BY <1>6 DEF OnlyOf, Hands
<1>9. Desk(shell') BY <1>3, <1>5, <1>7 DEF Shaped, Desk
<1>10. shell'.kfocus \in Windows \cup {None} /\ shell'.saved \in Windows \cup {None}
  BY <1>3, <1>7 DEF Shaped
<1>11. Shaped(shell') /\ Whole(shell')
  BY <1>3, <1>5, <1>8, <1>9, <1>10, HandsFacts
<1>12. Living(shell') BY <1>4, <1>7 DEF Living
<1>13. pointer' \in [focus : Foci, held : BOOLEAN] BY <1>0, <1>1 DEF Typed
<1> QED BY <1>1, <1>2, <1>7, <1>8, <1>11, <1>12, <1>13, KeyStep

\* The switcher takes the keyboard, or goes on to another window.
LEMMA PressTabStep == Inv /\ PressTab => Inv' /\ LocksIdle
<1> SUFFICES ASSUME Inv, PressTab PROVE Inv' /\ LocksIdle OBVIOUS
<1> DEFINE s == Wake(shell)
           z == [s EXCEPT !.switching = TRUE, !.kfocus = None]
<1>0. Shaped(shell) /\ Whole(shell) /\ Typed /\ Living(shell) BY DEF Inv
<1>1. PICK w \in (IF s.open = {} THEN {None} ELSE s.open) :
        shell' = [(IF s.switching THEN s ELSE z) EXCEPT !.current = w]
  BY DEF PressTab
<1>2. /\ Sends(shell, s) /\ RecordedIf(FALSE) /\ pointer' = pointer
      /\ UNCHANGED <<helper, requests, deaths, unasked>>
  BY DEF PressTab, Recorded
<1>3. Woken(shell, s) BY <1>0, WakeFacts
<1> HIDE DEF s
<1>4. Shaped(s) /\ Whole(s) /\ DOMAIN s = Fields BY <1>3 DEF Woken, Shaped
<1>5. Living(s) BY <1>0, <1>3, WokenHidden
<1>6. w \in s.open \cup {None} /\ w \in Windows \cup {None}
  BY <1>4 DEF Shaped, Desk
<1>7. /\ DOMAIN shell' = Fields /\ shell'.current = w
      /\ shell'.switching \in BOOLEAN /\ shell'.kfocus \in {s.kfocus, None}
      /\ \A f \in Fields \ {"current", "switching", "kfocus"} : shell'[f] = s[f]
  <2>1. CASE s.switching
    <3>1. shell' = [s EXCEPT !.current = w] BY <1>1, <2>1
    <3>2. DOMAIN shell' = Fields /\ shell'.current = w
      BY <1>4, <3>1 DEF Fields
    <3>3. \A f \in Fields \ {"current"} : shell'[f] = s[f] BY <1>4, <3>1
    <3>4. shell'.switching = s.switching /\ shell'.kfocus = s.kfocus
      BY <3>3 DEF Fields
    <3>5. s.switching \in BOOLEAN BY <1>4 DEF Shaped, Desk
    <3> QED BY <3>2, <3>3, <3>4, <3>5
  <2>2. CASE ~s.switching
    <3>1. /\ DOMAIN z = Fields /\ z.switching = TRUE /\ z.kfocus = None
          /\ \A f \in Fields \ {"switching", "kfocus"} : z[f] = s[f]
      <4>1. DOMAIN z = Fields BY <1>4
      <4>2. z.switching = TRUE /\ z.kfocus = None BY <1>4 DEF Fields
      <4>3. \A f \in Fields \ {"switching", "kfocus"} : z[f] = s[f] BY <1>4
      <4> QED BY <4>1, <4>2, <4>3
    <3> HIDE DEF z
    <3>2. shell' = [z EXCEPT !.current = w] BY <1>1, <2>2
    <3>3. DOMAIN shell' = Fields /\ shell'.current = w
      BY <3>1, <3>2 DEF Fields
    <3>4. \A f \in Fields \ {"current"} : shell'[f] = z[f] BY <3>1, <3>2
    <3>5. shell'.switching = TRUE /\ shell'.kfocus = None
      BY <3>1, <3>4 DEF Fields
    <3> QED BY <3>1, <3>3, <3>4, <3>5
  <2> QED BY <2>1, <2>2
<1>8. /\ shell'.saved = s.saved /\ shell'.away = s.away
      /\ shell'.open = s.open /\ shell'.super = s.super
  BY <1>7 DEF Fields
<1>9. OnlyOf(s, shell', Hands) /\ OnlyOf(s, shell', Hands \cup {"open"})
  BY <1>7 DEF OnlyOf, Hands
<1>10. Desk(shell') BY <1>4, <1>6, <1>7, <1>8 DEF Shaped, Desk
<1>11. shell'.kfocus \in Windows \cup {None} /\ shell'.saved \in Windows \cup {None}
  BY <1>4, <1>7, <1>8 DEF Shaped
<1>12. Shaped(shell') /\ Whole(shell')
  BY <1>4, <1>7, <1>9, <1>10, <1>11, HandsFacts
<1>13. Living(shell') BY <1>5, <1>6, <1>7, <1>8 DEF Living
<1>14. pointer' \in [focus : Foci, held : BOOLEAN] BY <1>0, <1>2 DEF Typed
<1> QED BY <1>2, <1>3, <1>7, <1>9, <1>12, <1>13, <1>14, KeyStep

\* The switcher's choice, if there is one, gets the keyboard.
LEMMA ReleaseSuperStep == Inv /\ ReleaseSuper => Inv' /\ LocksIdle
<1> SUFFICES ASSUME Inv, ReleaseSuper PROVE Inv' /\ LocksIdle OBVIOUS
<1> DEFINE s == Wake(shell)
           t == IF s.current = None THEN s ELSE Activate(s, s.current)
           u == [t EXCEPT !.switching = FALSE, !.current = None]
           gives == s.current # None
<1>0. Shaped(shell) /\ Whole(shell) /\ Typed /\ Living(shell) BY DEF Inv
<1>1. /\ shell' = [u EXCEPT !.super = FALSE] /\ Sends(shell, s)
      /\ RecordedIf(gives) /\ pointer' = pointer
      /\ UNCHANGED <<helper, requests, deaths, unasked>>
  BY DEF ReleaseSuper, SwitcherDestroy
<1>2. Woken(shell, s) BY <1>0, WakeFacts
<1> HIDE DEF s
<1>3. Shaped(s) /\ Whole(s) BY <1>2 DEF Woken
<1>4. Living(s) BY <1>0, <1>2, WokenHidden
<1>5. /\ Shaped(t) /\ Whole(t) /\ OnlyOf(s, t, {"kfocus", "saved"}) /\ Living(t)
      /\ gives \/ t.kfocus = s.kfocus
  <2>1. CASE s.current = None
    BY <1>3, <1>4, <2>1 DEF OnlyOf
  <2>2. CASE s.current # None
    <3> DEFINE w == s.current
    <3>1. w \in Windows /\ w \in s.open
      BY <1>3, <1>4, <2>2 DEF Shaped, Desk, Living
    <3>2. t = Activate(s, w) BY <2>2
    <3> HIDE DEF t, w
    <3>3. /\ Shaped(t) /\ Whole(t) /\ OnlyOf(s, t, {"kfocus", "saved"})
          /\ t.kfocus = w /\ t.saved = w
      BY <1>3, <3>1, <3>2, ActivateFacts
    <3>4. t.open = s.open /\ t.away = s.away /\ t.current = s.current
      BY <3>3 DEF OnlyOf, Fields
    <3>5. Living(t) BY <1>4, <3>1, <3>3, <3>4 DEF Living
    <3> QED BY <2>2, <3>3, <3>5
  <2> QED BY <2>1, <2>2
<1> HIDE DEF t
<1>6. DOMAIN t = Fields BY <1>5 DEF Shaped
<1>7. /\ DOMAIN u = Fields /\ u.switching = FALSE /\ u.current = None
      /\ \A f \in Fields \ {"switching", "current"} : u[f] = t[f]
  <2>1. DOMAIN u = Fields BY <1>6
  <2>2. u.switching = FALSE /\ u.current = None BY <1>6 DEF Fields
  <2>3. \A f \in Fields \ {"switching", "current"} : u[f] = t[f] BY <1>6
  <2> QED BY <2>1, <2>2, <2>3
<1> HIDE DEF u
<1>8. DOMAIN shell' = Fields /\ shell'.super = FALSE
  BY <1>1, <1>7 DEF Fields
<1>9. \A f \in Fields \ {"super"} : shell'[f] = u[f] BY <1>1, <1>7
<1>10. /\ shell'.kfocus = t.kfocus /\ shell'.saved = t.saved
       /\ shell'.away = t.away /\ shell'.open = t.open
       /\ shell'.current = None /\ shell'.switching = FALSE
  BY <1>7, <1>9 DEF Fields
<1>11. OnlyOf(t, shell', Hands) /\ OnlyOf(t, shell', Hands \cup {"open"})
  BY <1>7, <1>9 DEF OnlyOf, Hands
<1>12. Desk(shell') BY <1>5, <1>8, <1>10 DEF Shaped, Desk
<1>13. shell'.kfocus \in Windows \cup {None} /\ shell'.saved \in Windows \cup {None}
  BY <1>5, <1>10 DEF Shaped
<1>14. Shaped(shell') /\ Whole(shell')
  BY <1>5, <1>8, <1>11, <1>12, <1>13, HandsFacts
<1>15. Living(shell') BY <1>5, <1>10 DEF Living
<1>16. pointer' \in [focus : Foci, held : BOOLEAN] BY <1>0, <1>1 DEF Typed
<1>17. OnlyOf(s, shell', Hands) BY <1>5, <1>11 DEF OnlyOf, Hands
<1>18. gives \in BOOLEAN OBVIOUS
<1>19. gives \/ shell'.kfocus \in {s.kfocus, None} BY <1>5, <1>10
<1> HIDE DEF gives
<1> QED BY <1>1, <1>2, <1>14, <1>15, <1>16, <1>17, <1>18, <1>19, KeyStep

\* A window comes or goes, or the keyboard does, and nothing is woken.
LEMMA WindowStep ==
  ASSUME Inv, NEW gives \in BOOLEAN, RecordedIf(gives), HelperWaits,
         unasked' = unasked,
         pointer' \in [focus : Foci, held : BOOLEAN],
         pointer'.held = pointer.held,
         pointer'.focus \in {pointer.focus, "background"},
         OnlyOf(shell, shell', Hands \cup {"open", "painted", "frame"}),
         Shaped(shell'), Whole(shell'), Living(shell'), Lists',
         gives \/ ~shell.locked \/ shell'.kfocus \in {shell.kfocus, None},
         shell'.painted \in {shell.painted, Listed(shell')}
  PROVE  Inv' /\ LocksIdle
<1>0. Shaped(shell) /\ Typed /\ Talk /\ Hidden BY DEF Inv
<1>1. /\ shell'.locked = shell.locked /\ shell'.bound = shell.bound
      /\ shell'.prepareSent = shell.prepareSent
      /\ shell'.lockSurface = shell.lockSurface
  BY DEF OnlyOf, Fields, Hands
<1>2. Typed' BY <1>0, RecordedIfTyped DEF Typed, HelperWaits
<1>3. Talk'
  <2>1. TalkOf(shell, requests, events, helper.dialog, pointer.focus)
    BY <1>0 DEF Talk
  <2>2. /\ shell.prepareSent => shell'.locked /\ shell'.bound
        /\ pointer'.focus = "dialog" => shell'.lockSurface = "mapped"
    BY <1>1, <2>1 DEF TalkOf
  <2>3. TalkOf(shell', requests, events, helper.dialog, pointer'.focus)
    BY <1>1, <2>1, <2>2, TalkKept
  <2> QED BY <2>3 DEF Talk, HelperWaits
<1>4. Hidden'
  <2>1. shell'.locked /\ ~given' => shell'.kfocus = None
    <3> SUFFICES ASSUME shell'.locked, ~given' PROVE shell'.kfocus = None
      OBVIOUS
    <3>1. ~given /\ ~gives
      BY <1>0 DEF RecordedIf, HistoryAfter, Typed, Shaped
    <3> QED BY <1>0, <1>1, <3>1 DEF Hidden
  <2>2. shell'.locked => Listed(shell') = {"lock"}
    BY DEF Whole, LayersOf, Listed
  <2>3. shell'.locked /\ repainted' => shell'.painted \subseteq {"lock"}
    BY <1>0, <1>1, <2>2 DEF Hidden, RecordedIf
  <2>4. "background" \notin Windows \cup {"input_panel"} BY LockAssumption
  <2>5. shell'.locked /\ repainted' /\ ~pointer'.held =>
          pointer'.focus \notin Windows \cup {"input_panel"}
    BY <1>0, <1>1, <2>4 DEF Hidden, RecordedIf
  <2> QED BY <2>1, <2>3, <2>5 DEF Hidden
<1> QED BY <1>1, <1>2, <1>3, <1>4 DEF Inv, LocksIdle

\* A nested compositor loses the keyboard and keeps who had it.
LEMMA FocusOutStep == Inv /\ KeyboardFocusOut => Inv' /\ LocksIdle
<1> SUFFICES ASSUME Inv, KeyboardFocusOut PROVE Inv' /\ LocksIdle OBVIOUS
<1>0. /\ Shaped(shell) /\ Whole(shell) /\ Typed /\ Living(shell) /\ Lists
      /\ DOMAIN shell = Fields
  BY DEF Inv, Shaped
<1>1. /\ shell' = [shell EXCEPT !.away = shell.kfocus, !.kfocus = None]
      /\ RecordedIf(FALSE) /\ pointer' = pointer /\ unasked' = unasked
      /\ HelperWaits
  BY DEF KeyboardFocusOut, Recorded
<1>2. DOMAIN shell' = Fields /\ shell'.away = shell.kfocus /\ shell'.kfocus = None
  BY <1>0, <1>1 DEF Fields
<1>3. \A f \in Fields \ {"away", "kfocus"} : shell'[f] = shell[f]
  BY <1>0, <1>1
<1>4. /\ shell'.saved = shell.saved /\ shell'.current = shell.current
      /\ shell'.open = shell.open /\ shell'.switching = shell.switching
      /\ shell'.super = shell.super /\ shell'.painted = shell.painted
  BY <1>3 DEF Fields
<1>5. /\ OnlyOf(shell, shell', Hands \cup {"open"})
      /\ OnlyOf(shell, shell', Hands \cup {"open", "painted", "frame"})
  BY <1>3 DEF OnlyOf, Hands
<1>6. Desk(shell') BY <1>0, <1>2, <1>4 DEF Shaped, Desk
<1>7. shell'.kfocus \in Windows \cup {None} /\ shell'.saved \in Windows \cup {None}
  BY <1>0, <1>2, <1>4 DEF Shaped
<1>8. Shaped(shell') /\ Whole(shell')
  BY <1>0, <1>2, <1>5, <1>6, <1>7, HandsFacts
<1>9. Living(shell') BY <1>0, <1>2, <1>4 DEF Living
<1>10. Lists' BY <1>0, <1>1, <1>4 DEF Lists
<1>11. pointer' \in [focus : Foci, held : BOOLEAN] BY <1>0, <1>1 DEF Typed
<1> QED BY <1>1, <1>2, <1>4, <1>5, <1>8, <1>9, <1>10, <1>11, WindowStep

\* It gets the keyboard back, and gives it to who had it.
LEMMA FocusInStep == Inv /\ KeyboardFocusIn => Inv' /\ LocksIdle
<1> SUFFICES ASSUME Inv, KeyboardFocusIn PROVE Inv' /\ LocksIdle OBVIOUS
<1>0. /\ Shaped(shell) /\ Whole(shell) /\ Typed /\ Living(shell) /\ Lists
      /\ DOMAIN shell = Fields
  BY DEF Inv, Shaped
<1>1. /\ shell' = [shell EXCEPT !.kfocus = shell.away, !.away = None]
      /\ RecordedIf(TRUE) /\ pointer' = pointer /\ unasked' = unasked
      /\ HelperWaits
  BY DEF KeyboardFocusIn
<1>2. DOMAIN shell' = Fields /\ shell'.kfocus = shell.away /\ shell'.away = None
  BY <1>0, <1>1 DEF Fields
<1>3. \A f \in Fields \ {"away", "kfocus"} : shell'[f] = shell[f]
  BY <1>0, <1>1
<1>4. /\ shell'.saved = shell.saved /\ shell'.current = shell.current
      /\ shell'.open = shell.open /\ shell'.switching = shell.switching
      /\ shell'.super = shell.super /\ shell'.painted = shell.painted
  BY <1>3 DEF Fields
<1>5. /\ OnlyOf(shell, shell', Hands \cup {"open"})
      /\ OnlyOf(shell, shell', Hands \cup {"open", "painted", "frame"})
  BY <1>3 DEF OnlyOf, Hands
<1>6. Desk(shell') BY <1>0, <1>2, <1>4 DEF Shaped, Desk
<1>7. shell'.kfocus \in Windows \cup {None} /\ shell'.saved \in Windows \cup {None}
  BY <1>0, <1>2, <1>4 DEF Shaped, Desk
<1>8. Shaped(shell') /\ Whole(shell')
  BY <1>0, <1>2, <1>5, <1>6, <1>7, HandsFacts
<1>9. Living(shell') BY <1>0, <1>2, <1>4 DEF Living
<1>10. Lists' BY <1>0, <1>1, <1>4 DEF Lists
<1>11. pointer' \in [focus : Foci, held : BOOLEAN] BY <1>0, <1>1 DEF Typed
<1> QED BY <1>1, <1>4, <1>5, <1>8, <1>9, <1>10, <1>11, WindowStep

\* A repaint is scheduled and nothing else.
LEMMA ScheduleKeeps ==
  ASSUME NEW s, Shaped(s), Whole(s), Living(s)
  PROVE  /\ Shaped(ScheduleRepaint(s)) /\ Whole(ScheduleRepaint(s))
         /\ Living(ScheduleRepaint(s)) /\ OnlyOf(s, ScheduleRepaint(s), {"frame"})
<1> DEFINE t == ScheduleRepaint(s)
<1>1. Shaped(t) /\ OnlyOf(s, t, {"frame"}) BY ScheduleFacts
<1> HIDE DEF t
<1>2. OnlyOf(s, t, Minor) BY <1>1 DEF OnlyOf, Minor
<1>3. Whole(t) BY <1>2, MinorWhole
<1>4. Still(s, t) /\ t.kfocus = s.kfocus BY <1>1 DEF Still, OnlyOf, Fields
<1>5. Living(t) BY <1>4, LivingKept
<1> QED BY <1>1, <1>3, <1>5 DEF t

\* A window is mapped, and activated unless the screen is locked.
LEMMA MapStep ==
  ASSUME Inv, NEW w \in Windows, MapWindow(w)
  PROVE  Inv' /\ LocksIdle
<1> DEFINE u == [shell EXCEPT !.open = shell.open \cup {w}]
           s == ScheduleRepaint(u)
<1>0. /\ Shaped(shell) /\ Whole(shell) /\ Typed /\ Living(shell) /\ Lists
      /\ DOMAIN shell = Fields
  BY DEF Inv, Shaped
<1>1. /\ shell' = IF s.locked THEN s ELSE Activate(s, w)
      /\ RecordedIf(FALSE) /\ pointer' = pointer /\ unasked' = unasked
      /\ HelperWaits
  BY DEF MapWindow, Recorded
<1>2. DOMAIN u = Fields /\ u.open = shell.open \cup {w}
  BY <1>0 DEF Fields
<1>3. \A f \in Fields \ {"open"} : u[f] = shell[f] BY <1>0
<1> HIDE DEF u
<1>4. /\ u.kfocus = shell.kfocus /\ u.saved = shell.saved /\ u.away = shell.away
      /\ u.current = shell.current /\ u.super = shell.super
      /\ u.switching = shell.switching /\ u.painted = shell.painted
      /\ u.locked = shell.locked
  BY <1>3 DEF Fields
<1>5. OnlyOf(shell, u, Hands \cup {"open"}) BY <1>3 DEF OnlyOf
<1>6. Desk(u) BY <1>0, <1>2, <1>4 DEF Shaped, Desk
<1>7. u.kfocus \in Windows \cup {None} /\ u.saved \in Windows \cup {None}
  BY <1>0, <1>4 DEF Shaped
<1>8. Shaped(u) /\ Whole(u) BY <1>0, <1>2, <1>5, <1>6, <1>7, HandsFacts
<1>9. Living(u) BY <1>0, <1>2, <1>4 DEF Living
<1>10. /\ Shaped(s) /\ Whole(s) /\ Living(s) /\ OnlyOf(u, s, {"frame"})
  BY <1>8, <1>9, ScheduleKeeps
<1> HIDE DEF s
<1>11. /\ s.locked = shell.locked /\ s.open = shell.open \cup {w}
       /\ s.painted = shell.painted /\ s.kfocus = shell.kfocus
  BY <1>2, <1>4, <1>10 DEF OnlyOf, Fields
<1>12. /\ Shaped(shell') /\ Whole(shell') /\ Living(shell')
       /\ OnlyOf(s, shell', {"kfocus", "saved"})
       /\ ~shell.locked \/ shell'.kfocus = shell.kfocus
  <2>1. CASE s.locked BY <1>1, <1>10, <1>11, <2>1 DEF OnlyOf
  <2>2. CASE ~s.locked
    <3>1. /\ Shaped(shell') /\ Whole(shell')
          /\ OnlyOf(s, shell', {"kfocus", "saved"})
          /\ shell'.kfocus = w /\ shell'.saved = w
      BY <1>1, <1>10, <2>2, ActivateFacts
    <3>2. /\ shell'.open = s.open /\ shell'.away = s.away
          /\ shell'.current = s.current
      BY <3>1 DEF OnlyOf, Fields
    <3>3. Living(shell') BY <1>10, <1>11, <3>1, <3>2 DEF Living
    <3> QED BY <1>11, <2>2, <3>1, <3>3
  <2> QED BY <2>1, <2>2
<1>13. shell'.painted = shell.painted /\ shell'.open = shell.open \cup {w}
  BY <1>11, <1>12 DEF OnlyOf, Fields
<1>14. Lists' BY <1>0, <1>1, <1>13 DEF Lists
<1>15. OnlyOf(shell, shell', Hands \cup {"open", "painted", "frame"})
  BY <1>3, <1>10, <1>12 DEF OnlyOf, Hands
<1>16. pointer' \in [focus : Foci, held : BOOLEAN] BY <1>0, <1>1 DEF Typed
<1> QED BY <1>1, <1>12, <1>13, <1>14, <1>15, <1>16, WindowStep

\* What the end of a window may do to the record.
Bereft(s, w, next, t) ==
  /\ Shaped(t) /\ Whole(t) /\ Living(t)
  /\ OnlyOf(s, t, Hands \cup {"open", "painted", "frame"})
  /\ t.open = s.open \ {w} /\ t.painted = Listed(t)
  /\ (s.saved = w /\ next # None) \/ t.kfocus \in {s.kfocus, None}

LEMMA GoneFacts ==
  ASSUME NEW s, Shaped(s), Whole(s), Living(s), NEW w \in Windows,
         NEW next \in (s.open \ {w}) \cup {None},
         NEW other \in (s.open \ {w}) \cup {None}
  PROVE  Bereft(s, w, next, WindowGone(s, w, next, other))
<1> DEFINE t == [s EXCEPT !.open = @ \ {w},
                          !.kfocus = Instead(w, @, None),
                          !.away = Instead(w, @, None),
                          !.current = Instead(w, @, other)]
           n == [t EXCEPT !.saved = None]
           u == IF s.saved # w THEN t
                ELSE IF next = None THEN n ELSE Activate(t, next)
           b == BuildViewList(u)
           g == ScheduleRepaint(b)
<1>0. DOMAIN s = Fields /\ s.open \in SUBSET Windows BY DEF Shaped, Desk
<1>1. WindowGone(s, w, next, other) = g BY DEF WindowGone
<1>2. DOMAIN t = Fields /\ t.open = s.open \ {w} BY <1>0 DEF Fields
<1>3. /\ t.kfocus = Instead(w, s.kfocus, None)
      /\ t.away = Instead(w, s.away, None)
      /\ t.current = Instead(w, s.current, other)
  BY <1>0 DEF Fields
<1>4. \A f \in Fields \ {"open", "kfocus", "away", "current"} : t[f] = s[f]
  BY <1>0
<1> HIDE DEF t
<1>5. t.saved = s.saved /\ t.super = s.super /\ t.switching = s.switching
  BY <1>4 DEF Fields
<1>6. /\ t.kfocus \in t.open \cup {None} /\ t.away \in t.open \cup {None}
      /\ t.current \in t.open \cup {None} /\ t.kfocus \in {s.kfocus, None}
  BY <1>2, <1>3 DEF Living, Instead
<1>7. OnlyOf(s, t, Hands \cup {"open"}) BY <1>4 DEF OnlyOf, Hands
<1>8. t.kfocus \in Windows \cup {None} /\ t.saved \in Windows \cup {None}
  BY <1>0, <1>2, <1>5, <1>6 DEF Shaped
<1>9. Desk(t)
  <2>1. s.super \in BOOLEAN /\ s.switching \in BOOLEAN BY DEF Shaped, Desk
  <2> QED BY <1>0, <1>2, <1>5, <1>6, <2>1 DEF Desk
<1>10. Shaped(t) /\ Whole(t) BY <1>2, <1>7, <1>8, <1>9, HandsFacts
<1>11. /\ Shaped(u) /\ Whole(u) /\ OnlyOf(t, u, {"kfocus", "saved"})
       /\ {u.kfocus, u.saved} \subseteq t.open \cup {None}
       /\ (s.saved = w /\ next # None) \/ u.kfocus = t.kfocus
  <2>1. CASE s.saved # w
    <3>1. u = t BY <2>1
    <3>2. t.saved \in t.open \cup {None} BY <1>2, <1>5, <2>1 DEF Living
    <3> QED BY <1>6, <1>10, <3>1, <3>2 DEF OnlyOf
  <2>2. CASE s.saved = w /\ next = None
    <3>1. u = n BY <2>2
    <3>2. DOMAIN n = Fields /\ n.saved = None BY <1>2 DEF Fields
    <3>3. \A f \in Fields \ {"saved"} : n[f] = t[f] BY <1>2
    <3> HIDE DEF n, u
    <3>4. /\ n.kfocus = t.kfocus /\ n.open = t.open /\ n.away = t.away
          /\ n.current = t.current /\ n.super = t.super
          /\ n.switching = t.switching
      BY <3>3 DEF Fields
    <3>5. /\ OnlyOf(t, n, Hands \cup {"open"})
          /\ OnlyOf(t, n, {"kfocus", "saved"})
      BY <3>3 DEF OnlyOf, Hands
    <3>6. Desk(n) BY <1>9, <3>4 DEF Desk
    <3>7. n.kfocus \in Windows \cup {None} /\ n.saved \in Windows \cup {None}
      BY <1>8, <3>2, <3>4
    <3>8. Shaped(n) /\ Whole(n)
      BY <1>10, <3>2, <3>5, <3>6, <3>7, HandsFacts
    <3> QED BY <1>6, <3>1, <3>2, <3>4, <3>5, <3>8
  <2>3. CASE s.saved = w /\ next # None
    <3>1. u = Activate(t, next) BY <2>3
    <3> HIDE DEF u
    <3>2. next \in Windows /\ next \in t.open BY <1>0, <1>2, <2>3
    <3>3. /\ Shaped(u) /\ Whole(u) /\ OnlyOf(t, u, {"kfocus", "saved"})
          /\ u.kfocus = next /\ u.saved = next
      BY <1>10, <3>1, <3>2, ActivateFacts
    <3> QED BY <2>3, <3>2, <3>3
  <2> QED BY <2>1, <2>2, <2>3
<1> HIDE DEF u
<1>12. u.open = t.open /\ u.away = t.away /\ u.current = t.current
  BY <1>11 DEF OnlyOf, Fields
<1>13. Living(u) BY <1>6, <1>11, <1>12 DEF Living
<1>14. Shaped(b) /\ OnlyOf(u, b, {"painted"}) /\ b.painted = Listed(u)
  BY <1>11, BuildFacts
<1> HIDE DEF b
<1>15. Whole(b)
  <2>1. OnlyOf(u, b, Minor) BY <1>14 DEF OnlyOf, Minor
  <2> QED BY <1>11, <2>1, MinorWhole
<1>16. Still(u, b) /\ b.kfocus = u.kfocus BY <1>14 DEF Still, OnlyOf, Fields
<1>17. Living(b) BY <1>13, <1>16, LivingKept
<1>18. Shaped(g) /\ Whole(g) /\ Living(g) /\ OnlyOf(b, g, {"frame"})
  BY <1>14, <1>15, <1>17, ScheduleKeeps
<1> HIDE DEF g
<1>19. /\ g.open = s.open \ {w} /\ g.kfocus = u.kfocus
       /\ g.painted = Listed(u) /\ g.attached = u.attached /\ g.open = u.open
  BY <1>2, <1>12, <1>14, <1>18 DEF OnlyOf, Fields
<1>20. g.painted = Listed(g) BY <1>19 DEF Listed
<1>21. OnlyOf(s, g, Hands \cup {"open", "painted", "frame"})
  <2>1. OnlyOf(s, u, Hands \cup {"open"}) BY <1>7, <1>11 DEF OnlyOf, Hands
  <2>2. OnlyOf(u, g, {"painted", "frame"}) BY <1>14, <1>18, Zenon DEF OnlyOf
  <2> QED BY <2>1, <2>2 DEF OnlyOf
<1>22. (s.saved = w /\ next # None) \/ g.kfocus \in {s.kfocus, None}
  BY <1>6, <1>11, <1>19
<1> QED BY <1>1, <1>18, <1>19, <1>20, <1>21, <1>22 DEF Bereft

\* A window goes, and with it what pointed to it.
LEMMA DestroyStep ==
  ASSUME Inv, NEW w \in Windows, DestroyWindow(w)
  PROVE  Inv' /\ LocksIdle
<1> DEFINE others == shell.open \ {w}
           left == IF others = {} THEN {None} ELSE others
<1>0. /\ Shaped(shell) /\ Whole(shell) /\ Typed /\ Living(shell) /\ Lists
  BY DEF Inv
<1>1. PICK next \in left, other \in left :
        /\ shell' = WindowGone(shell, w, next, other)
        /\ RecordedIf(shell.saved = w /\ next # None)
  BY DEF DestroyWindow
<1>2. /\ unasked' = unasked /\ HelperWaits
      /\ pointer' = IF pointer.focus = w
                    THEN [pointer EXCEPT !.focus = "background"] ELSE pointer
  BY DEF DestroyWindow
<1>3. next \in others \cup {None} /\ other \in others \cup {None} OBVIOUS
<1>4. Bereft(shell, w, next, shell')
  <2> DEFINE g == WindowGone(shell, w, next, other)
  <2>1. Bereft(shell, w, next, g) BY <1>0, <1>3, GoneFacts
  <2> HIDE DEF g
  <2>2. shell' = g BY <1>1 DEF g
  <2> QED BY <2>1, <2>2
<1>5. /\ pointer' \in [focus : Foci, held : BOOLEAN]
      /\ pointer'.held = pointer.held
      /\ pointer'.focus \in {pointer.focus, "background"}
      /\ pointer'.focus # w
  <2>1. pointer \in [focus : Foci, held : BOOLEAN] /\ "background" \in Foci
    BY <1>0 DEF Typed, Foci
  <2>2. w # "background" BY LockAssumption
  <2>3. CASE pointer.focus = w
    <3>1. pointer' = [pointer EXCEPT !.focus = "background"] BY <1>2, <2>3
    <3>2. /\ pointer' \in [focus : Foci, held : BOOLEAN]
          /\ pointer'.focus = "background" /\ pointer'.held = pointer.held
      BY <2>1, <3>1, PointerFacts
    <3> QED BY <2>2, <3>2
  <2>4. CASE pointer.focus # w BY <1>2, <2>1, <2>4
  <2> QED BY <2>3, <2>4
<1>6. Lists'
  <2>1. shell'.open = shell.open \ {w} /\ shell'.painted = Listed(shell')
    BY <1>4 DEF Bereft
  <2>2. shell'.attached \subseteq Layers /\ Layers \cap Windows = {}
    BY <1>4, LockAssumption DEF Bereft, Shaped
  <2>3. shell'.painted \cap Windows \subseteq shell'.open
    BY <2>1, <2>2 DEF Listed
  <2>4. "background" \notin Windows BY LockAssumption
  <2>5. pointer'.focus \in Windows => pointer'.focus \in shell'.open
    BY <1>0, <1>5, <2>1, <2>4 DEF Lists
  <2> QED BY <2>3, <2>5 DEF Lists
<1>7. (shell.saved = w /\ next # None) \in BOOLEAN OBVIOUS
<1>8. /\ Shaped(shell') /\ Whole(shell') /\ Living(shell')
      /\ OnlyOf(shell, shell', Hands \cup {"open", "painted", "frame"})
      /\ shell'.painted = Listed(shell')
      /\ (shell.saved = w /\ next # None)
         \/ shell'.kfocus \in {shell.kfocus, None}
  BY <1>4 DEF Bereft
<1> DEFINE gives == shell.saved = w /\ next # None
<1>9. gives \in BOOLEAN /\ RecordedIf(gives) BY <1>1
<1>10. gives \/ ~shell.locked \/ shell'.kfocus \in {shell.kfocus, None} BY <1>8
<1> HIDE DEF gives
<1> QED BY <1>2, <1>5, <1>6, <1>8, <1>9, <1>10, WindowStep

\* A step of the compositor's own: it neither sends an event nor reads a
\* request, and changes neither pointer nor helper.
LEMMA QuietStep ==
  ASSUME Inv, Recorded, pointer' = pointer, HelperWaits, unasked' = unasked,
         Shaped(shell'), Whole(shell'),
         shell'.prepareSent = shell.prepareSent,
         shell'.lockSurface = shell.lockSurface,
         shell'.bound = shell.bound, shell'.locked = shell.locked,
         shell'.kfocus = shell.kfocus,
         shell'.painted \subseteq shell.painted, Still(shell, shell')
  PROVE  Inv' /\ LocksIdle
<1>0. /\ Shaped(shell) /\ Typed /\ Talk /\ Hidden /\ Lists
      /\ Living(shell')
  BY LivingKept DEF Inv
<1>1. Typed' BY <1>0, RecordedTyped DEF Typed, HelperWaits
<1>2. Talk'
  <2>1. TalkOf(shell, requests, events, helper.dialog, pointer.focus)
    BY <1>0 DEF Talk
  <2>2. /\ shell.prepareSent => shell'.locked /\ shell'.bound
        /\ pointer.focus = "dialog" => shell'.lockSurface = "mapped"
    BY <2>1 DEF TalkOf
  <2>3. TalkOf(shell', requests, events, helper.dialog, pointer.focus)
    BY <2>1, <2>2, TalkKept
  <2> QED BY <2>3 DEF Talk, HelperWaits
<1>3. Hidden' BY <1>0, HiddenKept
<1>4. Lists' BY <1>0, ListsKept DEF Still
<1> QED BY <1>0, <1>1, <1>2, <1>3, <1>4 DEF Inv, LocksIdle

LEMMA IdleStep == Inv /\ IdleTimeout => Inv' /\ LocksIdle
<1> SUFFICES ASSUME Inv, IdleTimeout PROVE Inv' /\ LocksIdle OBVIOUS
<1> DEFINE u == [shell EXCEPT !.power = "idle"]
<1>0. Shaped(shell) /\ Whole(shell) /\ Living(shell) BY DEF Inv
<1>1. /\ shell' = ShellFade(u, "out")
      /\ Recorded /\ pointer' = pointer /\ unasked' = unasked /\ HelperWaits
  BY DEF IdleTimeout
<1>2. DOMAIN u = Fields /\ OnlyOf(shell, u, {"power"}) /\ u.power = "idle"
  BY <1>0 DEF Shaped, Fields, OnlyOf
<1> HIDE DEF u
<1>3. Shaped(u) BY <1>0, <1>2, PowerShaped
<1>4. /\ u.locked = shell.locked /\ u.showing = shell.showing
      /\ u.attached = shell.attached /\ u.corrupt = shell.corrupt
      /\ u.fade = shell.fade /\ u.startup = shell.startup
  BY <1>2 DEF OnlyOf, Fields
<1>5. LayersOf(u) = LayersOf(shell) BY <1>4 DEF LayersOf, InputPanels
<1>6. Whole(u) BY <1>0, <1>2, <1>4, <1>5 DEF Whole
<1>7. /\ Shaped(shell') /\ Whole(shell')
      /\ OnlyOf(u, shell', {"fade", "frame"})
  BY <1>1, <1>2, <1>3, <1>6, FadeFacts, FadeWhole
<1>8. /\ shell'.prepareSent = shell.prepareSent
      /\ shell'.lockSurface = shell.lockSurface
      /\ shell'.bound = shell.bound /\ shell'.locked = shell.locked
      /\ shell'.kfocus = shell.kfocus /\ shell'.painted = shell.painted
      /\ Still(shell, shell')
  BY <1>2, <1>7 DEF OnlyOf, Fields, Still
<1> QED BY <1>1, <1>7, <1>8, QuietStep

LEMMA ShowStep == Inv /\ ShowInputPanels => Inv' /\ LocksIdle
<1> SUFFICES ASSUME Inv, ShowInputPanels PROVE Inv' /\ LocksIdle OBVIOUS
<1> DEFINE u == [shell EXCEPT !.showing = TRUE]
           s == ScheduleRepaint(u)
           i == Insert(s, {"input_panel"})
<1>0. Shaped(shell) /\ Whole(shell) /\ Living(shell) BY DEF Inv
<1>1. /\ ~shell.showing /\ shell' = IF s.locked THEN s ELSE i
      /\ Recorded /\ pointer' = pointer /\ unasked' = unasked /\ HelperWaits
  BY DEF ShowInputPanels
<1>2. DOMAIN u = Fields /\ OnlyOf(shell, u, {"showing"}) /\ u.showing = TRUE
  BY <1>0 DEF Shaped, Fields, OnlyOf
<1> HIDE DEF u
<1>3. Shaped(u) BY <1>0, <1>2, ShowingShaped
<1>4. Shaped(s) /\ OnlyOf(u, s, {"frame"}) BY <1>3, ScheduleFacts
<1> HIDE DEF s
<1>5. /\ s.locked = shell.locked /\ s.showing = TRUE
      /\ s.attached = shell.attached /\ s.corrupt = shell.corrupt
      /\ s.fade = shell.fade /\ s.startup = shell.startup
      /\ s.power = shell.power
  BY <1>2, <1>4 DEF OnlyOf, Fields
<1>6. {"input_panel"} \in SUBSET Layers BY DEF Layers
<1>7. /\ Shaped(i) /\ OnlyOf(s, i, {"attached", "corrupt"})
      /\ i.attached = s.attached \cup {"input_panel"}
      /\ i.corrupt = (s.corrupt \/ {"input_panel"} \cap s.attached # {})
  BY <1>4, <1>6, InsertFacts
<1> HIDE DEF i
<1>8. CASE shell.locked
  <2>1. shell' = s BY <1>1, <1>5, <1>8
  <2>2. LayersOf(s) = LayersOf(shell) BY <1>5, <1>8 DEF LayersOf
  <2>3. Whole(s) BY <1>0, <1>5, <2>2 DEF Whole
  <2>4. /\ s.prepareSent = shell.prepareSent /\ s.lockSurface = shell.lockSurface
        /\ s.bound = shell.bound /\ s.kfocus = shell.kfocus
        /\ s.painted = shell.painted /\ Still(shell, s)
    BY <1>2, <1>4 DEF OnlyOf, Fields, Still
  <2> QED BY <1>1, <1>4, <1>5, <2>1, <2>3, <2>4, QuietStep
<1>9. CASE ~shell.locked
  <2>1. shell' = i BY <1>1, <1>5, <1>9
  <2>2. /\ i.locked = shell.locked /\ i.showing = TRUE /\ i.fade = shell.fade
        /\ i.startup = shell.startup /\ i.power = shell.power
        /\ i.prepareSent = shell.prepareSent /\ i.lockSurface = shell.lockSurface
        /\ i.bound = shell.bound /\ i.kfocus = shell.kfocus
        /\ i.painted = shell.painted /\ Still(shell, i)
    BY <1>2, <1>4, <1>7 DEF OnlyOf, Fields, Still
  <2>3. s.attached = {"panel", "workspace"} /\ ~s.corrupt
    BY <1>0, <1>1, <1>5, <1>9 DEF Whole, LayersOf, InputPanels
  <2>4. i.attached = {"panel", "workspace"} \cup {"input_panel"} /\ ~i.corrupt
    BY <1>7, <2>3
  <2>5. LayersOf(i) = {"panel", "workspace"} \cup {"input_panel"}
    BY <1>9, <2>2 DEF LayersOf, InputPanels
  <2>6. Whole(i) BY <1>0, <2>2, <2>4, <2>5 DEF Whole
  <2> QED BY <1>1, <1>7, <2>1, <2>2, <2>6, QuietStep
<1> QED BY <1>0, <1>8, <1>9 DEF Shaped

LEMMA HideStep == Inv /\ HideInputPanels => Inv' /\ LocksIdle
<1> SUFFICES ASSUME Inv, HideInputPanels PROVE Inv' /\ LocksIdle OBVIOUS
<1> DEFINE s == [shell EXCEPT !.showing = FALSE,
                              !.painted = @ \ {"input_panel"}]
           d == Detach(s, {"input_panel"})
<1>0. /\ Shaped(shell) /\ Whole(shell) /\ Typed /\ Talk /\ Hidden
      /\ Living(shell) /\ Lists
  BY DEF Inv
<1>1. /\ shell.showing /\ shell' = IF s.locked THEN s ELSE d
      /\ Recorded /\ unasked' = unasked /\ HelperWaits
      /\ pointer' = IF pointer.focus = "input_panel"
                    THEN [pointer EXCEPT !.focus = "background"] ELSE pointer
  BY DEF HideInputPanels
<1>2. DOMAIN shell = Fields BY <1>0 DEF Shaped
<1>3. DOMAIN s = Fields BY <1>2
<1>4. s.showing = FALSE /\ s.painted = shell.painted \ {"input_panel"}
  BY <1>2 DEF Fields
<1>5. \A f \in Fields \ {"showing", "painted"} : s[f] = shell[f]
  BY <1>2 DEF Fields
<1> HIDE DEF s
<1>6. /\ s.locked = shell.locked /\ s.attached = shell.attached
      /\ s.corrupt = shell.corrupt /\ s.fade = shell.fade
      /\ s.startup = shell.startup /\ s.power = shell.power
      /\ s.prepareSent = shell.prepareSent /\ s.lockSurface = shell.lockSurface
      /\ s.bound = shell.bound /\ s.kfocus = shell.kfocus
      /\ s.saved = shell.saved /\ s.frame = shell.frame /\ Still(shell, s)
  BY <1>5 DEF Fields, Still
<1>7. s.painted \in SUBSET (Layers \cup Windows) BY <1>0, <1>4 DEF Shaped
<1>71. Desk(s) BY <1>0, <1>5 DEF Desk, Shaped, Fields
<1>8. Shaped(s) BY <1>0, <1>3, <1>4, <1>6, <1>7, <1>71 DEF Shaped
<1>9. {"input_panel"} \in SUBSET Layers BY DEF Layers
<1>10. /\ Shaped(d) /\ OnlyOf(s, d, {"attached", "corrupt"})
       /\ d.attached = s.attached \ {"input_panel"}
       /\ d.corrupt = (s.corrupt \/ ~({"input_panel"} \subseteq s.attached))
  BY <1>8, <1>9, DetachFacts
<1> HIDE DEF d
<1>11. /\ d.locked = s.locked /\ d.fade = s.fade /\ d.startup = s.startup
       /\ d.power = s.power /\ d.prepareSent = s.prepareSent
       /\ d.lockSurface = s.lockSurface /\ d.bound = s.bound
       /\ d.kfocus = s.kfocus /\ d.painted = s.painted /\ d.showing = s.showing
       /\ Still(s, d)
  BY <1>10 DEF OnlyOf, Fields, Still
<1>12. Shaped(shell') BY <1>1, <1>8, <1>10
<1>13. /\ shell'.prepareSent = shell.prepareSent
       /\ shell'.lockSurface = shell.lockSurface
       /\ shell'.bound = shell.bound /\ shell'.locked = shell.locked
       /\ shell'.kfocus = shell.kfocus
       /\ shell'.painted = shell.painted \ {"input_panel"}
       /\ Still(shell, shell')
  BY <1>1, <1>4, <1>6, <1>11 DEF Still
<1>131. Living(shell') BY <1>0, <1>13, LivingKept
<1>14. Whole(shell')
  <2>1. CASE shell.locked
    <3>1. shell' = s BY <1>1, <1>6, <2>1
    <3>2. LayersOf(s) = LayersOf(shell) BY <1>6, <2>1 DEF LayersOf
    <3> QED BY <1>0, <1>6, <3>1, <3>2 DEF Whole
  <2>2. CASE ~shell.locked
    <3>1. shell' = d BY <1>1, <1>6, <2>2
    <3>2. s.attached = {"panel", "workspace", "input_panel"} /\ ~s.corrupt
      BY <1>0, <1>1, <1>6, <2>2 DEF Whole, LayersOf, InputPanels
    <3>3. d.attached = {"panel", "workspace"} /\ ~d.corrupt
      BY <1>10, <3>2
    <3>4. LayersOf(d) = {"panel", "workspace"}
      BY <1>4, <1>6, <1>11, <2>2 DEF LayersOf, InputPanels
    <3>5. Whole(d) BY <1>0, <1>6, <1>11, <3>3, <3>4 DEF Whole
    <3> QED BY <3>1, <3>5
  <2> QED BY <1>0, <2>1, <2>2 DEF Shaped
<1>15. pointer \in [focus : Foci, held : BOOLEAN] BY <1>0 DEF Typed
<1>16. /\ pointer' \in [focus : Foci, held : BOOLEAN]
       /\ pointer'.held = pointer.held
       /\ pointer'.focus \in {pointer.focus, "background"}
  <2>1. "background" \in Foci BY DEF Foci
  <2>2. CASE pointer.focus = "input_panel"
    <3>1. pointer' = [pointer EXCEPT !.focus = "background"] BY <1>1, <2>2
    <3>2. /\ pointer' \in [focus : Foci, held : BOOLEAN]
          /\ pointer'.focus = "background" /\ pointer'.held = pointer.held
      BY <1>15, <2>1, <3>1, PointerFacts
    <3> QED BY <3>2
  <2>3. CASE pointer.focus # "input_panel" BY <1>1, <1>15, <2>3
  <2> QED BY <2>2, <2>3
<1>17. Typed'
  BY <1>0, <1>1, <1>12, <1>16, RecordedTyped DEF Typed, HelperWaits
<1>18. Talk'
  <2>1. TalkOf(shell, requests, events, helper.dialog, pointer.focus)
    BY <1>0 DEF Talk
  <2>2. /\ shell.prepareSent => shell'.locked /\ shell'.bound
        /\ pointer'.focus = "dialog" => shell'.lockSurface = "mapped"
    BY <1>13, <1>16, <2>1 DEF TalkOf
  <2>3. TalkOf(shell', requests, events, helper.dialog, pointer'.focus)
    BY <1>13, <2>1, <2>2, TalkKept
  <2> QED BY <1>1, <2>3 DEF Talk, HelperWaits
<1>19. Hidden'
  <2>1. "background" \notin Windows \cup {"input_panel"} BY LockAssumption
  <2> QED
    BY <1>0, <1>1, <1>13, <1>16, <2>1
    DEF Hidden, Typed, Recorded, RecordedIf, HistoryAfter
<1>20. Lists'
  <2>1. "background" \notin Windows BY LockAssumption
  <2> QED BY <1>0, <1>13, <1>16, <2>1, ListsKept DEF Still
<1> QED BY <1>12, <1>13, <1>131, <1>14, <1>17, <1>18, <1>19, <1>20 DEF Inv, LocksIdle

LEMMA RepaintStep ==
  ASSUME Inv, NEW done \in BOOLEAN, Repaint(done)
  PROVE  Inv' /\ LocksIdle
<1>0. /\ Shaped(shell) /\ Whole(shell) /\ Typed /\ Talk /\ Hidden
      /\ Living(shell) /\ Lists
  BY DEF Inv
<1> DEFINE b == BuildViewList(shell)
<1>1. PICK more \in {shell.fade.animation, TRUE} :
        LET s == [b EXCEPT !.frame = more]
        IN Repick(s) /\ shell' = IF done THEN ShellFadeDone(s) ELSE s
  BY DEF Repaint
<1>2. /\ done => shell.fade.animation
      /\ repainted' = (shell.locked /\ shell'.locked)
      /\ HistoryAfter(FALSE) /\ unasked' = unasked /\ HelperWaits
  BY DEF Repaint
<1> DEFINE s == [b EXCEPT !.frame = more]
<1>3. /\ Shaped(b) /\ OnlyOf(shell, b, {"painted"})
      /\ b.painted = Listed(shell)
  BY <1>0, BuildFacts
<1> HIDE DEF b
<1>4. Repick(s) /\ shell' = IF done THEN ShellFadeDone(s) ELSE s BY <1>1
<1>5. /\ DOMAIN s = Fields /\ OnlyOf(b, s, {"frame"})
      /\ s.frame = more
  BY <1>3 DEF Shaped, Fields, OnlyOf
<1>6. more \in BOOLEAN BY <1>0, <1>1 DEF Shaped
<1> HIDE DEF s
<1>7. /\ s.painted = Listed(shell) /\ s.attached = shell.attached
      /\ s.fade = shell.fade /\ s.locked = shell.locked
      /\ s.prepareSent = shell.prepareSent /\ s.lockSurface = shell.lockSurface
      /\ s.bound = shell.bound /\ s.kfocus = shell.kfocus
      /\ s.saved = shell.saved /\ s.power = shell.power /\ Still(shell, s)
      /\ Listed(s) = Listed(shell)
  BY <1>3, <1>5 DEF OnlyOf, Fields, Still, Listed
<1>8. OnlyOf(b, s, Minor) /\ OnlyOf(shell, b, Minor)
  BY <1>3, <1>5 DEF OnlyOf, Minor
<1>9. Whole(s) BY <1>0, <1>8, MinorWhole
<1>10. Shaped(s)
  <2>1. s.frame \in BOOLEAN BY <1>5, <1>6
  <2>2. /\ s.prepareSent \in BOOLEAN /\ s.bound \in BOOLEAN
        /\ s.lockSurface \in {"none", "set", "mapped"}
        /\ s.painted \in SUBSET (Layers \cup Windows)
        /\ s.kfocus \in Windows \cup {None} /\ s.saved \in Windows \cup {None}
    BY <1>0, <1>3, <1>7 DEF Shaped
  <2> QED BY <1>3, <1>5, <1>8, <2>1, <2>2, MinorShaped
<1>11. /\ Shaped(shell') /\ Whole(shell')
       /\ shell'.painted = Listed(shell)
       /\ Still(shell, shell') /\ shell'.kfocus \in {shell.kfocus, None}
       /\ shell'.prepareSent = shell.prepareSent
       /\ shell'.lockSurface = shell.lockSurface /\ shell'.bound = shell.bound
       /\ shell.locked => shell'.locked /\ shell'.kfocus = shell.kfocus
       /\ ~shell.locked /\ shell'.locked =>
            shell'.kfocus = None /\ shell.power # "active"
  <2>1. CASE done
    <3> DEFINE x == ShellFadeDone(s)
    <3>1. Faded(s, x) BY <1>2, <1>7, <1>9, <1>10, <2>1, DoneFacts
    <3> HIDE DEF x
    <3>2. shell' = x BY <1>4, <2>1 DEF x
    <3>3. /\ x.prepareSent = s.prepareSent /\ x.lockSurface = s.lockSurface
          /\ x.bound = s.bound /\ Still(s, x)
      BY <3>1 DEF Faded, OnlyOf, Fields, Still
    <3> QED BY <1>7, <3>1, <3>2, <3>3 DEF Faded, Still
  <2>2. CASE ~done BY <1>4, <1>7, <1>9, <1>10, <2>2
  <2> QED BY <2>1, <2>2
<1>12. /\ pointer' \in [focus : Foci, held : BOOLEAN]
       /\ pointer'.held = pointer.held
       /\ pointer'.focus \in Windows =>
            pointer'.focus \in s.painted \cup {pointer.focus}
       /\ pointer'.focus = "dialog" =>
            s.lockSurface = "mapped" \/ pointer'.focus = pointer.focus
       /\ s.painted \subseteq {"lock"} /\ ~pointer.held =>
            pointer'.focus \notin Windows \cup {"input_panel"}
  BY <1>0, <1>4, <1>10, RepickFacts
<1>13. Typed'
  <2>1. repainted' \in BOOLEAN BY <1>0, <1>2, <1>11 DEF Shaped
  <2>2. given' \in BOOLEAN /\ revived' \in BOOLEAN
    BY <1>0, <1>2, <1>11, HistoryTyped
  <2> QED BY <1>0, <1>2, <1>12, <2>1, <2>2 DEF Typed, HelperWaits
<1>14. Talk'
  <2>1. TalkOf(shell, requests, events, helper.dialog, pointer.focus)
    BY <1>0 DEF Talk
  <2>2. /\ shell.prepareSent => shell'.locked /\ shell'.bound
        /\ pointer'.focus = "dialog" => shell'.lockSurface = "mapped"
    BY <1>7, <1>11, <1>12, <2>1 DEF TalkOf
  <2>3. TalkOf(shell', requests, events, helper.dialog, pointer'.focus)
    BY <1>11, <2>1, <2>2, TalkKept
  <2> QED BY <1>2, <2>3 DEF Talk, HelperWaits
<1>15. Hidden'
  <2>1. shell'.locked /\ ~given' => shell'.kfocus = None
    BY <1>0, <1>2, <1>11 DEF Hidden, HistoryAfter, Typed, Shaped
  <2>2. shell.locked => s.painted \subseteq {"lock"}
    BY <1>0, <1>7 DEF Whole, LayersOf, Listed
  <2> QED BY <1>2, <1>7, <1>11, <1>12, <2>1, <2>2 DEF Hidden
<1>16. LocksIdle
  <2>1. shell.power # "sleeping" BY DEF Repaint
  <2> QED BY <1>0, <1>11, <2>1 DEF LocksIdle, Shaped
<1>17. Living(shell') BY <1>0, <1>11, LivingKept
<1>18. Lists' BY <1>0, <1>7, <1>11, <1>12, ListsKept DEF Still
<1> QED BY <1>11, <1>13, <1>14, <1>15, <1>16, <1>17, <1>18 DEF Inv

LEMMA DamageStep == Inv /\ ClientDamage => Inv' /\ LocksIdle
<1> SUFFICES ASSUME Inv, ClientDamage PROVE Inv' /\ LocksIdle OBVIOUS
<1>0. Shaped(shell) /\ Whole(shell) /\ Living(shell) BY DEF Inv
<1>1. /\ shell' = ScheduleRepaint(shell)
      /\ Recorded /\ pointer' = pointer /\ unasked' = unasked /\ HelperWaits
  BY DEF ClientDamage
<1>2. Shaped(shell') /\ OnlyOf(shell, shell', {"frame"})
  BY <1>0, <1>1, ScheduleFacts
<1>3. OnlyOf(shell, shell', Minor) BY <1>2 DEF OnlyOf, Minor
<1>4. Whole(shell') BY <1>0, <1>3, MinorWhole
<1>5. /\ shell'.prepareSent = shell.prepareSent
      /\ shell'.lockSurface = shell.lockSurface
      /\ shell'.bound = shell.bound /\ shell'.locked = shell.locked
      /\ shell'.kfocus = shell.kfocus /\ shell'.painted = shell.painted
      /\ Still(shell, shell')
  BY <1>2 DEF OnlyOf, Fields, Still
<1> QED BY <1>1, <1>2, <1>4, <1>5, QuietStep

LEMMA LoopEndsStep == Inv /\ LoopEnds => Inv' /\ LocksIdle
<1> SUFFICES ASSUME Inv, LoopEnds PROVE Inv' /\ LocksIdle OBVIOUS
<1>0. Shaped(shell) /\ Whole(shell) /\ Living(shell) BY DEF Inv
<1>1. /\ shell' = [shell EXCEPT !.frame = FALSE]
      /\ Recorded /\ pointer' = pointer /\ unasked' = unasked /\ HelperWaits
  BY DEF LoopEnds
<1>2. Shaped(shell') /\ Whole(shell') /\ OnlyOf(shell, shell', {"frame"})
  BY <1>0, <1>1, FrameClear
<1>5. /\ shell'.prepareSent = shell.prepareSent
      /\ shell'.lockSurface = shell.lockSurface
      /\ shell'.bound = shell.bound /\ shell'.locked = shell.locked
      /\ shell'.kfocus = shell.kfocus /\ shell'.painted = shell.painted
      /\ Still(shell, shell')
  BY <1>2 DEF OnlyOf, Fields, Still
<1> QED BY <1>1, <1>2, <1>5, QuietStep

LEMMA TimeoutStep == Inv /\ StartupTimeout => Inv' /\ LocksIdle
<1> SUFFICES ASSUME Inv, StartupTimeout PROVE Inv' /\ LocksIdle OBVIOUS
<1>0. Shaped(shell) /\ Whole(shell) /\ Living(shell) BY DEF Inv
<1>1. /\ shell' = ShellFadeStartup(shell)
      /\ Recorded /\ pointer' = pointer /\ unasked' = unasked /\ HelperWaits
  BY DEF StartupTimeout
<1>2. Shaped(shell') /\ Whole(shell') /\ OnlyOf(shell, shell', {"startup"})
  BY <1>0, <1>1, StartupFacts
<1>5. /\ shell'.prepareSent = shell.prepareSent
      /\ shell'.lockSurface = shell.lockSurface
      /\ shell'.bound = shell.bound /\ shell'.locked = shell.locked
      /\ shell'.kfocus = shell.kfocus /\ shell'.painted = shell.painted
      /\ Still(shell, shell')
  BY <1>2 DEF OnlyOf, Fields, Still
<1> QED BY <1>1, <1>2, <1>5, QuietStep

LEMMA StartupIdleStep == Inv /\ StartupIdle => Inv' /\ LocksIdle
<1> SUFFICES ASSUME Inv, StartupIdle PROVE Inv' /\ LocksIdle OBVIOUS
<1> DEFINE u == [shell EXCEPT !.startup = "off"]
<1>0. Shaped(shell) /\ Whole(shell) /\ Living(shell) BY DEF Inv
<1>1. /\ shell' = ShellFade(u, "in")
      /\ Recorded /\ pointer' = pointer /\ unasked' = unasked /\ HelperWaits
  BY DEF StartupIdle
<1>2. DOMAIN u = Fields /\ OnlyOf(shell, u, {"startup"}) /\ u.startup = "off"
  BY <1>0 DEF Shaped, Fields, OnlyOf
<1> HIDE DEF u
<1>3. Shaped(u) BY <1>0, <1>2, StartupShaped
<1>4. u.fade = shell.fade BY <1>2 DEF OnlyOf, Fields
<1>5. /\ Shaped(shell') /\ OnlyOf(u, shell', {"fade", "frame"})
      /\ shell'.fade.animation /\ shell'.fade.type = "in" /\ shell'.fade.view
  BY <1>0, <1>1, <1>3, <1>4, FadeFacts DEF Whole
<1>6. /\ shell'.prepareSent = shell.prepareSent
      /\ shell'.lockSurface = shell.lockSurface
      /\ shell'.bound = shell.bound /\ shell'.locked = shell.locked
      /\ shell'.kfocus = shell.kfocus /\ shell'.painted = shell.painted
      /\ shell'.attached = shell.attached /\ shell'.corrupt = shell.corrupt
      /\ shell'.showing = shell.showing /\ Still(shell, shell')
  BY <1>2, <1>5 DEF OnlyOf, Fields, Still
<1>7. LayersOf(shell') = LayersOf(shell) BY <1>6 DEF LayersOf, InputPanels
<1>8. Whole(shell') BY <1>0, <1>5, <1>6, <1>7 DEF Whole
<1> QED BY <1>1, <1>5, <1>6, <1>8, QuietStep

\* A step of the helper's start: the conversation goes on unchanged.
LEMMA HelperStep ==
  ASSUME Inv, Recorded, pointer' = pointer,
         UNCHANGED <<events, requests, deaths, unasked>>,
         helper' \in [phase : {"starting", "bound", "gone"}, dialog : BOOLEAN],
         helper'.dialog = helper.dialog,
         Shaped(shell'), Whole(shell'),
         shell'.prepareSent = shell.prepareSent,
         shell'.lockSurface = shell.lockSurface,
         shell.bound => shell'.bound, shell'.locked = shell.locked,
         shell'.kfocus = shell.kfocus, shell'.painted = shell.painted,
         Still(shell, shell')
  PROVE  Inv' /\ LocksIdle
<1>0. /\ Shaped(shell) /\ Typed /\ Talk /\ Hidden /\ Lists
      /\ Living(shell')
  BY LivingKept DEF Inv
<1>1. Typed' BY <1>0, RecordedTyped DEF Typed
<1>2. Talk'
  <2>1. TalkOf(shell, requests, events, helper.dialog, pointer.focus)
    BY <1>0 DEF Talk
  <2>2. /\ shell.prepareSent => shell'.locked /\ shell'.bound
        /\ pointer.focus = "dialog" => shell'.lockSurface = "mapped"
    BY <2>1 DEF TalkOf
  <2>3. TalkOf(shell', requests, events, helper.dialog, pointer.focus)
    BY <2>1, <2>2, TalkKept
  <2> QED BY <2>3 DEF Talk
<1>3. Hidden' BY <1>0, HiddenKept
<1>4. Lists' BY <1>0, ListsKept DEF Still
<1> QED BY <1>0, <1>1, <1>2, <1>3, <1>4 DEF Inv, LocksIdle

LEMMA BindStep == Inv /\ Bind => Inv' /\ LocksIdle
<1> SUFFICES ASSUME Inv, Bind PROVE Inv' /\ LocksIdle OBVIOUS
<1>0. Shaped(shell) /\ Whole(shell) /\ Typed BY DEF Inv
<1>1. /\ helper' = [helper EXCEPT !.phase = "bound"]
      /\ shell' = [shell EXCEPT !.bound = TRUE]
      /\ Recorded /\ pointer' = pointer
      /\ UNCHANGED <<events, requests, deaths, unasked>>
  BY DEF Bind
<1>2. /\ Shaped(shell') /\ Whole(shell') /\ OnlyOf(shell, shell', {"bound"})
      /\ shell'.bound = TRUE
  BY <1>0, <1>1, BoundSet
<1>3. /\ shell'.prepareSent = shell.prepareSent
      /\ shell'.lockSurface = shell.lockSurface /\ shell'.locked = shell.locked
      /\ shell'.kfocus = shell.kfocus /\ shell'.painted = shell.painted
      /\ Still(shell, shell')
  BY <1>2 DEF OnlyOf, Fields, Still
<1>4. /\ helper' \in [phase : {"starting", "bound", "gone"}, dialog : BOOLEAN]
      /\ helper'.dialog = helper.dialog
  BY <1>0, <1>1 DEF Typed
<1> QED BY <1>1, <1>2, <1>3, <1>4, HelperStep

LEMMA ReadyStep == Inv /\ DesktopReady => Inv' /\ LocksIdle
<1> SUFFICES ASSUME Inv, DesktopReady PROVE Inv' /\ LocksIdle OBVIOUS
<1>0. Shaped(shell) /\ Whole(shell) /\ Typed BY DEF Inv
<1>1. /\ helper' = helper /\ shell' = ShellFadeStartup(shell)
      /\ Recorded /\ pointer' = pointer
      /\ UNCHANGED <<events, requests, deaths, unasked>>
  BY DEF DesktopReady, HelperWaits
<1>2. Shaped(shell') /\ Whole(shell') /\ OnlyOf(shell, shell', {"startup"})
  BY <1>0, <1>1, StartupFacts
<1>3. /\ shell'.prepareSent = shell.prepareSent /\ shell'.bound = shell.bound
      /\ shell'.lockSurface = shell.lockSurface /\ shell'.locked = shell.locked
      /\ shell'.kfocus = shell.kfocus /\ shell'.painted = shell.painted
      /\ Still(shell, shell')
  BY <1>2 DEF OnlyOf, Fields, Still
<1>4. /\ helper' \in [phase : {"starting", "bound", "gone"}, dialog : BOOLEAN]
      /\ helper'.dialog = helper.dialog
  BY <1>0, <1>1 DEF Typed
<1> QED BY <1>1, <1>2, <1>3, <1>4, HelperStep

LEMMA PrepareStep == Inv /\ PrepareLockSurface => Inv' /\ LocksIdle
<1> SUFFICES ASSUME Inv, PrepareLockSurface PROVE Inv' /\ LocksIdle OBVIOUS
<1>0. /\ Shaped(shell) /\ Whole(shell) /\ Typed /\ Talk /\ Hidden
      /\ Living(shell) /\ Lists
  BY DEF Inv
<1>1. /\ events > 0 /\ events' = events - 1
      /\ helper' = [helper EXCEPT !.dialog = TRUE]
      /\ requests' = IF helper.dialog THEN requests ELSE requests \o Asking
      /\ UNCHANGED <<shell, pointer, deaths, repainted, given, revived,
                     unasked>>
  BY DEF PrepareLockSurface, Asking
<1>2. /\ helper' \in [phase : {"starting", "bound", "gone"}, dialog : BOOLEAN]
      /\ helper'.dialog = TRUE
  BY <1>0, <1>1 DEF Typed
<1>3. Typed' BY <1>0, <1>1, <1>2 DEF Typed
<1>4. Talk'
  <2>1. TalkOf(shell, requests, events, helper.dialog, pointer.focus)
    BY <1>0 DEF Talk
  <2>2. shell.prepareSent /\ requests = <<>> BY <1>1, <2>1 DEF TalkOf
  <2>3. shell.lockSurface = "none" /\ events = 1 BY <2>1, <2>2 DEF TalkOf
  <2>4. ~helper.dialog BY <2>1, <2>2, <2>3, ShapesDiffer DEF TalkOf
  <2>5. requests' = Asking /\ events' = 0
    BY <1>1, <2>2, <2>3, <2>4, ShapeFacts
  <2>6. TalkOf(shell, Asking, 0, TRUE, pointer.focus)
    BY <2>1, <2>2, <2>3, ShapesDiffer DEF TalkOf
  <2> QED BY <1>1, <1>2, <2>5, <2>6 DEF Talk
<1>5. Hidden' /\ Lists' BY <1>0, <1>1 DEF Hidden, Lists
<1> QED BY <1>0, <1>1, <1>3, <1>4, <1>5 DEF Inv, LocksIdle

\* The pointer after the dialog's view may be gone.
LEMMA DialogGoneFacts ==
  ASSUME Typed, NEW gone \in BOOLEAN, DialogGone(gone)
  PROVE  /\ pointer' \in [focus : Foci, held : BOOLEAN]
         /\ pointer'.held = pointer.held
         /\ pointer'.focus \in {pointer.focus, "background"}
         /\ gone => pointer'.focus # "dialog"
<1>1. pointer \in [focus : Foci, held : BOOLEAN] /\ "background" \in Foci
  BY DEF Typed, Foci
<1>2. CASE gone /\ pointer.focus = "dialog"
  <2>1. pointer' = [pointer EXCEPT !.focus = "background"]
    BY <1>2 DEF DialogGone
  <2>2. /\ pointer' \in [focus : Foci, held : BOOLEAN]
        /\ pointer'.focus = "background" /\ pointer'.held = pointer.held
    BY <1>1, <2>1, PointerFacts
  <2> QED BY <2>2
<1>3. CASE ~(gone /\ pointer.focus = "dialog")
  BY <1>1, <1>3 DEF DialogGone
<1> QED BY <1>2, <1>3

\* A request is handled: what is common to the four.
LEMMA RequestStep ==
  ASSUME Inv, requests # <<>>, HandleRequest, Shaped(shell'), Whole(shell'),
         shell'.locked => shell.locked /\ shell'.kfocus = shell.kfocus,
         shell'.painted \in {shell.painted, Listed(shell)},
         Still(shell, shell'), shell'.kfocus \in {shell.kfocus, shell.saved},
         TalkOf(shell', requests', events, helper.dialog, pointer'.focus)
  PROVE  Inv' /\ LocksIdle
<1>0. /\ Shaped(shell) /\ Whole(shell) /\ Typed /\ Talk /\ Hidden
      /\ Living(shell) /\ Lists
  BY DEF Inv
<1>1. /\ DialogGone(Head(requests) = "destroy")
      /\ unasked' = (shell'.locked /\ (unasked \/ Head(requests) = "destroy"))
      /\ Recorded /\ UNCHANGED <<helper, events, deaths>>
  BY DEF HandleRequest
<1>2. (Head(requests) = "destroy") \in BOOLEAN OBVIOUS
<1>3. /\ pointer' \in [focus : Foci, held : BOOLEAN]
      /\ pointer'.held = pointer.held
      /\ pointer'.focus \in {pointer.focus, "background"}
  BY <1>0, <1>1, <1>2, DialogGoneFacts
<1>4. Typed'
  <2>1. unasked' \in BOOLEAN BY <1>0, <1>1 DEF Shaped
  <2>2. repainted' \in BOOLEAN /\ given' \in BOOLEAN /\ revived' \in BOOLEAN
    BY <1>0, <1>1, RecordedTyped
  <2> QED BY <1>0, <1>1, <1>3, <2>1, <2>2 DEF Typed
<1>5. Talk' BY <1>1 DEF Talk
<1>6. Hidden'
  <2>1. shell'.locked /\ ~given' => shell'.kfocus = None
    BY <1>0, <1>1 DEF Hidden, Recorded, RecordedIf, HistoryAfter, Typed, Shaped
  <2>2. shell'.locked /\ repainted' => shell.locked /\ repainted
    BY <1>1 DEF Recorded, RecordedIf
  <2>3. shell.locked => Listed(shell) = {"lock"}
    BY <1>0 DEF Whole, LayersOf, Listed
  <2>4. "background" \notin Windows \cup {"input_panel"} BY LockAssumption
  <2> QED BY <1>0, <1>3, <2>1, <2>2, <2>3, <2>4 DEF Hidden
<1>7. Living(shell') BY <1>0, LivingKept
<1>8. Lists'
  <2>1. "background" \notin Windows BY LockAssumption
  <2> QED BY <1>0, <1>3, <2>1, ListsKept DEF Still
<1> QED BY <1>4, <1>5, <1>6, <1>7, <1>8 DEF Inv, LocksIdle

LEMMA HandleStep == Inv /\ HandleRequest => Inv' /\ LocksIdle
<1> SUFFICES ASSUME Inv, HandleRequest PROVE Inv' /\ LocksIdle OBVIOUS
<1>0. /\ Shaped(shell) /\ Whole(shell) /\ Typed /\ Talk /\ Hidden
      /\ Living(shell) /\ Lists
  BY DEF Inv
<1>1. /\ requests # <<>> /\ shell' = Handled(shell, Head(requests))
      /\ requests' = Tail(requests)
      /\ DialogGone(Head(requests) = "destroy")
  BY DEF HandleRequest
<1>2. TalkOf(shell, requests, events, helper.dialog, pointer.focus)
  BY <1>0 DEF Talk
<1>3. (Head(requests) = "destroy") \in BOOLEAN OBVIOUS
<1>4. /\ pointer'.focus \in {pointer.focus, "background"}
      /\ Head(requests) = "destroy" => pointer'.focus # "dialog"
  BY <1>0, <1>1, <1>3, DialogGoneFacts
<1>5. CASE requests = Asking
  <2>1. shell' = SetLockSurface(shell) /\ requests' = Showing
    BY <1>1, <1>5, ShapeFacts DEF Handled
  <2>2. shell.prepareSent /\ shell.locked /\ shell.lockSurface = "none"
        /\ events = 0 /\ helper.dialog
    BY <1>2, <1>5, ShapesDiffer DEF TalkOf
  <2>3. /\ Shaped(shell') /\ Whole(shell') /\ ~shell'.prepareSent
        /\ OnlyOf(shell, shell', {"prepareSent", "lockSurface"})
        /\ shell'.lockSurface = "set"
    BY <1>0, <2>1, <2>2, SetSurfaceFacts
  <2>4. /\ shell'.locked = shell.locked /\ shell'.kfocus = shell.kfocus
        /\ shell'.painted = shell.painted /\ Still(shell, shell')
    BY <2>3 DEF OnlyOf, Fields, Still
  <2>5. pointer'.focus # "dialog" BY <1>2, <1>4, <2>2 DEF TalkOf
  <2>6. TalkOf(shell', Showing, events, helper.dialog, pointer'.focus)
    BY <2>2, <2>3, <2>5, ShapesDiffer DEF TalkOf
  <2> QED BY <1>1, <2>1, <2>3, <2>4, <2>6, RequestStep
<1>6. CASE requests = Showing
  <2>1. shell' = LockSurfaceConfigure(shell) /\ requests' = <<>>
    BY <1>1, <1>6, ShapeFacts DEF Handled
  <2>2. shell.lockSurface = "set" /\ helper.dialog /\ events = 0
    BY <1>2, <1>6, ShapesDiffer DEF TalkOf
  <2>3. ~shell.prepareSent BY <1>2, <2>2 DEF TalkOf
  <2>4. /\ Shaped(shell') /\ Whole(shell')
        /\ OnlyOf(shell, shell', {"lockSurface", "fade", "frame"})
        /\ shell'.lockSurface = "mapped"
    BY <1>0, <2>1, <2>2, ConfigureFacts
  <2>5. /\ shell'.locked = shell.locked /\ shell'.kfocus = shell.kfocus
        /\ shell'.painted = shell.painted
        /\ shell'.prepareSent = shell.prepareSent /\ Still(shell, shell')
    BY <2>4 DEF OnlyOf, Fields, Still
  <2>6. TalkOf(shell', <<>>, events, helper.dialog, pointer'.focus)
    BY <2>2, <2>3, <2>4, <2>5, ShapesDiffer DEF TalkOf
  <2> QED BY <1>1, <2>1, <2>4, <2>5, <2>6, RequestStep
<1>7. CASE requests = Leaving
  <2>1. shell' = DesktopShellUnlock(shell) /\ requests' = Left
    BY <1>1, <1>7, ShapeFacts DEF Handled
  <2>2. ~helper.dialog /\ events = 0
    BY <1>2, <1>7, ShapesDiffer DEF TalkOf
  <2>3. shell.lockSurface = "mapped"
    BY <1>0, <1>2, <1>7, <2>2, ShapesDiffer DEF TalkOf, Shaped
  <2>4. Unlocked(shell, shell') BY <1>0, <2>1, DesktopShellUnlockFacts
  <2>5. /\ shell'.painted = shell.painted
        /\ shell'.lockSurface = shell.lockSurface /\ Still(shell, shell')
    BY <2>4 DEF Unlocked, OnlyOf, Fields, Still
  <2>6. /\ Shaped(shell') /\ Whole(shell') /\ ~shell'.locked
        /\ ~shell'.prepareSent /\ shell'.kfocus \in {shell.kfocus, shell.saved}
    BY <2>4 DEF Unlocked
  <2>7. TalkOf(shell', Left, events, helper.dialog, pointer'.focus)
    BY <2>2, <2>3, <2>5, <2>6, ShapesDiffer DEF TalkOf
  <2> QED BY <1>1, <2>1, <2>5, <2>6, <2>7, RequestStep
<1>8. CASE requests = Left
  <2>1. shell' = LockSurfaceDestroy(shell) /\ requests' = <<>>
        /\ Head(requests) = "destroy"
    BY <1>1, <1>8, ShapeFacts DEF Handled
  <2>2. ~helper.dialog /\ events = 0
    BY <1>2, <1>8, ShapesDiffer DEF TalkOf
  <2>3. shell.lockSurface # "none"
    BY <1>2, <1>8, <2>2, ShapesDiffer DEF TalkOf
  <2>4. ~shell.prepareSent BY <1>2, <2>3 DEF TalkOf
  <2>5. /\ Shaped(shell') /\ Whole(shell')
        /\ OnlyOf(shell, shell', {"lockSurface", "painted", "frame"})
        /\ shell'.lockSurface = "none"
        /\ shell'.painted \in {shell.painted, Listed(shell)}
    BY <1>0, <2>1, DestroyFacts
  <2>6. /\ shell'.locked = shell.locked /\ shell'.kfocus = shell.kfocus
        /\ shell'.prepareSent = shell.prepareSent /\ Still(shell, shell')
    BY <2>5 DEF OnlyOf, Fields, Still
  <2>7. TalkOf(shell', <<>>, events, helper.dialog, pointer'.focus)
    BY <1>4, <2>1, <2>2, <2>4, <2>5, <2>6, ShapesDiffer DEF TalkOf
  <2> QED BY <1>1, <2>1, <2>5, <2>6, <2>7, RequestStep
<1> QED BY <1>1, <1>2, <1>5, <1>6, <1>7, <1>8 DEF TalkOf

LEMMA DiesStep == Inv /\ HelperDies => Inv' /\ LocksIdle
<1> SUFFICES ASSUME Inv, HelperDies PROVE Inv' /\ LocksIdle OBVIOUS
<1> DEFINE a == ShellFadeStartup(shell)
           b == Unbind(a)
<1>0. /\ Shaped(shell) /\ Whole(shell) /\ Typed /\ Talk /\ Hidden
      /\ Living(shell) /\ Lists
  BY DEF Inv
<1>1. /\ deaths < MaxDeaths /\ deaths' = deaths + 1
      /\ shell' = LockSurfaceDestroy(b)
      /\ \E phase \in RespawnOutcomes :
           helper' = [phase |-> phase, dialog |-> FALSE]
      /\ events' = 0 /\ requests' = <<>>
      /\ DialogGone(TRUE) /\ unasked' = FALSE /\ Recorded
  BY DEF HelperDies
<1>2. Shaped(a) /\ Whole(a) /\ OnlyOf(shell, a, {"startup"})
  BY <1>0, StartupFacts
<1> HIDE DEF a
<1>21. Living(a)
  <2>1. Still(shell, a) /\ a.kfocus = shell.kfocus
    BY <1>2 DEF OnlyOf, Fields, Still
  <2> QED BY <1>0, <2>1, LivingKept
<1>3. /\ Shaped(b) /\ Whole(b) /\ ~b.locked /\ ~b.prepareSent
      /\ Still(a, b) /\ b.kfocus \in {a.kfocus, a.saved}
      /\ b.painted = a.painted
  BY <1>2, UnbindFacts
<1>31. Living(b) BY <1>21, <1>3, LivingKept
<1> HIDE DEF b
<1>4. /\ Shaped(shell') /\ Whole(shell') /\ shell'.lockSurface = "none"
      /\ OnlyOf(b, shell', {"lockSurface", "painted", "frame"})
      /\ shell'.painted \in {b.painted, Listed(b)}
  BY <1>1, <1>3, DestroyFacts
<1>5. /\ ~shell'.locked /\ ~shell'.prepareSent
      /\ Still(b, shell') /\ shell'.kfocus = b.kfocus
  BY <1>3, <1>4 DEF OnlyOf, Fields, Still
<1>51. Living(shell') BY <1>31, <1>5, LivingKept
<1>6. /\ pointer' \in [focus : Foci, held : BOOLEAN]
      /\ pointer'.focus # "dialog"
      /\ pointer'.focus \in {pointer.focus, "background"}
  BY <1>0, <1>1, DialogGoneFacts
<1>7. /\ helper' \in [phase : {"starting", "bound", "gone"}, dialog : BOOLEAN]
      /\ helper'.dialog = FALSE
  BY <1>1 DEF RespawnOutcomes
<1>8. Typed'
  <2>1. deaths' \in 0..MaxDeaths BY <1>0, <1>1, LockAssumption DEF Typed
  <2>2. repainted' \in BOOLEAN /\ given' \in BOOLEAN /\ revived' \in BOOLEAN
    BY <1>0, <1>1, <1>4, RecordedTyped
  <2> QED BY <1>1, <1>6, <1>7, <2>1, <2>2 DEF Typed
<1>9. Talk'
  <2>1. TalkOf(shell', <<>>, 0, FALSE, pointer'.focus)
    BY <1>4, <1>5, <1>6, ShapesDiffer DEF TalkOf
  <2> QED BY <1>1, <1>7, <2>1 DEF Talk
<1>10. Hidden' BY <1>5 DEF Hidden
<1>11. Lists'
  <2>1. b.painted = shell.painted /\ b.open = shell.open /\ shell'.open = b.open
    BY <1>2, <1>3, <1>5 DEF OnlyOf, Fields, Still
  <2>2. Listed(b) \cap Windows \subseteq b.open
    <3>1. b.attached \subseteq Layers BY <1>3 DEF Shaped
    <3>2. Layers \cap Windows = {} BY LockAssumption
    <3> QED BY <3>1, <3>2 DEF Listed
  <2>3. "background" \notin Windows BY LockAssumption
  <2> QED BY <1>0, <1>4, <1>6, <2>1, <2>2, <2>3 DEF Lists
<1> QED BY <1>4, <1>5, <1>51, <1>8, <1>9, <1>10, <1>11 DEF Inv, LocksIdle

-----------------------------------------------------------------------------
(* The theorems.                                                           *)

\* Every step of the compositor, the user and the helper keeps the invariant,
\* and locks the screen only while idle.
THEOREM Inductive ==
  Inv /\ [Next]_vars => Inv' /\ [LocksIdle]_vars
<1> SUFFICES ASSUME Inv, [Next]_vars PROVE Inv' /\ [LocksIdle]_vars OBVIOUS
<1>1. ASSUME Motion PROVE Inv' /\ LocksIdle BY <1>1, MotionStep
<1>2. ASSUME Press PROVE Inv' /\ LocksIdle BY <1>2, PressStep
<1>3. ASSUME Release PROVE Inv' /\ LocksIdle BY <1>3, ReleaseStep
<1>4. ASSUME IdleTimeout PROVE Inv' /\ LocksIdle BY <1>4, IdleStep
<1>5. ASSUME ShowInputPanels PROVE Inv' /\ LocksIdle BY <1>5, ShowStep
<1>6. ASSUME HideInputPanels PROVE Inv' /\ LocksIdle BY <1>6, HideStep
<1>7. ASSUME NEW done \in BOOLEAN, Repaint(done) PROVE Inv' /\ LocksIdle
  BY <1>7, RepaintStep
<1>8. ASSUME ClientDamage PROVE Inv' /\ LocksIdle BY <1>8, DamageStep
<1>9. ASSUME LoopEnds PROVE Inv' /\ LocksIdle BY <1>9, LoopEndsStep
<1>10. ASSUME StartupTimeout PROVE Inv' /\ LocksIdle BY <1>10, TimeoutStep
<1>11. ASSUME StartupIdle PROVE Inv' /\ LocksIdle BY <1>11, StartupIdleStep
<1>12. ASSUME Bind PROVE Inv' /\ LocksIdle BY <1>12, BindStep
<1>13. ASSUME DesktopReady PROVE Inv' /\ LocksIdle BY <1>13, ReadyStep
<1>14. ASSUME PrepareLockSurface PROVE Inv' /\ LocksIdle BY <1>14, PrepareStep
<1>15. ASSUME HandleRequest PROVE Inv' /\ LocksIdle BY <1>15, HandleStep
<1>16. ASSUME HelperDies PROVE Inv' /\ LocksIdle BY <1>16, DiesStep
<1>17. ASSUME UNCHANGED vars PROVE Inv'
  BY <1>17 DEF vars, Inv, Typed, Talk, Hidden, Lists
<1>18. ASSUME NEW w \in Windows, MapWindow(w) PROVE Inv' /\ LocksIdle
  BY <1>18, MapStep
<1>19. ASSUME NEW w \in Windows, DestroyWindow(w) PROVE Inv' /\ LocksIdle
  BY <1>19, DestroyStep
<1>20. ASSUME PressSuper PROVE Inv' /\ LocksIdle BY <1>20, PressSuperStep
<1>21. ASSUME PressTab PROVE Inv' /\ LocksIdle BY <1>21, PressTabStep
<1>22. ASSUME ReleaseSuper PROVE Inv' /\ LocksIdle BY <1>22, ReleaseSuperStep
<1>23. ASSUME KeyboardFocusOut PROVE Inv' /\ LocksIdle BY <1>23, FocusOutStep
<1>24. ASSUME KeyboardFocusIn PROVE Inv' /\ LocksIdle BY <1>24, FocusInStep
<1> QED
  BY <1>1, <1>2, <1>3, <1>4, <1>5, <1>6, <1>7, <1>8, <1>9, <1>10, <1>11, <1>12,
     <1>13, <1>14, <1>15, <1>16, <1>17, <1>18, <1>19, <1>20, <1>21, <1>22, <1>23,
     <1>24 DEF Next

\* The invariant holds in every state, for any windows and number of deaths.
THEOREM Invariance == Spec => []Inv
<1>1. Init => Inv BY Initially
<1>2. Inv /\ [Next]_vars => Inv' BY Inductive
<1> QED BY <1>1, <1>2, PTL DEF Spec

\* How many requests for a lock surface each shape of the queue holds.
LEMMA AskedCard ==
  ASSUME NEW req \in {<<>>, Asking, Showing, Leaving, Left}
  PROVE  Cardinality({i \in 1..Len(req) : req[i] = "set_lock_surface"})
           = IF req = Asking THEN 1 ELSE 0
<1>1. CASE req = Asking
  <2>1. {i \in 1..Len(req) : req[i] = "set_lock_surface"} = {1}
    BY <1>1 DEF Asking
  <2> QED BY <1>1, <2>1, FS_Singleton
<1>2. CASE req # Asking
  <2>1. {i \in 1..Len(req) : req[i] = "set_lock_surface"} = {}
    BY <1>2 DEF Showing, Leaving, Left
  <2> QED BY <1>2, <2>1, FS_EmptySet
<1> QED BY <1>1, <1>2

\* LockSound: the layers lock() and resume_desktop() move are in the list once
\* and when they should be, one lock surface is asked for, no fade is without
\* its view and no focus is a window's that is gone - whenever the helper dies
\* and the panels and windows come and go.
THEOREM LockIsSound == Spec => []LockSound
<1>1. Inv => LockSound
  <2> SUFFICES ASSUME Inv PROVE LockSound OBVIOUS
  <2>0. Shaped(shell) /\ Whole(shell) /\ Typed /\ Talk /\ Living(shell) /\ Lists
    BY DEF Inv
  <2>1. TalkOf(shell, requests, events, helper.dialog, pointer.focus)
    BY <2>0 DEF Talk
  <2>2. requests \in {<<>>, Asking, Showing, Leaving, Left} BY <2>1 DEF TalkOf
  <2>3. TypeOK
    <3>1. requests \in Seq({"set_lock_surface", "commit", "unlock", "destroy"})
      <4> DEFINE R == {"set_lock_surface", "commit", "unlock", "destroy"}
      <4>1. /\ "set_lock_surface" \in R /\ "commit" \in R
            /\ "unlock" \in R /\ "destroy" \in R
        OBVIOUS
      <4> HIDE DEF R
      <4>2. <<>> \in Seq(R) OBVIOUS
      <4>3. Showing \in Seq(R) BY <4>1 DEF Showing
      <4>4. Left \in Seq(R) BY <4>1 DEF Left
      <4>5. Asking \in Seq(R) BY <4>1 DEF Asking
      <4>6. Leaving \in Seq(R) BY <4>1 DEF Leaving
      <4>7. requests \in Seq(R) BY <2>2, <4>2, <4>3, <4>4, <4>5, <4>6
      <4> QED BY <4>7 DEF R
    <3>2. events \in Nat BY <2>1 DEF TalkOf
    <3> QED BY <2>0, <3>1, <3>2 DEF TypeOK, Typed, Shaped, Desk
  <2>4. LayersTrue
    BY <2>0 DEF LayersTrue, Whole, LayersOf
  <2>5. OneDialog
    <3> DEFINE asked == Cardinality({i \in 1..Len(requests) :
                                       requests[i] = "set_lock_surface"})
    <3>1. asked = IF requests = Asking THEN 1 ELSE 0 BY <2>2, AskedCard
    <3> HIDE DEF asked
    <3>2. events + asked = IF shell.prepareSent THEN 1 ELSE 0
      <4>1. shell.prepareSent => requests \in {<<>>, Asking}
        BY <2>1, ShapesDiffer DEF TalkOf
      <4> QED BY <2>1, <3>1, <4>1, ShapesDiffer DEF TalkOf
    <3>3. helper.dialog /\ asked = 0 => shell.lockSurface # "none"
      BY <2>1, <3>1 DEF TalkOf
    <3> QED BY <3>2, <3>3 DEF OneDialog, asked
  <2>6. FadeHasView BY <2>0 DEF FadeHasView, Whole
  <2>7. FociLive BY <2>0 DEF FociLive, Living, Lists
  <2> QED BY <2>3, <2>4, <2>5, <2>6, <2>7 DEF LockSound
<1> QED BY <1>1, Invariance, PTL

\* HiddenGetNoInput: what is behind a locked screen has not the keyboard, unless
\* a click before the repaint, the switcher, the end of the window with the focus
\* or a nested compositor's focus gave it one, and once the screen was repainted
\* not the pointer either.
THEOREM HiddenIsDeaf == Spec => []HiddenGetNoInput
<1>1. Inv => HiddenGetNoInput
  BY DEF Inv, Hidden, HiddenGetNoInput, Typed
<1> QED BY <1>1, Invariance, PTL

\* LocksWhenIdle: the screen is locked only by a compositor that is idle, at the
\* end of a fade that no wake-up turned round.
THEOREM LocksOnlyIdle == Spec => LocksWhenIdle
<1>1. Inv /\ [Next]_vars =>
        [~shell.locked /\ shell'.locked => shell.power = "idle"]_vars
  BY Inductive DEF LocksIdle
<1> QED BY <1>1, Invariance, PTL DEF Spec, LocksWhenIdle
-----------------------------------------------------------------------------
\* IviTransition

Props == [visible : BOOLEAN, opacity : Opacities, dest : Places]
Rects == [dest : Places, start : Places]
LayerProps == [visible : BOOLEAN, opacity : Opacities, position : Places]

\* Where each transition of the surface will leave it.
SurfaceHeads ==
  /\ want \in Props
  /\ move = NULL => prop.dest = pending.dest /\ want.dest = pending.dest
  /\ move # NULL => want.dest = move.end
  /\ fade = NULL => want.visible = prop.visible /\ want.opacity = prop.opacity
  /\ fade # NULL => /\ want.visible = fade.on /\ want.opacity = fade.alpha
                    /\ fade.on => fade.end = fade.alpha

\* And where those of the layer will.
LayerHeads ==
  /\ layerWant \in LayerProps /\ noTime \in BOOLEAN
  /\ layerFade = NULL => /\ layerWant.visible = layer.visible
                         /\ layerWant.opacity = layer.opacity \/ noTime
  /\ layerFade # NULL => /\ layerWant.visible = layerFade.in
                         /\ layerWant.opacity = layerFade.end
                         /\ noTime <=> layerFade.duration = 0
  /\ layerMoves = <<>> => layerWant.position = layer.position
  /\ layerMoves # <<>> => layerWant.position = layerMoves[1].end

\* An older move is not behind a later one.
OldestFirst ==
  \A i, j \in 1 .. Len(layerMoves) : i < j => layerMoves[i].age <= layerMoves[j].age

TransitionInv ==
  /\ TransitionTypeOK /\ TimerRuns /\ SurfaceHeads /\ LayerHeads /\ OldestFirst
  /\ jumped \in BOOLEAN /\ DrawnRight /\ ToldAll
-----------------------------------------------------------------------------
LEMMA MinTwo ==
  ASSUME NEW a \in Int, NEW b \in Int
  PROVE  Min({a, b}) = IF a <= b THEN a ELSE b
<1> DEFINE m == IF a <= b THEN a ELSE b
<1>1. m \in {a, b} /\ \A y \in {a, b} : m <= y OBVIOUS
<1>2. \A x \in {a, b} : (\A y \in {a, b} : x <= y) => x = m OBVIOUS
<1> HIDE DEF m
<1>3. Min({a, b}) = m BY <1>1, <1>2 DEF Min
<1> QED BY <1>3 DEF m

LEMMA MaxTwo ==
  ASSUME NEW a \in Int, NEW b \in Int
  PROVE  Max({a, b}) = IF a <= b THEN b ELSE a
<1> DEFINE m == IF a <= b THEN b ELSE a
<1>1. m \in {a, b} /\ \A y \in {a, b} : m >= y OBVIOUS
<1>2. \A x \in {a, b} : (\A y \in {a, b} : x >= y) => x = m OBVIOUS
<1> HIDE DEF m
<1>3. Max({a, b}) = m BY <1>1, <1>2 DEF Max
<1> QED BY <1>3 DEF m

\* The age a frame gives is within the duration, and grows with the old one.
LEMMA TickFacts ==
  ASSUME NEW t, t.age \in Int, t.age >= New, NEW d \in Nat, NEW dt \in Nat
  PROVE  /\ Tick(t, d, dt) \in 0 .. d
         /\ \A u : u.age \in Int /\ u.age >= t.age => Tick(u, d, dt) >= Tick(t, d, dt)
<1>1. \A u : u.age \in Int /\ u.age >= New =>
        Tick(u, d, dt) = LET a == IF u.age = New THEN 0 ELSE u.age + dt
                         IN IF a <= d THEN a ELSE d
  BY MinTwo DEF Tick, New
<1> QED BY <1>1 DEF New

\* A moment of a transition gives a value between its ends; its end gives the
\* end.
LEMMA ValuesFacts ==
  ASSUME NEW S, S \subseteq Nat, 0 \in S, \A i, j \in S : i .. j \subseteq S,
         NEW t, t.start \in S, t.end \in S, NEW d \in Nat, NEW age \in 0 .. d
  PROVE  /\ Values(t, d, age) \subseteq S /\ Values(t, d, age) # {}
         /\ d # 0 /\ age = d => Values(t, d, age) = {t.end}
<1> DEFINE a == t.start
           b == t.end
           m == Min({a, b})
           n == Max({a, b})
<1>0. a \in S /\ b \in S /\ S \subseteq Int OBVIOUS
<1>1. a \in S /\ b \in S /\ a \in Int /\ b \in Int
  <2> HIDE DEF a, b
  <2> QED BY ONLY <1>0
<1>2. m \in {a, b} /\ n \in {a, b} /\ m <= n BY <1>1, MinTwo, MaxTwo
<1> HIDE DEF m, n, a, b
<1>3. m \in S /\ n \in S /\ m \in Int /\ n \in Int BY <1>1, <1>2
<1>4. m .. n \subseteq S /\ m \in m .. n BY <1>2, <1>3
<1>5. Values(t, d, age) = IF d = 0 THEN {0} ELSE IF age = 0 THEN {a}
                          ELSE IF age = d THEN {b} ELSE m .. n
  BY DEF Values, m, n, a, b
<1> QED BY <1>1, <1>4, <1>5 DEF b

LEMMA OpacitiesBetween ==
  Opacities \subseteq Nat /\ 0 \in Opacities /\ \A i, j \in Opacities : i .. j \subseteq Opacities
BY TransitionAssumption DEF Opacities

LEMMA OpacityValues ==
  ASSUME NEW t, t.start \in Opacities, t.end \in Opacities, NEW d \in Nat, NEW age \in 0 .. d
  PROVE  /\ Values(t, d, age) \subseteq Opacities
         /\ d # 0 /\ age = d => Values(t, d, age) = {t.end}
BY OpacitiesBetween, ValuesFacts

LEMMA PlaceValues ==
  ASSUME NEW t, t.start \in Places, t.end \in Places, NEW age \in 0 .. Duration
  PROVE  /\ Values(t, Duration, age) \subseteq Places
         /\ age = Duration => Values(t, Duration, age) = {t.end}
<1>1. /\ Places \subseteq Nat /\ 0 \in Places /\ \A i, j \in Places : i .. j \subseteq Places
      /\ Duration \in Nat /\ Duration # 0
  BY TransitionAssumption
<1> QED BY <1>1, ValuesFacts

\* The time left to a layer's fade is no more than its duration.
LEMMA TimeLeft ==
  ASSUME NEW x \in Opacities
  PROVE  (Duration * x) \div Full \in 0 .. Duration
<1>1. x \in Nat /\ x <= Full /\ Full \in Nat /\ Full > 0 /\ Duration \in Nat
  BY TransitionAssumption DEF Opacities
<1> DEFINE p == Duration * x
           q == p \div Full
<1>2. p \in Nat /\ p <= Full * Duration BY <1>1
<1> HIDE DEF p
<1>3. q \in Int /\ Full * q <= p /\ p < Full * q + Full BY <1>1, <1>2
<1> HIDE DEF q
<1>4. q >= 0
  <2> SUFFICES ASSUME q <= -1 PROVE FALSE BY <1>3
  <2>1. Full * q <= Full * (-1) BY <1>1, <1>3
  <2> QED BY <1>1, <1>2, <1>3, <2>1
<1>5. q <= Duration
  <2> SUFFICES ASSUME q >= Duration + 1 PROVE FALSE BY <1>1, <1>3
  <2>1. Full * q >= Full * (Duration + 1) BY <1>1, <1>3
  <2>2. Full * (Duration + 1) = Full * Duration + Full BY <1>1
  <2>3. Full * q \in Int /\ Full * Duration \in Int BY <1>1, <1>3
  <2> QED BY <1>1, <1>2, <1>3, <2>1, <2>2, <2>3
<1> QED BY <1>1, <1>3, <1>4, <1>5 DEF p, q
-----------------------------------------------------------------------------
LEMMA TypesNow ==
  ASSUME TransitionTypeOK
  PROVE  prop \in Props /\ pending \in Rects /\ layer \in LayerProps
BY DEF TransitionTypeOK, Props, Rects, LayerProps

LEMMA InitInv == TransitionInit => TransitionInv
<1> SUFFICES ASSUME TransitionInit PROVE TransitionInv OBVIOUS
<1>1. 0 \in Places /\ Full \in Opacities
  BY TransitionAssumption DEF Opacities
<1>2. /\ prop = [visible |-> FALSE, opacity |-> Full, dest |-> 0]
      /\ pending = [dest |-> 0, start |-> 0]
      /\ layer = [visible |-> TRUE, opacity |-> Full, position |-> 0]
      /\ move = NULL /\ fade = NULL /\ layerMoves = <<>> /\ layerFade = NULL
      /\ armed = FALSE /\ jumped = FALSE /\ want = prop /\ layerWant = layer /\ noTime = FALSE
      /\ told = prop
  BY DEF TransitionInit
<1>3. prop \in Props /\ pending \in Rects /\ layer \in LayerProps
  BY <1>1, <1>2 DEF Props, Rects, LayerProps
<1>4. layerMoves \in Seq(Moves) /\ Len(layerMoves) = 0 BY <1>2, EmptySeq
<1>5. TransitionTypeOK
  BY <1>2, <1>3, <1>4 DEF TransitionTypeOK, Props, Rects, LayerProps
<1>6. TimerRuns BY <1>2 DEF TimerRuns, Busy, Moving
<1>7. SurfaceHeads BY <1>2, <1>3 DEF SurfaceHeads
<1>8. LayerHeads BY <1>2, <1>3 DEF LayerHeads
<1>9. OldestFirst BY <1>4 DEF OldestFirst
<1>10. jumped \in BOOLEAN /\ DrawnRight /\ ToldAll BY <1>2 DEF DrawnRight, ToldAll
<1> QED BY <1>5, <1>6, <1>7, <1>8, <1>9, <1>10 DEF TransitionInv

\* What is drawn and told after a step that commits p and l and says so if
\* "changed", or if the layer did.
LEMMA ShownKept ==
  ASSUME TransitionInv, prop' \in Props, layer' \in LayerProps,
         NEW changed \in BOOLEAN,
         UpdateProp(prop', layer', changed, LayerDiffers(layer')),
         SendProp(prop', changed),
         ~changed /\ ~jumped' => ~jumped /\ prop' = prop
  PROVE  DrawnRight' /\ ToldAll'
<1>1. told' = IF changed THEN prop' ELSE told BY DEF SendProp
<1>2. view' = IF prop'.visible /\ layer'.visible /\ (changed \/ layer' # layer)
              THEN [alpha |-> <<layer'.opacity, prop'.opacity>>,
                    place |-> <<layer'.position, prop'.dest>>]
              ELSE view
  BY DEF UpdateProp, LayerDiffers
<1>3. DrawnRight /\ ToldAll BY DEF TransitionInv
<1>4. ToldAll' BY <1>1, <1>3 DEF ToldAll
<1>5. DrawnRight'
  <2> SUFFICES ASSUME ~jumped', prop'.visible, layer'.visible
               PROVE  view' = [alpha |-> <<layer'.opacity, prop'.opacity>>,
                               place |-> <<layer'.position, prop'.dest>>]
    BY DEF DrawnRight
  <2>1. CASE changed \/ layer' # layer BY <1>2, <2>1
  <2>2. CASE ~changed /\ layer' = layer
    <3>1. view' = view BY <1>2, <2>2
    <3>2. ~jumped /\ prop' = prop BY <2>2
    <3> QED BY <1>3, <2>2, <3>1, <3>2 DEF DrawnRight
  <2> QED BY <2>1, <2>2
<1> QED BY <1>4, <1>5

\* The part of a layer's commit that is about the surface, the view and the
\* timer.
LEMMA CommitLayerKept ==
  ASSUME TransitionInv, NEW l \in LayerProps, NEW registered \in BOOLEAN,
         CommitLayer(l, registered)
  PROVE  /\ layer' = l /\ prop' \in Props /\ pending' = pending
         /\ move' = move /\ fade' = fade
         /\ SurfaceHeads' /\ armed' = (armed \/ registered)
         /\ jumped' \in BOOLEAN /\ DrawnRight' /\ ToldAll'
<1>1. /\ layer' = l /\ prop' = [prop EXCEPT !.dest = pending.dest]
      /\ jumped' = (jumped \/ pending.dest # prop.dest)
      /\ UpdateProp(prop', l, FALSE, LayerDiffers(l))
      /\ armed' = (armed \/ registered) /\ UNCHANGED <<pending, move, fade, want, told>>
  BY DEF CommitLayer, CommitTransition
<1>2. prop \in Props /\ pending \in Rects BY TypesNow DEF TransitionInv
<1>3. /\ prop' \in Props /\ prop'.dest = pending.dest /\ prop'.visible = prop.visible
      /\ prop'.opacity = prop.opacity
      /\ pending.dest = prop.dest => prop' = prop
  BY <1>1, <1>2 DEF Props, Rects
<1>4. SurfaceHeads'
  BY <1>1, <1>3 DEF SurfaceHeads, TransitionInv
<1>5. jumped' \in BOOLEAN /\ (~jumped' => ~jumped /\ prop' = prop)
  BY <1>1, <1>3 DEF TransitionInv
<1>6. SendProp(prop', FALSE) BY <1>1 DEF SendProp
<1>7. DrawnRight' /\ ToldAll'
  BY <1>1, <1>3, <1>5, <1>6, ShownKept
<1> QED BY <1>1, <1>3, <1>4, <1>5, <1>7
\* The properties of the surface and the timer apart, a layer's commit keeps
\* what is so of the transitions it makes.
LEMMA LayerStep ==
  ASSUME TransitionInv, NEW l \in LayerProps, NEW registered \in BOOLEAN,
         CommitLayer(l, registered),
         layerMoves' \in Seq(Moves), layerFade' \in LayerFades \cup {NULL},
         layerFade' # NULL => layerFade'.age < layerFade'.duration \/ layerFade'.age = New,
         (layerMoves' # <<>> \/ layerFade' # NULL) =>
           layerMoves # <<>> \/ layerFade # NULL \/ registered,
         LayerHeads', OldestFirst'
  PROVE  TransitionInv'
<1>1. /\ layer' = l /\ prop' \in Props /\ pending' = pending
      /\ move' = move /\ fade' = fade
      /\ SurfaceHeads' /\ armed' = (armed \/ registered)
      /\ jumped' \in BOOLEAN /\ DrawnRight' /\ ToldAll'
  BY CommitLayerKept
<1>2. TransitionTypeOK /\ TimerRuns BY DEF TransitionInv
<1>3. TransitionTypeOK'
  BY <1>1, <1>2 DEF TransitionTypeOK, Props, LayerProps
<1>4. TimerRuns'
  BY <1>1, <1>2 DEF TransitionTypeOK, TimerRuns, Busy, Moving
<1> QED BY <1>1, <1>3, <1>4 DEF TransitionInv

LEMMA LayerFadeStep ==
  ASSUME TransitionInv, LayerFadeCommit
  PROVE  TransitionInv'
<1>1. PICK in \in BOOLEAN :
        /\ layerFade' = FadeLayer(in)
        /\ layerWant' = [layerWant EXCEPT !.visible = in,
                                          !.opacity = IF in THEN Full ELSE 0]
  BY DEF LayerFadeCommit
<1>2. /\ noTime' = (layerFade'.duration = 0) /\ layerMoves' = layerMoves
      /\ CommitLayer(layer, layerFade = NULL)
  BY DEF LayerFadeCommit
<1>3. TransitionTypeOK /\ layer \in LayerProps BY TypesNow DEF TransitionInv
<1>4. layer' = layer BY <1>2 DEF CommitLayer
<1> DEFINE to == IF in THEN Full ELSE 0
           f == layerFade'
<1>5. to \in Opacities /\ 0 \in Opacities /\ Full \in Opacities
  BY TransitionAssumption DEF Opacities
<1>6. New \in New .. Duration - 1 /\ Duration \in 0 .. Duration
  BY TransitionAssumption DEF New
<1>7. /\ f \in LayerFades /\ f.in = in /\ f.end = to /\ f.age = New
  <2>1. CASE layerFade # NULL
    <3> DEFINE x == IF in THEN Full - layer.opacity ELSE layer.opacity
               y == (Duration * x) \div Full
    <3>1. x \in Opacities BY <1>3, TransitionAssumption DEF LayerProps, Opacities
    <3>2. y \in 0 .. Duration BY <3>1, TimeLeft
    <3>3. f = [layerFade EXCEPT !.in = in, !.start = layer.opacity, !.end = to,
                                !.age = New, !.duration = y]
      BY <1>1, <2>1 DEF FadeLayer
    <3> HIDE DEF y, to, x
    <3>4. layerFade \in LayerFades /\ layer.opacity \in Opacities
      BY <1>3, <2>1 DEF TransitionTypeOK, LayerProps
    <3> QED BY <1>5, <1>6, <3>2, <3>3, <3>4 DEF LayerFades
  <2>2. CASE layerFade = NULL
    <3>1. f = [in |-> in, start |-> IF in THEN 0 ELSE Full, end |-> to,
               age |-> New, duration |-> Duration]
      BY <1>1, <2>2 DEF FadeLayer
    <3>2. (IF in THEN 0 ELSE Full) \in Opacities BY <1>5
    <3> HIDE DEF to
    <3> QED BY <1>5, <1>6, <3>1, <3>2 DEF LayerFades
  <2> QED BY <2>1, <2>2
<1>8. layerWant \in LayerProps BY DEF TransitionInv, LayerHeads
<1>9. /\ layerWant' \in LayerProps /\ layerWant'.visible = in /\ layerWant'.opacity = to
      /\ layerWant'.position = layerWant.position
  <2>1. layerWant' = [layerWant EXCEPT !.visible = in, !.opacity = to] BY <1>1
  <2> HIDE DEF to
  <2> QED BY <1>5, <1>8, <2>1 DEF LayerProps
<1> HIDE DEF to, f
<1>10. layerFade' # NULL BY <1>7, TransitionAssumption DEF f
<1>11. LayerHeads'
  BY <1>2, <1>4, <1>7, <1>9, <1>10 DEF LayerHeads, TransitionInv, f
<1>12. OldestFirst' BY <1>2 DEF OldestFirst, TransitionInv
<1>13. layerMoves' \in Seq(Moves) BY <1>2, <1>3 DEF TransitionTypeOK
<1> QED BY <1>2, <1>3, <1>7, <1>11, <1>12, <1>13, LayerStep DEF f

LEMMA LayerMoveStep ==
  ASSUME TransitionInv, LayerMoveCommit
  PROVE  TransitionInv'
<1>1. PICK to \in Places :
        /\ layerMoves' = <<[start |-> layer.position, end |-> to, age |-> New]>> \o layerMoves
        /\ layerWant' = [layerWant EXCEPT !.position = to]
        /\ CommitLayer([layer EXCEPT !.position = to], TRUE)
  BY DEF LayerMoveCommit
<1>2. layerFade' = layerFade /\ noTime' = noTime BY DEF LayerMoveCommit
<1>3. /\ TransitionTypeOK /\ layer \in LayerProps /\ layerMoves \in Seq(Moves)
      /\ layerWant \in LayerProps
  BY TypesNow DEF TransitionInv, TransitionTypeOK, LayerHeads
<1> DEFINE m == [start |-> layer.position, end |-> to, age |-> New]
           l == [layer EXCEPT !.position = to]
<1>4. New \in New .. Duration - 1
  BY TransitionAssumption DEF New
<1>5. m \in Moves /\ m.end = to /\ m.age = New BY <1>3, <1>4 DEF Moves, LayerProps
<1>6. l \in LayerProps /\ l.visible = layer.visible /\ l.opacity = layer.opacity
  BY <1>3 DEF LayerProps
<1>7. /\ layerWant' \in LayerProps /\ layerWant'.visible = layerWant.visible
      /\ layerWant'.opacity = layerWant.opacity /\ layerWant'.position = to
  BY <1>1, <1>3 DEF LayerProps
<1>8. layer' = l BY <1>1 DEF CommitLayer
<1> HIDE DEF m, l
<1>9. /\ layerMoves' \in Seq(Moves) /\ Len(layerMoves') = 1 + Len(layerMoves)
      /\ layerMoves'[1] = m /\ Len(layerMoves) \in Nat
      /\ \A i \in 1 .. Len(layerMoves) : layerMoves'[i + 1] = layerMoves[i]
  <2>1. <<m>> \in Seq(Moves) /\ Len(<<m>>) = 1 /\ <<m>>[1] = m BY <1>5
  <2>2. layerMoves' = <<m>> \o layerMoves BY <1>1 DEF m
  <2> HIDE DEF m
  <2>3. Len(layerMoves) \in Nat BY <1>3, LenProperties
  <2> QED BY <1>3, <2>1, <2>2, <2>3, ConcatProperties
<1>10. layerMoves' # <<>> BY <1>9, EmptySeq
<1>11. LayerHeads'
  BY <1>2, <1>5, <1>6, <1>7, <1>8, <1>9, <1>10 DEF LayerHeads, TransitionInv
<1>12. OldestFirst'
  <2> SUFFICES ASSUME NEW i \in 1 .. Len(layerMoves'), NEW j \in 1 .. Len(layerMoves'), i < j
               PROVE  layerMoves'[i].age <= layerMoves'[j].age
    BY DEF OldestFirst
  <2>1. j - 1 \in 1 .. Len(layerMoves) /\ layerMoves'[j] = layerMoves[j - 1]
    <3>1. j - 1 \in 1 .. Len(layerMoves) /\ (j - 1) + 1 = j BY <1>9
    <3> QED BY <1>9, <3>1
  <2>2. layerMoves[j - 1].age \in Int /\ layerMoves[j - 1].age >= New
    <3>1. layerMoves[j - 1] \in Moves BY <1>3, <2>1, ElementOfSeq
    <3> QED BY <3>1, TransitionAssumption DEF Moves, New
  <2>3. CASE i = 1 BY <1>5, <1>9, <2>1, <2>2, <2>3
  <2>4. CASE i # 1
    <3>1. i - 1 \in 1 .. Len(layerMoves) /\ (i - 1) + 1 = i /\ i - 1 < j - 1
      BY <1>9, <2>4
    <3>2. layerMoves'[i] = layerMoves[i - 1] BY <1>9, <3>1
    <3> QED BY <2>1, <3>1, <3>2 DEF OldestFirst, TransitionInv
  <2> QED BY <2>3, <2>4
<1>13. CommitLayer(l, TRUE) BY <1>1 DEF l
<1>14. /\ layerFade' \in LayerFades \cup {NULL}
       /\ layerFade' # NULL => layerFade'.age < layerFade'.duration \/ layerFade'.age = New
  BY <1>2, <1>3 DEF TransitionTypeOK
<1> QED BY <1>6, <1>9, <1>11, <1>12, <1>13, <1>14, LayerStep

LEMMA LayerDragStep ==
  ASSUME TransitionInv, LayerDrag
  PROVE  TransitionInv'
<1>1. PICK to \in Places :
        /\ layerMoves' = SubSeq(layerMoves, 2, Len(layerMoves))
        /\ layerWant' = [layerWant EXCEPT !.position =
             IF layerMoves' = <<>> THEN to ELSE Head(layerMoves').end]
        /\ CommitLayer([layer EXCEPT !.position = to], FALSE)
  BY DEF LayerDrag
<1>2. layerFade' = layerFade /\ noTime' = noTime BY DEF LayerDrag
<1>3. /\ TransitionTypeOK /\ layer \in LayerProps /\ layerMoves \in Seq(Moves)
      /\ layerWant \in LayerProps /\ Len(layerMoves) \in Nat
  BY TypesNow, LenProperties DEF TransitionInv, TransitionTypeOK, LayerHeads
<1> DEFINE l == [layer EXCEPT !.position = to]
           k == Len(layerMoves')
<1>4. l \in LayerProps /\ l.visible = layer.visible /\ l.opacity = layer.opacity
      /\ l.position = to
  BY <1>3 DEF LayerProps
<1>5. layer' = l BY <1>1 DEF CommitLayer
<1> HIDE DEF l
<1>6. /\ layerMoves' \in Seq(Moves) /\ k \in Nat
      /\ \A i \in 1 .. k : i + 1 \in 1 .. Len(layerMoves) /\ layerMoves'[i] = layerMoves[i + 1]
      /\ k # 0 => layerMoves # <<>>
  <2>1. CASE layerMoves = <<>>
    <3>1. Len(layerMoves) = 0 BY <2>1
    <3>2. layerMoves' = <<>> /\ k = 0 BY <1>1, <1>3, <3>1, SubSeqProperties
    <3> QED BY <3>2, EmptySeq
  <2>2. CASE layerMoves # <<>>
    <3>1. Len(layerMoves) >= 1 BY <1>3, <2>2, EmptySeq
    <3>2. \A i \in 2 .. Len(layerMoves) : layerMoves[i] \in Moves BY <1>3, ElementOfSeq
    <3>3. /\ SubSeq(layerMoves, 2, Len(layerMoves)) \in Seq(Moves)
          /\ Len(SubSeq(layerMoves, 2, Len(layerMoves))) = Len(layerMoves) - 1
          /\ \A i \in 1 .. Len(layerMoves) - 1 :
               SubSeq(layerMoves, 2, Len(layerMoves))[i] = layerMoves[i + 1]
      <4> DEFINE n == Len(layerMoves)
                 t == SubSeq(layerMoves, 2, n)
      <4>1. /\ t \in Seq(Moves) /\ Len(t) = IF 2 <= n THEN n - 2 + 1 ELSE 0
            /\ \A i \in 1 .. n - 2 + 1 : t[i] = layerMoves[2 + i - 1]
        BY <1>3, <3>2, SubSeqProperties
      <4>2. \A i \in 1 .. n - 1 : i \in 1 .. n - 2 + 1 /\ 2 + i - 1 = i + 1
        BY <1>3
      <4> HIDE DEF t
      <4>5. n \in Nat /\ n >= 1 BY <1>3, <3>1
      <4>3. t \in Seq(Moves) /\ Len(t) = n - 1
        <5> HIDE DEF n
        <5>1. t \in Seq(Moves) /\ Len(t) = IF 2 <= n THEN n - 2 + 1 ELSE 0 BY <4>1
        <5> QED BY <4>5, <5>1
      <4>4. \A i \in 1 .. n - 1 : t[i] = layerMoves[i + 1] BY <4>1, <4>2
      <4> QED BY <4>3, <4>4 DEF t
    <3> QED BY <1>1, <1>3, <2>2, <3>1, <3>3
  <2> QED BY <2>1, <2>2
<1>7. layerMoves' = <<>> <=> k = 0 BY <1>6, EmptySeq
<1>8. ASSUME layerMoves' # <<>>
      PROVE  Head(layerMoves') = layerMoves'[1] /\ layerMoves'[1].end \in Places
  <2>1. layerMoves'[1] \in Moves BY <1>6, <1>7, <1>8, ElementOfSeq
  <2>2. Head(layerMoves') = layerMoves'[1] BY <1>6, <1>8, HeadTailProperties
  <2> QED BY <2>1, <2>2 DEF Moves
<1>9. /\ layerWant' \in LayerProps /\ layerWant'.visible = layerWant.visible
      /\ layerWant'.opacity = layerWant.opacity
      /\ layerWant'.position = IF layerMoves' = <<>> THEN to ELSE layerMoves'[1].end
  <2> DEFINE p == IF layerMoves' = <<>> THEN to ELSE Head(layerMoves').end
  <2>1. p \in Places /\ (layerMoves' # <<>> => p = layerMoves'[1].end) BY <1>8
  <2>2. layerWant' = [layerWant EXCEPT !.position = p] BY <1>1
  <2>3. layerMoves' = <<>> => p = to OBVIOUS
  <2> HIDE DEF p
  <2> QED BY <1>3, <2>1, <2>2, <2>3 DEF LayerProps
<1>10. LayerHeads'
  BY <1>2, <1>4, <1>5, <1>9 DEF LayerHeads, TransitionInv
<1>11. OldestFirst'
  <2> SUFFICES ASSUME NEW i \in 1 .. k, NEW j \in 1 .. k, i < j
               PROVE  layerMoves'[i].age <= layerMoves'[j].age
    BY DEF OldestFirst
  <2>1. i + 1 < j + 1 BY <1>6
  <2> QED BY <1>6, <2>1 DEF OldestFirst, TransitionInv
<1>12. CommitLayer(l, FALSE) BY <1>1 DEF l
<1>13. /\ layerFade' \in LayerFades \cup {NULL}
       /\ layerFade' # NULL => layerFade'.age < layerFade'.duration \/ layerFade'.age = New
       /\ layerMoves' # <<>> \/ layerFade' # NULL => layerMoves # <<>> \/ layerFade # NULL
  BY <1>2, <1>3, <1>6, <1>7 DEF TransitionTypeOK
<1> QED BY <1>4, <1>6, <1>10, <1>11, <1>12, <1>13, LayerStep

LEMMA LayerSetVisibilityStep ==
  ASSUME TransitionInv, LayerSetVisibility
  PROVE  TransitionInv'
<1>1. PICK visible \in BOOLEAN :
        /\ layerWant' = [layerWant EXCEPT !.visible = IF layerFade = NULL THEN visible ELSE @]
        /\ CommitLayer([layer EXCEPT !.visible = visible], FALSE)
  BY DEF LayerSetVisibility
<1>2. layerFade' = layerFade /\ noTime' = noTime /\ layerMoves' = layerMoves
  BY DEF LayerSetVisibility
<1>3. TransitionTypeOK /\ layer \in LayerProps /\ layerWant \in LayerProps
  BY TypesNow DEF TransitionInv, LayerHeads
<1> DEFINE l == [layer EXCEPT !.visible = visible]
<1>4. l \in LayerProps /\ l.visible = visible /\ l.opacity = layer.opacity
      /\ l.position = layer.position
  BY <1>3 DEF LayerProps
<1>5. layer' = l BY <1>1 DEF CommitLayer
<1> HIDE DEF l
<1>6. /\ layerWant' \in LayerProps /\ layerWant'.position = layerWant.position
      /\ layerWant'.opacity = layerWant.opacity
      /\ layerWant'.visible = IF layerFade = NULL THEN visible ELSE layerWant.visible
  BY <1>1, <1>3 DEF LayerProps
<1>7. LayerHeads' BY <1>2, <1>4, <1>5, <1>6 DEF LayerHeads, TransitionInv
<1>8. OldestFirst' BY <1>2 DEF OldestFirst, TransitionInv
<1>9. CommitLayer(l, FALSE) BY <1>1 DEF l
<1>10. /\ layerMoves' \in Seq(Moves) /\ layerFade' \in LayerFades \cup {NULL}
       /\ layerFade' # NULL => layerFade'.age < layerFade'.duration \/ layerFade'.age = New
       /\ layerMoves' # <<>> \/ layerFade' # NULL => layerMoves # <<>> \/ layerFade # NULL
  BY <1>2, <1>3 DEF TransitionTypeOK
<1> QED BY <1>4, <1>7, <1>8, <1>9, <1>10, LayerStep
-----------------------------------------------------------------------------
\* A frame of the surface's transitions
LEMMA SurfaceFrameFacts ==
  ASSUME TransitionInv, NEW dt \in Nat, SurfaceFrame(dt), want' = want
  PROVE  /\ move' \in Moves \cup {NULL} /\ fade' \in Fades \cup {NULL}
         /\ prop' \in Props /\ pending' \in Rects /\ SurfaceHeads'
         /\ move = NULL => move' = NULL /\ prop'.dest = prop.dest
         /\ fade = NULL => fade' = NULL
<1>1. /\ TransitionTypeOK /\ SurfaceHeads /\ prop \in Props /\ pending \in Rects
      /\ Duration \in Nat /\ Duration # 0
      /\ Places \subseteq Nat /\ 0 \in Places /\ \A i, j \in Places : i .. j \subseteq Places
  BY TypesNow, TransitionAssumption DEF TransitionInv
<1>2. /\ move' \in Moves \cup {NULL} /\ pending' \in Rects
      /\ move = NULL => move' = NULL /\ pending' = pending
      /\ move # NULL => IF move' = NULL THEN pending'.dest = move.end
                        ELSE move'.end = move.end
  <2>1. CASE move = NULL
    <3>1. move' = move /\ pending' = pending BY <2>1 DEF SurfaceFrame
    <3> QED BY <1>1, <2>1, <3>1
  <2>2. CASE move # NULL
    <3> DEFINE age == Tick(move, Duration, dt)
    <3>1. PICK dest \in Values(move, Duration, age) :
            /\ pending' = [dest |-> dest, start |-> pending.dest]
            /\ move' = Aged(move, Duration, age)
      BY <2>2 DEF SurfaceFrame
    <3>2. move \in Moves BY <1>1, <2>2 DEF TransitionTypeOK
    <3>3. move.start \in Places /\ move.end \in Places /\ move.age \in New .. Duration - 1
      BY <3>2 DEF Moves
    <3>4. move.age \in Int /\ move.age >= New BY <1>1, <3>3 DEF New
    <3>5. age \in 0 .. Duration BY <1>1, <3>4, TickFacts
    <3> HIDE DEF age
    <3>6. /\ Values(move, Duration, age) \subseteq Places
          /\ age = Duration => Values(move, Duration, age) = {move.end}
      BY <1>1, <3>3, <3>5, ValuesFacts
    <3>7. dest \in Places BY <3>1, <3>6
    <3>8. pending' \in Rects /\ pending'.dest = dest
      BY <1>1, <3>1, <3>7 DEF Rects
    <3>9. CASE age = Duration
      <4>1. move' = NULL BY <3>1, <3>9 DEF Aged
      <4> QED BY <2>2, <3>1, <3>6, <3>8, <3>9, <4>1
    <3>10. CASE age # Duration
      <4>1. move' = [move EXCEPT !.age = age] BY <3>1, <3>10 DEF Aged
      <4>2. age \in New .. Duration - 1 BY <1>1, <3>5, <3>10 DEF New
      <4>3. move' \in Moves /\ move'.end = move.end BY <3>2, <4>1, <4>2 DEF Moves
      <4>4. move' # NULL BY <4>3, TransitionAssumption
      <4> QED BY <2>2, <3>8, <4>3, <4>4
    <3> QED BY <3>9, <3>10
  <2> QED BY <2>1, <2>2
<1>3. CASE fade = NULL
  <2>1. fade' = NULL /\ prop' = [prop EXCEPT !.dest = pending'.dest]
    BY <1>3 DEF SurfaceFrame
  <2>2. /\ prop' \in Props /\ prop'.dest = pending'.dest /\ prop'.visible = prop.visible
        /\ prop'.opacity = prop.opacity
    BY <1>1, <1>2, <2>1 DEF Props, Rects
  <2> QED BY <1>1, <1>2, <1>3, <2>1, <2>2 DEF SurfaceHeads
<1>4. CASE fade # NULL
  <2> DEFINE age == Tick(fade, Duration, dt)
             hides == age = Duration /\ ~fade.on
  <2>1. PICK opacity \in Values(fade, Duration, age) :
          /\ prop' = [visible |-> ~hides, dest |-> pending'.dest,
                      opacity |-> IF hides THEN fade.alpha ELSE opacity]
          /\ fade' = Aged(fade, Duration, age)
    BY <1>4 DEF SurfaceFrame
  <2>2. fade \in Fades BY <1>1, <1>4 DEF TransitionTypeOK
  <2>3. /\ fade.start \in Opacities /\ fade.end \in Opacities /\ fade.alpha \in Opacities
        /\ fade.age \in New .. Duration - 1 /\ fade.on \in BOOLEAN
    BY <2>2 DEF Fades
  <2>4. fade.age \in Int /\ fade.age >= New BY <1>1, <2>3 DEF New
  <2>5. age \in 0 .. Duration BY <1>1, <2>4, TickFacts
  <2> HIDE DEF age
  <2>6. /\ Values(fade, Duration, age) \subseteq Opacities
        /\ age = Duration => Values(fade, Duration, age) = {fade.end}
    BY <1>1, <2>3, <2>5, OpacitiesBetween, ValuesFacts
  <2>7. opacity \in Opacities BY <2>1, <2>6
  <2>8. /\ prop' \in Props /\ prop'.dest = pending'.dest /\ prop'.visible = ~hides
        /\ prop'.opacity = IF hides THEN fade.alpha ELSE opacity
    <3> DEFINE h == hides
               op == IF hides THEN fade.alpha ELSE opacity
    <3>1. h \in BOOLEAN /\ op \in Opacities /\ pending'.dest \in Places
      BY <1>2, <2>3, <2>7 DEF Rects
    <3>2. prop' = [visible |-> ~h, dest |-> pending'.dest, opacity |-> op] BY <2>1
    <3> HIDE DEF h, op, hides
    <3>3. prop' \in Props BY <3>1, <3>2 DEF Props
    <3>4. prop'.dest = pending'.dest /\ prop'.visible = ~h /\ prop'.opacity = op BY <3>2
    <3> QED BY <3>3, <3>4 DEF h, op
  <2>9. CASE age = Duration
    <3>1. fade' = NULL BY <2>1, <2>9 DEF Aged
    <3>2. want.visible = fade.on /\ want.opacity = fade.alpha /\ (fade.on => fade.end = fade.alpha)
      BY <1>1, <1>4 DEF SurfaceHeads
    <3>3. opacity = fade.end BY <2>1, <2>6, <2>9
    <3>4. want.visible = prop'.visible /\ want.opacity = prop'.opacity
      BY <2>3, <2>8, <2>9, <3>2, <3>3
    <3>5. SurfaceHeads' BY <1>1, <1>2, <2>8, <3>1, <3>4 DEF SurfaceHeads
    <3> QED BY <1>1, <1>2, <1>4, <2>8, <3>1, <3>5 DEF SurfaceHeads
  <2>10. CASE age # Duration
    <3>1. fade' = [fade EXCEPT !.age = age] BY <2>1, <2>10 DEF Aged
    <3>2. age \in New .. Duration - 1 BY <1>1, <2>5, <2>10 DEF New
    <3>3. /\ fade' \in Fades /\ fade'.end = fade.end /\ fade'.on = fade.on
          /\ fade'.alpha = fade.alpha
      BY <2>2, <3>1, <3>2 DEF Fades
    <3>4. fade' # NULL BY <3>3, TransitionAssumption
    <3>5. SurfaceHeads' BY <1>1, <1>2, <1>4, <2>8, <3>3, <3>4 DEF SurfaceHeads
    <3> QED BY <1>1, <1>2, <1>4, <2>8, <3>3, <3>5 DEF SurfaceHeads
  <2> QED BY <2>9, <2>10
<1> QED BY <1>3, <1>4

\* The moves of the layer in a frame: what is left of them, and where they put
\* the layer.
LEMMA MovesFrame ==
  ASSUME TransitionInv, NEW dt \in Nat, NEW position,
         LayerMovesFrame(dt), position \in LayerPositions(dt)
  PROVE  /\ layerMoves' \in Seq(Moves) /\ OldestFirst' /\ position \in Places
         /\ layerMoves = <<>> => layerMoves' = <<>> /\ position = layer.position
         /\ layerMoves # <<>> /\ layerMoves' # <<>> => layerMoves'[1].end = layerMoves[1].end
         /\ layerMoves # <<>> /\ layerMoves' = <<>> =>
              position = layerMoves[Len(layerMoves)].end
<1> DEFINE k == Len(layerMoves)
           ages == Ages(dt)
           aged == [i \in 1 .. k |-> [layerMoves[i] EXCEPT !.age = ages[i]]]
<1>1. PICK n \in 0 .. k : /\ \A i \in 1 .. k : ages[i] = Duration <=> i > n
                          /\ layerMoves' = SubSeq(aged, 1, n)
  BY DEF LayerMovesFrame
<1>2. position \in IF layerMoves = <<>> THEN {layer.position}
                   ELSE Values(layerMoves[k], Duration, ages[k])
  BY DEF LayerPositions
<1>3. /\ layerMoves \in Seq(Moves) /\ k \in Nat /\ layer.position \in Places
      /\ layerMoves = <<>> <=> k = 0
      /\ Duration \in Nat /\ Duration # 0
      /\ Places \subseteq Nat /\ 0 \in Places /\ \A i, j \in Places : i .. j \subseteq Places
  <2>1. layerMoves \in Seq(Moves) /\ layer \in LayerProps
    BY TypesNow DEF TransitionInv, TransitionTypeOK
  <2> QED BY <2>1, LenProperties, EmptySeq, TransitionAssumption DEF LayerProps
<1>4. ASSUME NEW i \in 1 .. k
      PROVE  /\ layerMoves[i] \in Moves /\ layerMoves[i].age \in Int
             /\ layerMoves[i].age >= New
             /\ ages[i] \in 0 .. Duration /\ ages[i] = Tick(layerMoves[i], Duration, dt)
  <2>1. layerMoves[i] \in Moves BY <1>3, ElementOfSeq
  <2>2. layerMoves[i].age \in Int /\ layerMoves[i].age >= New
    BY <1>3, <2>1 DEF Moves, New
  <2>3. Tick(layerMoves[i], Duration, dt) \in 0 .. Duration BY <1>3, <2>2, TickFacts
  <2> QED BY <2>1, <2>2, <2>3 DEF Ages
<1>5. ASSUME NEW i \in 1 .. k, NEW j \in 1 .. k, i < j
      PROVE  ages[i] <= ages[j]
  <2>1. layerMoves[i].age <= layerMoves[j].age BY <1>5 DEF TransitionInv, OldestFirst
  <2>2. Tick(layerMoves[j], Duration, dt) >= Tick(layerMoves[i], Duration, dt)
    BY <1>3, <1>4, <2>1, TickFacts
  <2> QED BY <1>4, <2>2
<1> HIDE DEF ages
<1>6. ASSUME NEW i \in 1 .. n
      PROVE  /\ i \in 1 .. k /\ aged[i] \in Moves /\ aged[i].age = ages[i]
             /\ aged[i].end = layerMoves[i].end
  <2>1. i \in 1 .. k BY <1>3
  <2>2. ages[i] \in 0 .. Duration /\ ages[i] # Duration BY <1>1, <1>4, <2>1
  <2>3. ages[i] \in New .. Duration - 1 BY <1>3, <2>2 DEF New
  <2>4. aged[i] = [layerMoves[i] EXCEPT !.age = ages[i]] BY <2>1
  <2>5. layerMoves[i] \in Moves BY <1>4, <2>1
  <2> HIDE DEF aged
  <2> QED BY <2>1, <2>3, <2>4, <2>5 DEF Moves
<1> HIDE DEF aged
<1>7. /\ layerMoves' \in Seq(Moves) /\ Len(layerMoves') = n
      /\ \A i \in 1 .. n : layerMoves'[i] = aged[i]
  <2>1. n \in Nat /\ 1 \in Int BY <1>3
  <2>2. \A i \in 1 .. n : aged[i] \in Moves BY <1>6
  <2>3. /\ SubSeq(aged, 1, n) \in Seq(Moves)
        /\ Len(SubSeq(aged, 1, n)) = IF 1 <= n THEN n - 1 + 1 ELSE 0
        /\ \A i \in 1 .. n - 1 + 1 : SubSeq(aged, 1, n)[i] = aged[1 + i - 1]
    BY <2>1, <2>2, SubSeqProperties
  <2>4. n - 1 + 1 = n /\ \A i \in 1 .. n : 1 + i - 1 = i BY <2>1
  <2>5. (IF 1 <= n THEN n - 1 + 1 ELSE 0) = n BY <2>1
  <2> QED BY <1>1, <2>3, <2>4, <2>5
<1>8. OldestFirst'
  <2> SUFFICES ASSUME NEW i \in 1 .. n, NEW j \in 1 .. n, i < j
               PROVE  layerMoves'[i].age <= layerMoves'[j].age
    BY <1>7 DEF OldestFirst
  <2> QED BY <1>5, <1>6, <1>7
<1>9. layerMoves' = <<>> <=> n = 0 BY <1>7, EmptySeq
<1>10. CASE k = 0
  <2>1. n = 0 BY <1>10
  <2> QED BY <1>2, <1>3, <1>7, <1>8, <1>9, <1>10, <2>1
<1>11. CASE k # 0
  <2>1. k \in 1 .. k /\ 1 \in 1 .. k BY <1>3, <1>11
  <2>2. position \in Values(layerMoves[k], Duration, ages[k]) BY <1>2, <1>3, <1>11
  <2>3. /\ layerMoves[k].start \in Places /\ layerMoves[k].end \in Places
        /\ ages[k] \in 0 .. Duration
    BY <1>4, <2>1 DEF Moves
  <2>4. /\ Values(layerMoves[k], Duration, ages[k]) \subseteq Places
        /\ ages[k] = Duration =>
             Values(layerMoves[k], Duration, ages[k]) = {layerMoves[k].end}
    BY <2>3, PlaceValues
  <2>5. n = 0 => ages[k] = Duration BY <1>1, <1>3, <1>11, <2>1
  <2>6. n # 0 => layerMoves'[1].end = layerMoves[1].end
    <3> SUFFICES ASSUME n # 0 PROVE layerMoves'[1].end = layerMoves[1].end OBVIOUS
    <3>1. 1 \in 1 .. n BY <1>3
    <3> QED BY <1>6, <1>7, <3>1
  <2> QED BY <1>3, <1>7, <1>8, <1>9, <1>11, <2>2, <2>4, <2>5, <2>6
<1> QED BY <1>10, <1>11

\* A frame of the layer's transitions
LEMMA LayerFrameFacts ==
  ASSUME TransitionInv, NEW dt \in Nat, LayerFrame(dt), noTime' = noTime
  PROVE  /\ layer' \in LayerProps /\ LayerHeads' /\ OldestFirst'
         /\ layerMoves' \in Seq(Moves) /\ layerFade' \in LayerFades \cup {NULL}
         /\ layerFade' # NULL => layerFade'.age < layerFade'.duration \/ layerFade'.age = New
<1>1. /\ TransitionTypeOK /\ LayerHeads /\ layer \in LayerProps /\ layerWant \in LayerProps
      /\ Duration \in Nat /\ Duration # 0
  BY TypesNow, TransitionAssumption DEF TransitionInv, LayerHeads
<1>2. PICK position \in LayerPositions(dt) :
        IF layerFade = NULL
        THEN layerFade' = NULL /\ layer' = [layer EXCEPT !.position = position]
        ELSE LET age == Tick(layerFade, layerFade.duration, dt)
             IN /\ layerFade' = Aged(layerFade, layerFade.duration, age)
                /\ \E opacity \in Values(layerFade, layerFade.duration, age) :
                     layer' = [position |-> position, opacity |-> opacity,
                               visible |-> layerFade.in \/ age < layerFade.duration]
  BY DEF LayerFrame
<1>3. layerWant' = IF Len(layerMoves) > 1 /\ layerMoves' = <<>>
                   THEN [layerWant EXCEPT !.position = layer'.position] ELSE layerWant
  BY DEF LayerFrame
<1>4. /\ layerMoves' \in Seq(Moves) /\ OldestFirst' /\ position \in Places
      /\ layerMoves = <<>> => layerMoves' = <<>> /\ position = layer.position
      /\ layerMoves # <<>> /\ layerMoves' # <<>> => layerMoves'[1].end = layerMoves[1].end
      /\ layerMoves # <<>> /\ layerMoves' = <<>> =>
           position = layerMoves[Len(layerMoves)].end
  BY <1>2, MovesFrame DEF LayerFrame
<1>5. layer' \in LayerProps /\ layer'.position = position =>
        /\ layerWant' \in LayerProps /\ layerWant'.visible = layerWant.visible
        /\ layerWant'.opacity = layerWant.opacity
        /\ layerMoves' = <<>> => layerWant'.position = position
        /\ layerMoves' # <<>> => layerWant'.position = layerMoves'[1].end
  <2> SUFFICES ASSUME layer' \in LayerProps, layer'.position = position
               PROVE  /\ layerWant' \in LayerProps /\ layerWant'.visible = layerWant.visible
                      /\ layerWant'.opacity = layerWant.opacity
                      /\ layerMoves' = <<>> => layerWant'.position = position
                      /\ layerMoves' # <<>> => layerWant'.position = layerMoves'[1].end
    OBVIOUS
  <2>1. CASE Len(layerMoves) > 1 /\ layerMoves' = <<>>
    <3>1. layerWant' = [layerWant EXCEPT !.position = position] BY <1>3, <2>1
    <3> QED BY <1>1, <1>4, <2>1, <3>1 DEF LayerProps
  <2>2. CASE ~(Len(layerMoves) > 1 /\ layerMoves' = <<>>)
    <3>1. layerWant' = layerWant BY <1>3, <2>2
    <3>2. layerMoves # <<>> => layerWant.position = layerMoves[1].end
      BY <1>1 DEF LayerHeads
    <3>3. layerMoves = <<>> => layerWant.position = layer.position
      BY <1>1 DEF LayerHeads
    <3>4. layerMoves # <<>> /\ layerMoves' = <<>> => Len(layerMoves) = 1
      <4> SUFFICES ASSUME layerMoves # <<>>, layerMoves' = <<>> PROVE Len(layerMoves) = 1
        OBVIOUS
      <4> DEFINE k == Len(layerMoves)
      <4>1. layerMoves \in Seq(Moves) BY <1>1 DEF TransitionTypeOK
      <4>2. k \in Nat /\ k # 0 BY <4>1, LenProperties, EmptySeq
      <4>3. ~(k > 1) BY <2>2
      <4> HIDE DEF k
      <4>4. k = 1 BY ONLY <4>2, <4>3
      <4> QED BY <4>4 DEF k
    <3> QED BY <1>1, <1>4, <3>1, <3>2, <3>3, <3>4
  <2> QED BY <2>1, <2>2
<1>6. CASE layerFade = NULL
  <2>1. layerFade' = NULL /\ layer' = [layer EXCEPT !.position = position] BY <1>2, <1>6
  <2>2. /\ layer' \in LayerProps /\ layer'.position = position
        /\ layer'.visible = layer.visible /\ layer'.opacity = layer.opacity
    BY <1>1, <1>4, <2>1 DEF LayerProps
  <2>3. LayerHeads' BY <1>1, <1>5, <1>6, <2>1, <2>2 DEF LayerHeads
  <2> QED BY <1>4, <2>1, <2>2, <2>3
<1>7. CASE layerFade # NULL
  <2> DEFINE d == layerFade.duration
             age == Tick(layerFade, d, dt)
             vis == layerFade.in \/ age < d
  <2>1. PICK opacity \in Values(layerFade, d, age) :
          /\ layerFade' = Aged(layerFade, d, age)
          /\ layer' = [position |-> position, opacity |-> opacity, visible |-> vis]
    BY <1>2, <1>7
  <2>2. layerFade \in LayerFades BY <1>1, <1>7 DEF TransitionTypeOK
  <2>3. /\ layerFade.start \in Opacities /\ layerFade.end \in Opacities
        /\ layerFade.age \in New .. Duration - 1 /\ layerFade.in \in BOOLEAN
        /\ d \in 0 .. Duration
    BY <2>2 DEF LayerFades
  <2>4. layerFade.age \in Int /\ layerFade.age >= New /\ d \in Nat BY <1>1, <2>3 DEF New
  <2>5. age \in 0 .. d BY <2>4, TickFacts
  <2> HIDE DEF age
  <2>6. /\ Values(layerFade, d, age) \subseteq Opacities
        /\ d # 0 /\ age = d => Values(layerFade, d, age) = {layerFade.end}
    BY <2>3, <2>4, <2>5, OpacityValues
  <2>7. opacity \in Opacities BY <2>1, <2>6
  <2>8. vis \in BOOLEAN BY <2>3
  <2>9. /\ layer' \in LayerProps /\ layer'.position = position /\ layer'.visible = vis
        /\ layer'.opacity = opacity
    <3> HIDE DEF vis
    <3> QED BY <1>4, <2>1, <2>7, <2>8 DEF LayerProps
  <2>10. CASE age = d
    <3>1. layerFade' = NULL BY <2>1, <2>10 DEF Aged
    <3>2. /\ layerWant.visible = layerFade.in /\ layerWant.opacity = layerFade.end
          /\ noTime <=> d = 0
      BY <1>1, <1>7 DEF LayerHeads
    <3>3. layer'.visible = layerFade.in BY <2>3, <2>4, <2>9, <2>10
    <3>4. layer'.opacity = layerFade.end \/ noTime BY <2>1, <2>6, <2>9, <2>10, <3>2
    <3>5. LayerHeads' BY <1>1, <1>5, <2>9, <3>1, <3>2, <3>3, <3>4 DEF LayerHeads
    <3> QED BY <1>4, <2>9, <3>1, <3>5
  <2>11. CASE age # d
    <3>1. layerFade' = [layerFade EXCEPT !.age = age] BY <2>1, <2>11 DEF Aged
    <3>2. age < d /\ age \in New .. Duration - 1
      BY <1>1, <2>3, <2>5, <2>11 DEF New
    <3>3. /\ layerFade' \in LayerFades /\ layerFade'.in = layerFade.in
          /\ layerFade'.end = layerFade.end /\ layerFade'.duration = d
          /\ layerFade'.age = age
      BY <2>2, <3>1, <3>2 DEF LayerFades
    <3>4. layerFade' # NULL BY <3>3, TransitionAssumption
    <3>5. LayerHeads' BY <1>1, <1>5, <1>7, <2>9, <3>3, <3>4 DEF LayerHeads
    <3> QED BY <1>4, <2>9, <3>2, <3>3, <3>5
  <2> QED BY <2>10, <2>11
<1> QED BY <1>6, <1>7
-----------------------------------------------------------------------------
\* A set of numbers that is not empty has a least one.
LEMMA LeastNumber ==
  ASSUME NEW T \in SUBSET Nat, T # {}
  PROVE  \E n \in T : \A m \in T : n <= m
<1> DEFINE R == OpToRel(<, Nat)
<1>1. IsWellFoundedOn(R, Nat) BY NatLessThanWellFounded
<1>2. ASSUME NEW m \in Nat, NEW n \in Nat, ~(<<m, n>> \in R) PROVE n <= m
  <2>1. ~(m < n) BY <1>2 DEF OpToRel
  <2> QED BY <2>1
<1> HIDE DEF R
<1>3. PICK n \in T : \A m \in T : ~(<<m, n>> \in R) BY <1>1, WFMin
<1>4. \A m \in T : n <= m
  <2> TAKE m \in T
  <2>1. m \in Nat /\ n \in Nat /\ ~(<<m, n>> \in R) BY <1>3, Zenon
  <2> QED BY <1>2, <2>1, Zenon
<1> QED BY <1>4, Zenon

\* The number of moves that go on, which a frame of the layer asks for, exists:
\* the frame is never stopped for want of it.
LEMMA SomeMovesGoOn ==
  ASSUME TransitionInv, NEW dt \in Nat
  PROVE  \E n \in 0 .. Len(layerMoves) :
           \A i \in 1 .. Len(layerMoves) : Ages(dt)[i] = Duration <=> i > n
<1> DEFINE k == Len(layerMoves)
           ages == Ages(dt)
           T == {n \in 0 .. k : \A i \in 1 .. k : i > n => ages[i] = Duration}
<1>1. layerMoves \in Seq(Moves) /\ k \in Nat /\ Duration \in Nat
  BY LenProperties, TransitionAssumption DEF TransitionInv, TransitionTypeOK
<1>2. ASSUME NEW i \in 1 .. k
      PROVE  /\ layerMoves[i].age \in Int /\ layerMoves[i].age >= New
             /\ ages[i] \in 0 .. Duration /\ ages[i] = Tick(layerMoves[i], Duration, dt)
  <2>1. layerMoves[i] \in Moves BY <1>1, ElementOfSeq
  <2>2. layerMoves[i].age \in Int /\ layerMoves[i].age >= New
    BY <1>1, <2>1 DEF Moves, New
  <2>3. Tick(layerMoves[i], Duration, dt) \in 0 .. Duration BY <1>1, <2>2, TickFacts
  <2> QED BY <2>2, <2>3 DEF Ages
<1>3. ASSUME NEW i \in 1 .. k, NEW j \in 1 .. k, i < j
      PROVE  ages[i] <= ages[j]
  <2>1. layerMoves[i].age <= layerMoves[j].age BY <1>3 DEF TransitionInv, OldestFirst
  <2>2. Tick(layerMoves[j], Duration, dt) >= Tick(layerMoves[i], Duration, dt)
    BY <1>1, <1>2, <2>1, TickFacts
  <2> QED BY <1>2, <2>2
<1> HIDE DEF ages
<1>4. k \in T /\ T \in SUBSET Nat BY <1>1
<1>5. PICK n \in T : \A m \in T : n <= m BY <1>4, LeastNumber
<1>6. n \in 0 .. k /\ \A i \in 1 .. k : i > n => ages[i] = Duration BY <1>5
<1>7. ASSUME NEW i \in 1 .. k, i <= n PROVE ages[i] # Duration
  <2>1. n - 1 \in 0 .. k /\ n \in 1 .. k BY <1>6, <1>7
  <2>2. n - 1 \notin T
    <3> HIDE DEF T
    <3>1. n - 1 \in T => n <= n - 1 BY <1>5
    <3> QED BY <1>1, <2>1, <3>1
  <2>3. PICK j \in 1 .. k : j > n - 1 /\ ages[j] # Duration BY <2>1, <2>2
  <2>4. j = n BY <1>6, <2>3
  <2>5. CASE i = n BY <2>3, <2>4, <2>5
  <2>6. CASE i # n
    <3>1. i < n BY <1>6, <1>7, <2>6
    <3>2. ages[i] <= ages[n] BY <1>3, <2>1, <3>1
    <3> QED BY <1>1, <1>2, <2>1, <2>3, <2>4, <3>2
  <2> QED BY <2>5, <2>6
<1> QED BY <1>6, <1>7 DEF ages
-----------------------------------------------------------------------------
LEMMA FrameStep ==
  ASSUME TransitionInv, Frame
  PROVE  TransitionInv'
<1> DEFINE changed == (move # NULL /\ prop'.dest # prop.dest)
                      \/ Differs(prop', {"visible", "opacity"})
<1>1. PICK dt \in 1 .. Duration : SurfaceFrame(dt) /\ LayerFrame(dt)
  BY DEF Frame
<1>2. /\ armed' = TRUE /\ want' = want /\ noTime' = noTime
      /\ jumped' = (jumped /\ ~changed)
      /\ UpdateProp(prop', layer', changed, LayerDiffers(layer'))
      /\ SendProp(prop', changed)
  BY DEF Frame, Rearm
<1>3. dt \in Nat BY TransitionAssumption
<1>4. /\ move' \in Moves \cup {NULL} /\ fade' \in Fades \cup {NULL}
      /\ prop' \in Props /\ pending' \in Rects /\ SurfaceHeads'
      /\ move = NULL => move' = NULL /\ prop'.dest = prop.dest
      /\ fade = NULL => fade' = NULL
  BY <1>1, <1>2, <1>3, SurfaceFrameFacts
<1>5. /\ layer' \in LayerProps /\ LayerHeads' /\ OldestFirst'
      /\ layerMoves' \in Seq(Moves) /\ layerFade' \in LayerFades \cup {NULL}
      /\ layerFade' # NULL => layerFade'.age < layerFade'.duration \/ layerFade'.age = New
  BY <1>1, <1>2, <1>3, LayerFrameFacts
<1>6. TransitionTypeOK' /\ TimerRuns'
  BY <1>2, <1>4, <1>5 DEF TransitionTypeOK, TimerRuns, Props, Rects, LayerProps
<1>7. prop \in Props /\ jumped \in BOOLEAN BY TypesNow DEF TransitionInv
<1>8. changed \in BOOLEAN BY DEF Differs
<1>9. ~changed => prop' = prop
  <2> SUFFICES ASSUME ~changed PROVE prop' = prop OBVIOUS
  <2>1. prop'.dest = prop.dest BY <1>4
  <2>2. prop'.visible = prop.visible /\ prop'.opacity = prop.opacity BY DEF Differs
  <2> HIDE DEF changed
  <2> QED BY <1>4, <1>7, <2>1, <2>2 DEF Props
<1> HIDE DEF changed
<1>10. DrawnRight' /\ ToldAll' /\ jumped' \in BOOLEAN
  BY <1>2, <1>4, <1>5, <1>7, <1>8, <1>9, ShownKept
<1> QED BY <1>4, <1>5, <1>6, <1>10 DEF TransitionInv

LEMMA LastFrameStep ==
  ASSUME TransitionInv, LastFrame
  PROVE  TransitionInv'
<1>1. /\ UNCHANGED <<prop, pending, move, fade, jumped, want>>
      /\ UNCHANGED <<layer, layerMoves, layerFade, layerWant, noTime, view, told>>
      /\ armed' = FALSE /\ ~Busy
  BY DEF LastFrame, surfaceVars, layerVars
<1>2. TransitionTypeOK' BY <1>1 DEF TransitionInv, TransitionTypeOK
<1>3. TimerRuns' BY <1>1 DEF TimerRuns, Busy
<1>4. SurfaceHeads' BY <1>1 DEF TransitionInv, SurfaceHeads
<1>5. LayerHeads' BY <1>1 DEF TransitionInv, LayerHeads
<1>6. OldestFirst' BY <1>1 DEF TransitionInv, OldestFirst
<1>7. jumped' \in BOOLEAN /\ DrawnRight' /\ ToldAll'
  BY <1>1 DEF TransitionInv, DrawnRight, ToldAll
<1> QED BY <1>2, <1>3, <1>4, <1>5, <1>6, <1>7 DEF TransitionInv

\* The fade that a request to show or to hide makes
LEMMA VisibilityFacts ==
  ASSUME TransitionInv, NEW visible \in BOOLEAN
  PROVE  /\ Visibility(visible) \in Fades \cup {NULL}
         /\ Visibility(visible) = NULL => fade = NULL
         /\ Visibility(visible) # NULL =>
              /\ Visibility(visible).on = visible
              /\ Visibility(visible).alpha = IF fade = NULL THEN prop.opacity ELSE fade.alpha
              /\ visible => Visibility(visible).end = Visibility(visible).alpha
<1> DEFINE v == Visibility(visible)
           start == IF visible THEN 0 ELSE prop.opacity
           end == IF visible THEN (IF fade = NULL THEN prop.opacity ELSE fade.alpha) ELSE 0
<1>1. prop.opacity \in Opacities /\ 0 \in Opacities /\ New \in New .. Duration - 1
  BY TypesNow, TransitionAssumption DEF TransitionInv, Props, Opacities, New
<1>2. CASE fade # NULL
  <2>1. fade \in Fades BY <1>2 DEF TransitionInv, TransitionTypeOK
  <2>2. v = [fade EXCEPT !.on = visible, !.start = prop.opacity, !.age = New, !.end = end]
    BY <1>2 DEF Visibility
  <2>3. fade.alpha \in Opacities BY <2>1 DEF Fades
  <2>4. end \in Opacities BY <1>1, <2>3
  <2>5. visible => end = fade.alpha BY <1>2
  <2> HIDE DEF v, end
  <2>6. /\ v \in Fades /\ v.on = visible /\ v.alpha = fade.alpha /\ v.end = end
    BY <1>1, <2>1, <2>2, <2>4 DEF Fades
  <2>7. v # NULL BY <2>6, TransitionAssumption
  <2> QED BY <1>2, <2>5, <2>6, <2>7 DEF v
<1>3. CASE fade = NULL /\ visible /\ prop.visible
  BY <1>3 DEF Visibility
<1>4. CASE fade = NULL /\ ~(visible /\ prop.visible)
  <2>1. v = [on |-> visible, alpha |-> prop.opacity, age |-> New, start |-> start, end |-> end]
    BY <1>4 DEF Visibility
  <2>2. start \in Opacities /\ end \in Opacities /\ (visible => end = prop.opacity)
    BY <1>1, <1>4
  <2> HIDE DEF v, start, end
  <2>3. v \in Fades /\ v.on = visible /\ v.alpha = prop.opacity /\ v.end = end
    BY <1>1, <2>1, <2>2 DEF Fades
  <2>4. v # NULL BY <2>3, TransitionAssumption
  <2> QED BY <1>4, <2>2, <2>3, <2>4 DEF v
<1> QED BY <1>2, <1>3, <1>4

LEMMA SurfaceCommitStep ==
  ASSUME TransitionInv, SurfaceCommit
  PROVE  TransitionInv'
<1>1. PICK type \in {"NONE", "DEFAULT", "DEST_RECT_ONLY", "FADE_ONLY"},
           visible \in BOOLEAN, opacity \in Asked, dest \in Places \cup {NULL} :
       CommitSurfaceList(type, visible, opacity, dest)
  BY DEF SurfaceCommit
<1> DEFINE moves == type \in {"DEFAULT", "DEST_RECT_ONLY"}
           fades == type \in {"DEFAULT", "FADE_ONLY"}
           set == IF dest = NULL THEN pending ELSE [dest |-> dest, start |-> pending.dest]
           asked == [visible |-> visible, opacity |-> opacity, dest |-> set.dest]
           changed == Differs(asked, {"visible", "opacity"} \cup
                                     (IF dest = NULL THEN {} ELSE {"dest"}))
           newProp == IF moves THEN [asked EXCEPT !.dest = prop.dest] ELSE asked
<1>2. /\ prop \in Props /\ pending \in Rects /\ jumped \in BOOLEAN /\ want \in Props
      /\ move \in Moves \cup {NULL} /\ fade \in Fades \cup {NULL}
      /\ TransitionTypeOK /\ SurfaceHeads /\ TimerRuns
  BY TypesNow DEF TransitionInv, SurfaceHeads, TransitionTypeOK
<1>3. opacity \in Opacities BY TransitionAssumption
<1>4. /\ layer' = layer /\ layerMoves' = layerMoves /\ layerFade' = layerFade
      /\ layerWant' = layerWant /\ noTime' = noTime
  BY DEF SurfaceCommit, layerVars
<1>5. /\ pending' = set /\ prop' = newProp
      /\ move' = IF moves THEN MoveResizeView(set.start, set.dest) ELSE move
      /\ fade' = IF fades THEN Visibility(visible) ELSE fade
      /\ jumped' = (~changed /\ (jumped \/ prop'.dest # prop.dest))
      /\ UpdateProp(prop', layer, changed, FALSE) /\ SendProp(prop', changed)
      /\ armed' = (armed \/ (move = NULL /\ move' # NULL) \/ (fade = NULL /\ fade' # NULL))
      /\ want' = [dest |-> IF moves \/ move = NULL THEN set.dest ELSE want.dest,
                  visible |-> IF fades \/ fade = NULL THEN visible ELSE want.visible,
                  opacity |-> IF fade' = NULL THEN opacity ELSE want.opacity]
  BY <1>1 DEF CommitSurfaceList, CommitTransition
<1>6. set \in Rects /\ set.dest \in Places /\ set.start \in Places BY <1>2 DEF Rects
<1>7. /\ ~changed => visible = prop.visible /\ opacity = prop.opacity
      /\ changed \in BOOLEAN
  BY DEF Differs
<1> HIDE DEF set, changed
<1>8. asked \in Props /\ asked.visible = visible /\ asked.opacity = opacity
      /\ asked.dest = set.dest
  BY <1>3, <1>6 DEF Props
<1> HIDE DEF asked
<1>9. /\ prop' \in Props /\ prop'.visible = visible /\ prop'.opacity = opacity
      /\ prop'.dest = IF moves THEN prop.dest ELSE set.dest
  BY <1>2, <1>5, <1>8 DEF Props
<1> HIDE DEF newProp
<1>10. /\ move' \in Moves \cup {NULL}
       /\ moves => move' # NULL /\ move'.end = set.dest
       /\ ~moves => move' = move
  <2>1. CASE moves
    <3>1. move' = [start |-> set.start, end |-> set.dest, age |-> New]
      BY <1>5, <2>1 DEF MoveResizeView
    <3>2. New \in New .. Duration - 1 BY TransitionAssumption DEF New
    <3>3. move' \in Moves /\ move'.end = set.dest BY <1>6, <3>1, <3>2 DEF Moves
    <3> QED BY <2>1, <3>3, TransitionAssumption
  <2>2. CASE ~moves BY <1>2, <1>5, <2>2
  <2> QED BY <2>1, <2>2
<1>11. /\ fade' \in Fades \cup {NULL}
       /\ ~fades => fade' = fade
       /\ fades => /\ fade' = NULL => fade = NULL
                   /\ fade' # NULL =>
                        /\ fade'.on = visible
                        /\ fade'.alpha = IF fade = NULL THEN prop.opacity ELSE fade.alpha
                        /\ visible => fade'.end = fade'.alpha
  <2>1. CASE fades
    <3>1. fade' = Visibility(visible) BY <1>5, <2>1
    <3> QED BY <2>1, <3>1, VisibilityFacts
  <2>2. CASE ~fades BY <1>2, <1>5, <2>2
  <2> QED BY <2>1, <2>2
<1> HIDE DEF moves, fades
<1>12. /\ want' \in Props
       /\ want'.dest = IF moves \/ move = NULL THEN set.dest ELSE want.dest
       /\ want'.visible = IF fades \/ fade = NULL THEN visible ELSE want.visible
       /\ want'.opacity = IF fade' = NULL THEN opacity ELSE want.opacity
  <2> DEFINE a == IF moves \/ move = NULL THEN set.dest ELSE want.dest
             b == IF fades \/ fade = NULL THEN visible ELSE want.visible
             c == IF fade' = NULL THEN opacity ELSE want.opacity
  <2>1. a \in Places /\ b \in BOOLEAN /\ c \in Opacities BY <1>2, <1>3, <1>6 DEF Props
  <2>2. want' = [dest |-> a, visible |-> b, opacity |-> c] BY <1>5
  <2> HIDE DEF a, b, c
  <2>3. want' \in Props /\ want'.dest = a /\ want'.visible = b /\ want'.opacity = c
    BY <2>1, <2>2 DEF Props
  <2> QED BY <2>3 DEF a, b, c
<1>13. pending' \in Rects /\ pending'.dest = set.dest BY <1>5, <1>6
<1>14. SurfaceHeads'
  <2>1. move' = NULL => prop'.dest = pending'.dest /\ want'.dest = pending'.dest
    BY <1>9, <1>10, <1>12, <1>13
  <2>2. move' # NULL => want'.dest = move'.end
    BY <1>2, <1>10, <1>12 DEF SurfaceHeads
  <2>3. fade' = NULL => want'.visible = prop'.visible /\ want'.opacity = prop'.opacity
    BY <1>2, <1>9, <1>11, <1>12 DEF SurfaceHeads
  <2>4. fade' # NULL => /\ want'.visible = fade'.on /\ want'.opacity = fade'.alpha
                        /\ fade'.on => fade'.end = fade'.alpha
    <3> SUFFICES ASSUME fade' # NULL
                 PROVE  /\ want'.visible = fade'.on /\ want'.opacity = fade'.alpha
                        /\ fade'.on => fade'.end = fade'.alpha
      OBVIOUS
    <3>1. CASE fades BY <1>2, <1>11, <1>12, <3>1 DEF SurfaceHeads
    <3>2. CASE ~fades BY <1>2, <1>11, <1>12, <3>2 DEF SurfaceHeads
    <3> QED BY <3>1, <3>2
  <2> QED BY <1>12, <2>1, <2>2, <2>3, <2>4 DEF SurfaceHeads
<1>15. TransitionTypeOK'
  BY <1>2, <1>4, <1>5, <1>9, <1>10, <1>11, <1>13
  DEF TransitionTypeOK, Props, Rects, LayerProps
<1>16. TimerRuns'
  BY <1>2, <1>4, <1>5 DEF TimerRuns, Busy, Moving, TransitionTypeOK
<1>17. DrawnRight' /\ ToldAll' /\ jumped' \in BOOLEAN
  <2>1. layer' \in LayerProps BY <1>4, TypesNow DEF TransitionInv
  <2>2. UpdateProp(prop', layer', changed, LayerDiffers(layer'))
    BY <1>4, <1>5 DEF LayerDiffers
  <2>3. ~changed /\ ~jumped' => ~jumped /\ prop' = prop
    <3> SUFFICES ASSUME ~changed, ~jumped' PROVE ~jumped /\ prop' = prop OBVIOUS
    <3>1. ~jumped /\ prop'.dest = prop.dest BY <1>5
    <3> QED BY <1>2, <1>7, <1>9, <3>1 DEF Props
  <2>4. jumped' \in BOOLEAN BY <1>5
  <2> QED BY <1>5, <1>7, <1>9, <2>1, <2>2, <2>3, <2>4, ShownKept
<1>18. LayerHeads' BY <1>4 DEF TransitionInv, LayerHeads
<1>19. OldestFirst' BY <1>4 DEF TransitionInv, OldestFirst
<1> QED BY <1>14, <1>15, <1>16, <1>17, <1>18, <1>19 DEF TransitionInv
-----------------------------------------------------------------------------
\* Every commit and every frame keeps the invariant.
THEOREM TransitionInductive == TransitionSpec => []TransitionInv
<1>1. ASSUME TransitionInv, TransitionNext PROVE TransitionInv'
  BY <1>1, SurfaceCommitStep, LayerFadeStep, LayerMoveStep, LayerDragStep,
     LayerSetVisibilityStep, FrameStep, LastFrameStep
  DEF TransitionNext
<1>2. ASSUME TransitionInv, UNCHANGED transitionVars PROVE TransitionInv'
  <2>1. /\ UNCHANGED <<prop, pending, move, fade, jumped, want>>
        /\ UNCHANGED <<layer, layerMoves, layerFade, layerWant, noTime, view, told, armed>>
    BY <1>2 DEF transitionVars, surfaceVars, layerVars
  <2>2. TransitionTypeOK' BY <1>2, <2>1 DEF TransitionInv, TransitionTypeOK
  <2>3. TimerRuns' BY <1>2, <2>1 DEF TransitionInv, TimerRuns, Busy
  <2>4. SurfaceHeads' BY <1>2, <2>1 DEF TransitionInv, SurfaceHeads
  <2>5. LayerHeads' BY <1>2, <2>1 DEF TransitionInv, LayerHeads
  <2>6. OldestFirst' BY <1>2, <2>1 DEF TransitionInv, OldestFirst
  <2>7. jumped' \in BOOLEAN /\ DrawnRight' /\ ToldAll'
    BY <1>2, <2>1 DEF TransitionInv, DrawnRight, ToldAll
  <2> QED BY <2>2, <2>3, <2>4, <2>5, <2>6, <2>7 DEF TransitionInv
<1>3. TransitionInv /\ [TransitionNext]_transitionVars => TransitionInv'
  BY <1>1, <1>2
<1> QED BY <1>3, InitInv, PTL DEF TransitionSpec

\* However many moves there are, and for whatever duration: transitions have a
\* timer while they run, and leave surface and layer as the requests they were
\* made by, turned round or cut into by, said.
THEOREM LandsTheorem == TransitionSpec => []LandsAsAsked
<1>1. TransitionInv => LandsAsAsked
  <2> SUFFICES ASSUME TransitionInv PROVE LandsAsAsked OBVIOUS
  <2>1. prop \in Props /\ want \in Props
    BY TypesNow DEF TransitionInv, SurfaceHeads
  <2>2. Lands
    <3> SUFFICES ASSUME move = NULL, fade = NULL PROVE prop = want BY DEF Lands
    <3>1. prop.dest = want.dest /\ prop.visible = want.visible /\ prop.opacity = want.opacity
      BY DEF TransitionInv, SurfaceHeads
    <3> QED BY <2>1, <3>1 DEF Props
  <2>3. LayerLands BY DEF TransitionInv, LayerHeads, LayerLands
  <2> QED BY <2>2, <2>3 DEF TransitionInv, LandsAsAsked
<1> QED BY <1>1, TransitionInductive, PTL

\* What is on the screen and what the surface's listener was told is what is
\* committed, but after a rectangle that was committed unmarked.
THEOREM ShownTheorem == TransitionSpec => []SeenAndTold
<1>1. TransitionInv => SeenAndTold BY DEF TransitionInv, SeenAndTold
<1> QED BY <1>1, TransitionInductive, PTL
=============================================================================
