--------------------------- MODULE SurfaceTree_proofs --------------------------
(***************************************************************************)
(* Proofs about SurfaceTree, for any finite set of surfaces, any buffers   *)
(* and any number of commits: the tree, the buffers' references, the frame *)
(* callbacks, and the commits of synchronized sub-surfaces.                *)
(*                                                                         *)
(* A handler is a composition of operators on the pair of variables, here  *)
(* called c, d, e.  A lemma for each says which fields of which surface it *)
(* changes and that it keeps the invariant.  The surfaces above another    *)
(* are the least set closed under parents; the descent of a commit through *)
(* a sub-tree is a fold over a set, about which the lemmas argue with any  *)
(* function that satisfies its equation.                                   *)
(***************************************************************************)
EXTENDS SurfaceTree, FiniteSetTheorems, WellFoundedInduction, TLAPS

\* A buffer, or none.
Owners == Buffers \cup {None}

\* The fields of a surface.
Fields ==
  {"alive", "sub", "parent", "synchronized", "has_cached_data", "pending", "cached",
   "ref", "committed", "applied", "frame_callback_list", "done", "dropped",
   "damage_lost"}

\* The type of each field.
Types ==
  [alive |-> BOOLEAN, sub |-> BOOLEAN, parent |-> Surfaces \cup {None},
   synchronized |-> BOOLEAN, has_cached_data |-> BOOLEAN,
   pending |-> StateType, cached |-> StateType, ref |-> [Holders -> Owners],
   committed |-> Nat, applied |-> Nat, frame_callback_list |-> SUBSET Nat,
   done |-> SUBSET Nat, dropped |-> SUBSET Nat, damage_lost |-> BOOLEAN]

\* x has the fields of a surface, and they have their types.
Rec(x) == DOMAIN x = Fields /\ x = [f \in DOMAIN x |-> x[f]]
Shaped(x) == Rec(x) /\ \A f \in Fields : x[f] \in Types[f]

\* Only the fields fs change from x to y.
OnlyOf(x, y, fs) == \A f \in Fields \ fs : y[f] = x[f]

\* The fields fs of x have their types.
Typed(x, fs) == \A f \in fs \cap Fields : x[f] \in Types[f]

\* The type of a buffer.
BufferType == [busy_count : Nat, free : BOOLEAN]

\* c is what a handler works on.
Placed(c) ==
  /\ c = [surface |-> c.surface, buffer |-> c.buffer]
  /\ c.surface = [s \in Surfaces |-> c.surface[s]]
  /\ \A s \in Surfaces : Shaped(c.surface[s])
  /\ c.buffer \in [Buffers -> BufferType]

\* Only the fields fs of the surface s change from c to d, and buffers.
Change(c, d, s, fs) ==
  /\ \A t \in Surfaces \ {s} : d.surface[t] = c.surface[t]
  /\ OnlyOf(c.surface[s], d.surface[s], fs)

\* The type of each field, by its name.
LEMMA TypeOf ==
  /\ Types.alive = BOOLEAN /\ Types.sub = BOOLEAN
  /\ Types.parent = Surfaces \cup {None} /\ Types.synchronized = BOOLEAN
  /\ Types.has_cached_data = BOOLEAN
  /\ Types.pending = StateType /\ Types.cached = StateType
  /\ Types.ref = [Holders -> Owners] /\ Types.committed = Nat
  /\ Types.applied = Nat /\ Types.frame_callback_list = SUBSET Nat
  /\ Types.done = SUBSET Nat /\ Types.dropped = SUBSET Nat
  /\ Types.damage_lost = BOOLEAN
BY DEF Types

\* Each field of a surface has its type.
LEMMA TypesAre ==
  ASSUME NEW x, Shaped(x)
  PROVE  /\ x.alive \in BOOLEAN /\ x.sub \in BOOLEAN
         /\ x.parent \in Surfaces \cup {None} /\ x.synchronized \in BOOLEAN
         /\ x.has_cached_data \in BOOLEAN
         /\ x.pending \in StateType /\ x.cached \in StateType
         /\ x.ref \in [Holders -> Owners] /\ x.committed \in Nat
         /\ x.applied \in Nat /\ x.frame_callback_list \in SUBSET Nat
         /\ x.done \in SUBSET Nat /\ x.dropped \in SUBSET Nat
         /\ x.damage_lost \in BOOLEAN
<1>1. /\ x.alive \in Types.alive /\ x.sub \in Types.sub
      /\ x.parent \in Types.parent /\ x.synchronized \in Types.synchronized
      /\ x.has_cached_data \in Types.has_cached_data
      /\ x.pending \in Types.pending /\ x.cached \in Types.cached
      /\ x.ref \in Types.ref /\ x.committed \in Types.committed
  BY DEF Shaped, Fields
<1>2. /\ x.applied \in Types.applied
      /\ x.frame_callback_list \in Types.frame_callback_list
      /\ x.done \in Types.done /\ x.dropped \in Types.dropped
      /\ x.damage_lost \in Types.damage_lost
  BY DEF Shaped, Fields
<1> QED BY <1>1, <1>2, TypeOf

\* A step that changes only the fields fs keeps the shape if those keep their
\* types.
LEMMA ShapedAfter ==
  ASSUME NEW x, Shaped(x), NEW y, Rec(y), NEW fs, OnlyOf(x, y, fs),
         \A f \in fs \cap Fields : y[f] \in Types[f]
  PROVE  Shaped(y)
BY DEF Shaped, OnlyOf

\* What two steps change.
LEMMA OnlyTrans ==
  ASSUME NEW x, NEW y, NEW z, NEW fs, NEW gs, OnlyOf(x, y, fs), OnlyOf(y, z, gs)
  PROVE  OnlyOf(x, z, fs \cup gs)
BY DEF OnlyOf

\* What two steps change.
LEMMA ChangeTrans ==
  ASSUME NEW c, NEW d, NEW e, NEW s, NEW fs, NEW gs,
         Change(c, d, s, fs), Change(d, e, s, gs)
  PROVE  Change(c, e, s, fs \cup gs)
BY DEF Change, OnlyOf

\* A surface put in place of another.
LEMMA Put ==
  ASSUME NEW c, Placed(c), NEW s \in Surfaces, NEW x, Shaped(x), NEW d,
         d.surface = [c.surface EXCEPT ![s] = x], d.buffer = c.buffer,
         d = [surface |-> d.surface, buffer |-> d.buffer],
         NEW fs, OnlyOf(c.surface[s], x, fs)
  PROVE  Placed(d) /\ d.surface[s] = x /\ Change(c, d, s, fs)
<1>1. /\ c.surface = [t \in Surfaces |-> c.surface[t]]
      /\ \A t \in Surfaces : Shaped(c.surface[t])
      /\ c.buffer \in [Buffers -> BufferType]
  BY DEF Placed
<1>2. /\ d.surface[s] = x /\ \A t \in Surfaces \ {s} : d.surface[t] = c.surface[t]
      /\ d.surface = [t \in Surfaces |-> d.surface[t]]
  BY <1>1
<1>3. \A t \in Surfaces : Shaped(d.surface[t]) BY <1>1, <1>2
<1>4. Placed(d) BY <1>1, <1>2, <1>3 DEF Placed
<1> QED BY <1>2, <1>4 DEF Change

\* With puts a record of a surface in its place.
LEMMA WithFacts ==
  ASSUME NEW c, Placed(c), NEW s \in Surfaces, NEW x, Rec(x),
         NEW fs, OnlyOf(c.surface[s], x, fs), Typed(x, fs)
  PROVE  /\ Placed(With(c, s, x)) /\ With(c, s, x).surface[s] = x
         /\ Change(c, With(c, s, x), s, fs) /\ With(c, s, x).buffer = c.buffer
<1> DEFINE f == c.surface
           g == c.buffer
           k == [f EXCEPT ![s] = x]
           d == With(c, s, x)
<1>1. c = [surface |-> f, buffer |-> g] BY DEF Placed
<1>2. d = [c EXCEPT !.surface = k] BY DEF With
<1>3. d.surface = k /\ d.buffer = g /\ d = [surface |-> k, buffer |-> g]
  <2> HIDE DEF f, g, k, d
  <2> QED BY <1>1, <1>2
<1>4. /\ d.surface = [c.surface EXCEPT ![s] = x] /\ d.buffer = c.buffer
      /\ d = [surface |-> d.surface, buffer |-> d.buffer]
  BY <1>3
<1>5. Shaped(x) BY ShapedAfter DEF Placed, Typed
<1> HIDE DEF d
<1> HIDE DEF f, g, k
<1>6. /\ c.surface = [t \in Surfaces |-> c.surface[t]]
      /\ \A t \in Surfaces : Shaped(c.surface[t])
      /\ c.buffer \in [Buffers -> BufferType]
  BY DEF Placed
<1>7. /\ d.surface[s] = x /\ \A t \in Surfaces \ {s} : d.surface[t] = c.surface[t]
      /\ d.surface = [t \in Surfaces |-> d.surface[t]]
  BY <1>4, <1>6
<1>8. \A t \in Surfaces : Shaped(d.surface[t]) BY <1>5, <1>6, <1>7
<1>9. Placed(d) BY <1>4, <1>6, <1>7, <1>8 DEF Placed
<1>10. Change(c, d, s, fs) BY <1>7 DEF Change
<1> QED BY <1>4, <1>7, <1>9, <1>10 DEF d
-----------------------------------------------------------------------------
(* References to buffers.                                                  *)

RefsOf(c, b) == {r \in Surfaces \X Holders : c.surface[r[1]].ref[r[2]] = b}

\* busy_count counts the references.
Counted(c) == \A b \in Buffers : c.buffer[b].busy_count = Cardinality(RefsOf(c, b))

\* The client owns a buffer exactly when there is none, but for the buffer p,
\* which it has just committed.
Owned(c, p) ==
  \A b \in Buffers : c.buffer[b].free <=> (c.buffer[b].busy_count = 0 /\ b # p)

\* A buffer has a number of references.
LEMMA RefsFinite ==
  ASSUME NEW c, NEW b
  PROVE  IsFiniteSet(RefsOf(c, b)) /\ Cardinality(RefsOf(c, b)) \in Nat
<1>1. IsFiniteSet(Holders)
  <2>1. Holders = ({} \cup {"surface"} \cup {"renderer"}) \cup {"cached"}
    BY DEF Holders
  <2>2. IsFiniteSet({} \cup {"surface"}) BY FS_EmptySet, FS_AddElement
  <2>3. IsFiniteSet({} \cup {"surface"} \cup {"renderer"})
    BY <2>2, FS_AddElement
  <2> QED BY <2>1, <2>3, FS_AddElement
<1>2. IsFiniteSet(Surfaces \X Holders)
  BY <1>1, SurfaceTreeAssumption, FS_Product
<1>3. IsFiniteSet(RefsOf(c, b)) BY <1>2, FS_Subset DEF RefsOf
<1> QED BY <1>3, FS_CardinalityType

\* A buffer that is referred to is busy.
LEMMA ReferredBusy ==
  ASSUME NEW c, Counted(c), NEW s \in Surfaces, NEW h \in Holders, NEW b \in Buffers,
         c.surface[s].ref[h] = b
  PROVE  c.buffer[b].busy_count \in Nat \ {0}
<1>1. <<s, h>> \in RefsOf(c, b) BY DEF RefsOf
<1>2. Cardinality(RefsOf(c, b)) # 0 BY <1>1, RefsFinite, FS_EmptySet
<1> QED BY <1>2, RefsFinite DEF Counted

\* The references to x after s's reference h became b.
LEMMA RefsAfter ==
  ASSUME NEW c, Placed(c), NEW s \in Surfaces, NEW h \in Holders, NEW b \in Owners,
         NEW d, \A t \in Surfaces \ {s} : d.surface[t].ref = c.surface[t].ref,
         d.surface[s].ref = [c.surface[s].ref EXCEPT ![h] = b],
         NEW x \in Buffers
  PROVE  RefsOf(d, x) = IF x = b THEN RefsOf(c, x) \cup {<<s, h>>}
                        ELSE RefsOf(c, x) \ {<<s, h>>}
<1> DEFINE o == c.surface[s].ref
           n == d.surface[s].ref
<1>1. o \in [Holders -> Owners] BY TypesAre DEF Placed
<1>2. n[h] = b /\ \A k \in Holders \ {h} : n[k] = o[k]
  <2> HIDE DEF o
  <2> QED BY <1>1 DEF o
<1>3. ASSUME NEW t \in Surfaces, NEW k \in Holders
      PROVE  /\ t = s /\ k = h => d.surface[t].ref[k] = b
             /\ ~(t = s /\ k = h) => d.surface[t].ref[k] = c.surface[t].ref[k]
  <2>1. CASE t = s BY <2>1, <1>2
  <2>2. CASE t # s BY <2>2
  <2> QED BY <2>1, <2>2
<1>4. ASSUME NEW r \in Surfaces \X Holders
      PROVE  r \in RefsOf(d, x) <=> (IF x = b THEN r \in RefsOf(c, x) \cup {<<s, h>>}
                                     ELSE r \in RefsOf(c, x) \ {<<s, h>>})
  <2>1. r[1] \in Surfaces /\ r[2] \in Holders /\ r = <<r[1], r[2]>> OBVIOUS
  <2>2. r = <<s, h>> <=> r[1] = s /\ r[2] = h BY <2>1
  <2> QED BY <1>3, <2>1, <2>2 DEF RefsOf
<1>5. /\ RefsOf(d, x) \subseteq Surfaces \X Holders
      /\ RefsOf(c, x) \subseteq Surfaces \X Holders
  BY DEF RefsOf
<1>6. <<s, h>> \in Surfaces \X Holders OBVIOUS
<1> QED BY <1>4, <1>5, <1>6

\* weston_buffer_reference to a buffer the client does not own.
LEMMA ReferenceFacts ==
  ASSUME NEW c, Placed(c), Counted(c), NEW p, Owned(c, p),
         NEW s \in Surfaces, NEW h \in Holders, NEW b \in Owners,
         p \in {None, b}, b # None => ~c.buffer[b].free
  PROVE  /\ Placed(Reference(c, s, h, b)) /\ Counted(Reference(c, s, h, b))
         /\ Owned(Reference(c, s, h, b), None)
         /\ b # None => ~Reference(c, s, h, b).buffer[b].free
         /\ Change(c, Reference(c, s, h, b), s, {"ref"})
         /\ Reference(c, s, h, b).surface[s].ref = [c.surface[s].ref EXCEPT ![h] = b]
<1> DEFINE d == Reference(c, s, h, b)
           old == c.surface[s].ref[h]
           x == [c.surface[s] EXCEPT !.ref = [c.surface[s].ref EXCEPT ![h] = b]]
           left == IF old \notin {None, b}
                   THEN [c.buffer EXCEPT ![old] =
                          [busy_count |-> c.buffer[old].busy_count - 1,
                           free |-> c.buffer[old].free \/ c.buffer[old].busy_count = 1]]
                   ELSE c.buffer
           both == IF b \notin {None, old}
                   THEN [left EXCEPT ![b] = [left[b] EXCEPT !.busy_count = left[b].busy_count + 1]]
                   ELSE left
<1>1. /\ Shaped(c.surface[s]) /\ c.surface[s].ref \in [Holders -> Owners]
      /\ c.buffer \in [Buffers -> BufferType] /\ old \in Owners
  BY TypesAre DEF Placed
<1>2. d.surface = [c.surface EXCEPT ![s] = x] /\ d.buffer = both
      /\ d = [surface |-> d.surface, buffer |-> d.buffer]
  BY DEF Reference
<1>3. /\ Rec(x) /\ OnlyOf(c.surface[s], x, {"ref"})
      /\ x.ref = [c.surface[s].ref EXCEPT ![h] = b]
  <2> DEFINE r == [c.surface[s].ref EXCEPT ![h] = b]
  <2> HIDE DEF r
  <2> SUFFICES /\ Rec([c.surface[s] EXCEPT !.ref = r])
               /\ OnlyOf(c.surface[s], [c.surface[s] EXCEPT !.ref = r], {"ref"})
               /\ [c.surface[s] EXCEPT !.ref = r].ref = r
    BY DEF r
  <2> QED BY <1>1 DEF Shaped, Rec, Fields, OnlyOf
<1> HIDE DEF x
<1>4. Shaped(x)
  <2>1. x.ref \in Types.ref BY <1>1, <1>3, TypeOf
  <2> QED BY <1>1, <1>3, <2>1, ShapedAfter
<1> HIDE DEF d, old, both
<1> DEFINE e == [surface |-> d.surface, buffer |-> c.buffer]
<1>5. Placed(e) /\ e.surface[s] = x /\ Change(c, e, s, {"ref"})
  <2>1. /\ e.surface = d.surface /\ e.buffer = c.buffer
        /\ e = [surface |-> e.surface, buffer |-> e.buffer]
    OBVIOUS
  <2> HIDE DEF e
  <2> QED BY <2>1, <1>2, <1>3, <1>4, Put
<1>6. d.surface[s] = x /\ Change(c, d, s, {"ref"}) BY <1>5 DEF Change
<1>7. /\ \A y \in Surfaces : Shaped(d.surface[y])
      /\ d.surface = [t \in Surfaces |-> d.surface[t]]
  BY <1>5 DEF Placed
<1>8. ASSUME NEW y \in Buffers
      PROVE  RefsOf(d, y) = IF y = b THEN RefsOf(c, y) \cup {<<s, h>>}
                            ELSE RefsOf(c, y) \ {<<s, h>>}
  <2>1. \A t \in Surfaces \ {s} : d.surface[t].ref = c.surface[t].ref
    BY <1>6 DEF Change
  <2> QED BY <2>1, <1>3, <1>6, RefsAfter
<1>9. ASSUME NEW y \in Buffers
      PROVE  <<s, h>> \in RefsOf(c, y) <=> y = old
  <2>1. <<s, h>> \in Surfaces \X Holders /\ <<s, h>>[1] = s /\ <<s, h>>[2] = h OBVIOUS
  <2> DEFINE r == <<s, h>>
  <2> HIDE DEF r
  <2>2. r \in Surfaces \X Holders /\ r[1] = s /\ r[2] = h BY <2>1 DEF r
  <2>3. r \in RefsOf(c, y) <=> c.surface[r[1]].ref[r[2]] = y BY <2>2 DEF RefsOf
  <2>4. r \in RefsOf(c, y) <=> y = old BY <2>2, <2>3 DEF old
  <2> QED BY <2>4 DEF r
<1>10. old # None => old \in Buffers /\ c.buffer[old].busy_count \in Nat \ {0}
  <2>1. old # None => old \in Buffers BY <1>1 DEF Owners
  <2> QED BY <2>1, ReferredBusy DEF old
<1>11. ASSUME NEW y \in Buffers
       PROVE  /\ both[y] \in BufferType
              /\ both[y].busy_count =
                   (IF y = b /\ b # old THEN c.buffer[y].busy_count + 1
                    ELSE IF y = old /\ b # old THEN c.buffer[y].busy_count - 1
                    ELSE c.buffer[y].busy_count)
              /\ both[y].free =
                   IF y = old /\ b # old
                   THEN c.buffer[y].free \/ c.buffer[y].busy_count = 1
                   ELSE c.buffer[y].free
  <2>0. /\ c.buffer[y] \in BufferType /\ c.buffer[y].busy_count \in Nat
        /\ c.buffer[y].free \in BOOLEAN
        /\ y # None
    BY <1>1, SurfaceTreeAssumption DEF BufferType
  <2>1. CASE y = b /\ b # old
    <3>1. left[y] = c.buffer[y] BY <1>1, <2>1
    <3>2. both[y] = [c.buffer[y] EXCEPT !.busy_count = c.buffer[y].busy_count + 1]
      BY <1>1, <2>0, <2>1, <3>1 DEF both
    <3> QED BY <2>0, <2>1, <3>2 DEF BufferType
  <2>2. CASE y = old /\ b # old
    <3>1. both[y] = [busy_count |-> c.buffer[y].busy_count - 1,
                     free |-> c.buffer[y].free \/ c.buffer[y].busy_count = 1]
      BY <1>1, <2>0, <2>2 DEF both
    <3> QED BY <2>0, <2>2, <3>1, <1>10 DEF BufferType
  <2>3. CASE y \notin {b, old} \/ b = old
    <3>1. both[y] = c.buffer[y] BY <1>1, <2>0, <2>3 DEF both
    <3> QED BY <2>0, <2>3, <3>1
  <2> QED BY <2>1, <2>2, <2>3
<1>12. both \in [Buffers -> BufferType]
  <2>1. both = [y \in Buffers |-> both[y]] BY <1>1 DEF both
  <2> QED BY <2>1, <1>11
<1> HIDE DEF left
<1>13. Placed(d) BY <1>2, <1>7, <1>12 DEF Placed
<1>14. ASSUME NEW y \in Buffers
       PROVE  d.buffer[y].busy_count = Cardinality(RefsOf(d, y))
  <2> DEFINE R == RefsOf(c, y)
  <2>1. IsFiniteSet(R) /\ c.buffer[y].busy_count = Cardinality(R) /\ Cardinality(R) \in Nat
    BY RefsFinite DEF Counted
  <2>2. <<s, h>> \in R <=> y = old BY <1>9
  <2>3. CASE y = b
    <3>1. RefsOf(d, y) = R \cup {<<s, h>>} BY <1>8, <2>3
    <3> HIDE DEF R
    <3>2. Cardinality(R \cup {<<s, h>>})
            = IF <<s, h>> \in R THEN Cardinality(R) ELSE Cardinality(R) + 1
      BY <2>1, FS_AddElement
    <3>3. d.buffer[y].busy_count = IF b # old THEN Cardinality(R) + 1 ELSE Cardinality(R)
      BY <1>2, <1>11, <2>1, <2>3
    <3> QED BY <2>2, <2>3, <3>1, <3>2, <3>3
  <2>4. CASE y # b
    <3>1. RefsOf(d, y) = R \ {<<s, h>>} BY <1>8, <2>4
    <3> HIDE DEF R
    <3>2. Cardinality(R \ {<<s, h>>})
            = IF <<s, h>> \in R THEN Cardinality(R) - 1 ELSE Cardinality(R)
      BY <2>1, FS_RemoveElement
    <3>3. d.buffer[y].busy_count = IF y = old THEN Cardinality(R) - 1 ELSE Cardinality(R)
      BY <1>2, <1>11, <2>1, <2>4
    <3> QED BY <2>2, <2>4, <3>1, <3>2, <3>3
  <2> QED BY <2>3, <2>4
<1>15. Counted(d) BY <1>14 DEF Counted
<1>16. ASSUME NEW y \in Buffers
       PROVE  d.buffer[y].free <=> (d.buffer[y].busy_count = 0 /\ y # None)
  <2>0. /\ c.buffer[y].busy_count \in Nat /\ y # None
        /\ c.buffer[y].free <=> (c.buffer[y].busy_count = 0 /\ y # p)
    <3>1. c.buffer[y] \in BufferType BY <1>1
    <3>2. y # None BY SurfaceTreeAssumption
    <3>3. c.buffer[y].free <=> (c.buffer[y].busy_count = 0 /\ y # p) BY DEF Owned
    <3>4. c.buffer[y].busy_count \in Nat BY <3>1 DEF BufferType
    <3> QED BY <3>2, <3>3, <3>4, Zenon
  <2>1. CASE y = b /\ b # old BY <1>2, <1>11, <2>0, <2>1
  <2>2. CASE y = old /\ b # old
    <3>1. y # p /\ c.buffer[y].busy_count # 0 BY <2>0, <2>2, <1>10
    <3>2. ~c.buffer[y].free BY <2>0, <3>1
    <3>3. d.buffer[y].free <=> c.buffer[y].busy_count = 1
      BY <1>2, <1>11, <2>2, <3>2
    <3>4. d.buffer[y].busy_count = c.buffer[y].busy_count - 1
      BY <1>2, <1>11, <2>2
    <3> QED BY <2>0, <3>3, <3>4
  <2>3. CASE y \notin {b, old} \/ b = old
    BY <1>2, <1>10, <1>11, <2>0, <2>3
  <2> QED BY <2>1, <2>2, <2>3
<1>17. Owned(d, None) BY <1>16 DEF Owned
<1>18. b # None => ~d.buffer[b].free
  <2>1. b # None => b \in Buffers BY DEF Owners
  <2> QED BY <1>2, <1>11, <2>1
<1>19. d.surface[s].ref = [c.surface[s].ref EXCEPT ![h] = b] BY <1>3, <1>6
<1> QED BY <1>6, <1>13, <1>15, <1>17, <1>18, <1>19 DEF d

\* A change that touches no reference and no buffer
LEMMA RefsKept ==
  ASSUME NEW c, NEW d, d.buffer = c.buffer,
         \A t \in Surfaces : d.surface[t].ref = c.surface[t].ref
  PROVE  /\ Counted(c) => Counted(d)
         /\ \A p : Owned(c, p) => Owned(d, p)
<1>1. \A b : RefsOf(d, b) = RefsOf(c, b)
  <2> SUFFICES ASSUME NEW b, NEW r \in Surfaces \X Holders
               PROVE  c.surface[r[1]].ref[r[2]] = b <=> d.surface[r[1]].ref[r[2]] = b
    BY DEF RefsOf
  <2>1. r[1] \in Surfaces OBVIOUS
  <2> QED BY <2>1
<1> QED BY <1>1 DEF Counted, Owned

\* The same, when only some fields of s changed.
LEMMA RefsKeptBy ==
  ASSUME NEW c, NEW d, d.buffer = c.buffer, NEW s \in Surfaces, NEW fs,
         Change(c, d, s, fs), "ref" \notin fs
  PROVE  /\ Counted(c) => Counted(d)
         /\ \A p : Owned(c, p) => Owned(d, p)
<1>1. d.surface[s].ref = c.surface[s].ref BY DEF Change, OnlyOf, Fields
<1>2. \A t \in Surfaces : d.surface[t].ref = c.surface[t].ref
  BY <1>1 DEF Change
<1> QED BY <1>2, RefsKept

\* weston_surface_attach: two references to the buffer
LEMMA AttachFacts ==
  ASSUME NEW c, Placed(c), Counted(c), NEW p, Owned(c, p),
         NEW s \in Surfaces, NEW b \in Owners,
         p \in {None, b}, b # None => ~c.buffer[b].free
  PROVE  /\ Placed(Attach(c, s, b)) /\ Counted(Attach(c, s, b))
         /\ Owned(Attach(c, s, b), None)
         /\ b # None => ~Attach(c, s, b).buffer[b].free
         /\ Change(c, Attach(c, s, b), s, {"ref"})
         /\ Attach(c, s, b).surface[s].ref =
              [c.surface[s].ref EXCEPT !["surface"] = b, !["renderer"] = b]
<1> DEFINE d == Reference(c, s, "surface", b)
           e == Reference(d, s, "renderer", b)
<1>0. "surface" \in Holders /\ "renderer" \in Holders BY DEF Holders
<1>1. /\ Placed(d) /\ Counted(d) /\ Owned(d, None)
      /\ b # None => ~d.buffer[b].free
      /\ Change(c, d, s, {"ref"})
      /\ d.surface[s].ref = [c.surface[s].ref EXCEPT !["surface"] = b]
  BY <1>0, ReferenceFacts
<1> HIDE DEF d
<1>2. /\ Placed(e) /\ Counted(e) /\ Owned(e, None)
      /\ b # None => ~e.buffer[b].free
      /\ Change(d, e, s, {"ref"})
      /\ e.surface[s].ref = [d.surface[s].ref EXCEPT !["renderer"] = b]
  BY <1>0, <1>1, ReferenceFacts
<1> HIDE DEF e
<1>3. Change(c, e, s, {"ref"})
  <2>1. Change(c, e, s, {"ref"} \cup {"ref"}) BY <1>1, <1>2, ChangeTrans
  <2>2. {"ref"} \cup {"ref"} = {"ref"} OBVIOUS
  <2> QED BY <2>1, <2>2
<1>4. e.surface[s].ref = [c.surface[s].ref EXCEPT !["surface"] = b, !["renderer"] = b]
  BY <1>1, <1>2
<1>5. Attach(c, s, b) = e BY DEF Attach, d, e
<1> QED BY <1>2, <1>3, <1>4, <1>5

-----------------------------------------------------------------------------
(* The inductive invariant: conjuncts of a record x of a surface, when the *)
(* callbacks of its first n commits have been taken in.                    *)

\* A cached reference is to the cached buffer, and there is one only while
\* there is cached data.
CacheHeld(x) ==
  /\ x.ref["cached"] = x.cached.buffer
  /\ x.ref["cached"] # None => x.has_cached_data

\* The pending state has no callback yet, and a buffer only if one is attached.
NotRequested(x) ==
  /\ x.pending.frame_callback_list = {}
  /\ x.pending.buffer # None => x.pending.newly_attached

\* Each callback is in one place.
Answered(x, n) ==
  /\ x.frame_callback_list \cap x.cached.frame_callback_list = {}
  /\ x.frame_callback_list \cap x.done = {}
  /\ x.frame_callback_list \cap x.dropped = {}
  /\ x.cached.frame_callback_list \cap x.done = {}
  /\ x.cached.frame_callback_list \cap x.dropped = {}
  /\ x.done \cap x.dropped = {}
  /\ x.frame_callback_list \cup x.cached.frame_callback_list \cup x.done \cup x.dropped
       = 1 .. n
  /\ \A m \in x.frame_callback_list \cup x.done : m <= x.applied
  /\ \A m \in x.cached.frame_callback_list : m > x.applied
  /\ x.has_cached_data <=> x.cached.frame_callback_list # {}
  /\ x.applied <= n

\* What is no sub-surface has no parent, no mode and no cache.
Alone(x) == ~x.sub => x.parent = None /\ ~x.synchronized /\ ~x.has_cached_data

Fine(x) == CacheHeld(x) /\ NotRequested(x) /\ Answered(x, x.committed) /\ Alone(x)

\* Between two handlers
Sound(c) ==
  /\ Placed(c) /\ Counted(c) /\ Owned(c, None)
  /\ \A s \in Surfaces : Fine(c.surface[s])

\* While the commit of s is under way
Requesting(c, s) ==
  /\ Placed(c) /\ Counted(c) /\ Owned(c, c.surface[s].pending.buffer)
  /\ \A t \in Surfaces \ {s} : Fine(c.surface[t])
  /\ LET x == c.surface[s]
     IN /\ CacheHeld(x) /\ Alone(x)
        /\ x.pending.buffer # None =>
             x.pending.newly_attached /\ ~c.buffer[x.pending.buffer].free
        /\ x.committed \in Nat \ {0} /\ Answered(x, x.committed - 1)
        /\ x.pending.frame_callback_list = {x.committed}

\* The fields of a state
LEMMA StateFields ==
  /\ \A p \in StateType :
       /\ p.newly_attached \in BOOLEAN /\ p.buffer \in Owners
       /\ p.frame_callback_list \in SUBSET Nat
  /\ InitialState \in StateType
  /\ ~InitialState.newly_attached /\ InitialState.buffer = None
  /\ InitialState.frame_callback_list = {}
BY DEF StateType, InitialState, Owners, Commits

\* weston_surface_commit_state, with a state whose buffer the client gave up
LEMMA CommitStateFacts ==
  ASSUME NEW c, Placed(c), Counted(c), NEW p, Owned(c, p),
         NEW s \in Surfaces, NEW state \in StateType,
         p \in {None, state.buffer}, p # None => state.newly_attached,
         state.newly_attached /\ state.buffer # None => ~c.buffer[state.buffer].free
  PROVE  /\ Placed(CommitState(c, s, state)) /\ Counted(CommitState(c, s, state))
         /\ Owned(CommitState(c, s, state), None)
         /\ Change(c, CommitState(c, s, state), s,
                   {"ref", "applied", "frame_callback_list"})
         /\ CommitState(c, s, state).surface[s].ref["cached"]
              = c.surface[s].ref["cached"]
         /\ CommitState(c, s, state).surface[s].applied = c.surface[s].committed
         /\ CommitState(c, s, state).surface[s].frame_callback_list
              = c.surface[s].frame_callback_list \cup state.frame_callback_list
<1> DEFINE a == IF state.newly_attached THEN Attach(c, s, state.buffer) ELSE c
           n == c.surface[s].committed
           l == a.surface[s].frame_callback_list \cup state.frame_callback_list
           y == [a.surface[s] EXCEPT !.applied = n, !.frame_callback_list = l]
           d == CommitState(c, s, state)
<1>1. /\ state.newly_attached \in BOOLEAN /\ state.buffer \in Owners
      /\ state.frame_callback_list \in SUBSET Nat
  BY StateFields
<1>2. /\ Placed(a) /\ Counted(a) /\ Owned(a, None) /\ Change(c, a, s, {"ref"})
      /\ a.surface[s].ref["cached"] = c.surface[s].ref["cached"]
  <2>1. CASE state.newly_attached
    <3> DEFINE e == Attach(c, s, state.buffer)
    <3>1. /\ Placed(e) /\ Counted(e) /\ Owned(e, None) /\ Change(c, e, s, {"ref"})
          /\ e.surface[s].ref = [c.surface[s].ref EXCEPT !["surface"] = state.buffer,
                                                         !["renderer"] = state.buffer]
      BY <1>1, <2>1, AttachFacts
    <3>2. a = e BY <2>1
    <3>3. c.surface[s].ref \in [Holders -> Owners] /\ "cached" \in Holders
      BY TypesAre DEF Placed, Holders
    <3> HIDE DEF a, e
    <3> QED BY <3>1, <3>2, <3>3
  <2>2. CASE ~state.newly_attached
    <3>1. a = c BY <2>2
    <3>2. p = None BY <2>2
    <3> QED BY <3>1, <3>2 DEF Change, OnlyOf
  <2> QED BY <2>1, <2>2
<1>3. d = With(a, s, y) BY DEF CommitState
<1> HIDE DEF a, d
<1>4. Shaped(a.surface[s]) /\ Shaped(c.surface[s]) BY <1>2 DEF Placed
<1>6. n \in Nat /\ l \in SUBSET Nat BY <1>1, <1>4, TypesAre
<1>7. a.surface[s].frame_callback_list = c.surface[s].frame_callback_list
  BY <1>2 DEF Change, OnlyOf, Fields
<1>8. /\ Rec(y) /\ OnlyOf(a.surface[s], y, {"applied", "frame_callback_list"})
      /\ y.applied = n /\ y.frame_callback_list = l
  <2> HIDE DEF n, l
  <2> QED BY <1>4 DEF Shaped, Rec, Fields, OnlyOf
<1> HIDE DEF y
<1>9. y.applied \in Types.applied /\ y.frame_callback_list \in Types.frame_callback_list
  BY <1>6, <1>8, TypeOf
<1>10. /\ Placed(d) /\ d.surface[s] = y /\ d.buffer = a.buffer
       /\ Change(a, d, s, {"applied", "frame_callback_list"})
  <2> DEFINE fs == {"applied", "frame_callback_list"}
  <2>1. Typed(y, fs) BY <1>9 DEF Typed
  <2>2. Rec(y) /\ OnlyOf(a.surface[s], y, fs) BY <1>8
  <2> HIDE DEF fs
  <2>3. /\ Placed(With(a, s, y)) /\ With(a, s, y).surface[s] = y
        /\ Change(a, With(a, s, y), s, fs) /\ With(a, s, y).buffer = a.buffer
    BY <1>2, <2>1, <2>2, WithFacts
  <2> QED BY <1>3, <2>3 DEF fs
<1>11. Counted(d) /\ Owned(d, None) BY <1>2, <1>10, RefsKeptBy
<1>12. Change(c, d, s, {"ref", "applied", "frame_callback_list"})
  BY <1>2, <1>10 DEF Change, OnlyOf
<1>13. d.surface[s].ref = a.surface[s].ref BY <1>10 DEF Change, OnlyOf, Fields
<1> QED BY <1>2, <1>7, <1>8, <1>10, <1>11, <1>12, <1>13 DEF d

\* apply_damage_buffer
LEMMA ApplyDamageFacts ==
  ASSUME NEW c, Placed(c), NEW s \in Surfaces, NEW brings \in BOOLEAN
  PROVE  /\ Placed(ApplyDamageBuffer(c, s, brings))
         /\ Change(c, ApplyDamageBuffer(c, s, brings), s, {"damage_lost"})
         /\ ApplyDamageBuffer(c, s, brings).buffer = c.buffer
<1> DEFINE ref == c.surface[s].ref
           v == c.surface[s].damage_lost
                  \/ (ref["surface"] = None /\ ref["renderer"] # None /\ brings)
           y == [c.surface[s] EXCEPT !.damage_lost = v]
           fs == {"damage_lost"}
<1>1. ApplyDamageBuffer(c, s, brings) = With(c, s, y) BY DEF ApplyDamageBuffer
<1>2. v \in BOOLEAN /\ Rec(c.surface[s])
  <2>1. c.surface[s].damage_lost \in BOOLEAN /\ Rec(c.surface[s])
    BY TypesAre DEF Placed, Shaped
  <2> QED BY <2>1
<1> HIDE DEF v
<1>3. Rec(y) /\ OnlyOf(c.surface[s], y, fs) /\ y.damage_lost = v
  BY <1>2 DEF Rec, Fields, OnlyOf
<1> HIDE DEF y
<1>4. y.damage_lost \in Types.damage_lost BY <1>2, <1>3, TypeOf
<1>5. Typed(y, fs) BY <1>4 DEF Typed
<1> HIDE DEF fs
<1>6. /\ Placed(With(c, s, y)) /\ Change(c, With(c, s, y), s, fs)
      /\ With(c, s, y).buffer = c.buffer
  BY <1>3, <1>5, WithFacts
<1> QED BY <1>1, <1>6 DEF fs

\* The client's part of wl_surface.commit
LEMMA RequestedFacts ==
  ASSUME NEW c, Sound(c), NEW s \in Surfaces
  PROVE  /\ Requesting(Requested(c, s), s)
         /\ Change(c, Requested(c, s), s, {"committed", "pending"})
         /\ Requested(c, s).surface[s].committed = c.surface[s].committed + 1
<1> DEFINE n == c.surface[s].committed + 1
           p == c.surface[s].pending
           q == [p EXCEPT !.frame_callback_list = {n}]
           y == [c.surface[s] EXCEPT !.committed = n, !.pending = q]
           fs == {"committed", "pending"}
           d == With(c, s, y)
           g == [b \in Buffers |-> [c.buffer[b] EXCEPT !.free = @ /\ b # p.buffer]]
           e == [d EXCEPT !.buffer = g]
<1>0. /\ Placed(c) /\ Counted(c) /\ Owned(c, None)
      /\ \A t \in Surfaces : Fine(c.surface[t])
  BY DEF Sound
<1>1. Requested(c, s) = e BY DEF Requested
<1>2. /\ Rec(c.surface[s]) /\ p \in StateType
      /\ n \in Nat \ {0} /\ n - 1 = c.surface[s].committed
  <2>1. Shaped(c.surface[s]) BY <1>0 DEF Placed
  <2>2. c.surface[s].committed \in Nat /\ p \in StateType BY <2>1, TypesAre
  <2> QED BY <2>1, <2>2 DEF Shaped
<1> HIDE DEF n, p
<1>3. /\ q \in StateType /\ q.frame_callback_list = {n} /\ q.buffer = p.buffer
      /\ q.newly_attached = p.newly_attached
  <2>1. {n} \in SUBSET Commits BY <1>2 DEF Commits
  <2> QED BY <1>2, <2>1 DEF StateType
<1> HIDE DEF q
<1>4. Rec(y) /\ OnlyOf(c.surface[s], y, fs) /\ y.committed = n /\ y.pending = q
  BY <1>2 DEF Rec, Fields, OnlyOf
<1> HIDE DEF y
<1>5. Typed(y, fs)
  <2>1. y.committed \in Types.committed /\ y.pending \in Types.pending
    BY <1>2, <1>3, <1>4, TypeOf
  <2> QED BY <2>1 DEF Typed
<1> HIDE DEF fs
<1>6. /\ Placed(d) /\ d.surface[s] = y /\ Change(c, d, s, fs) /\ d.buffer = c.buffer
  BY <1>0, <1>4, <1>5, WithFacts
<1> HIDE DEF d
<1>7. e.surface = d.surface /\ e.buffer = g /\ e = [surface |-> e.surface, buffer |-> e.buffer]
  <2>1. d = [surface |-> d.surface, buffer |-> d.buffer] BY <1>6 DEF Placed
  <2> HIDE DEF g
  <2> QED BY <2>1
<1> HIDE DEF e
<1>8. ASSUME NEW b \in Buffers
      PROVE  /\ g[b] \in BufferType /\ g[b].busy_count = c.buffer[b].busy_count
             /\ g[b].free <=> c.buffer[b].free /\ b # p.buffer
  <2>1. c.buffer[b] \in BufferType BY <1>0 DEF Placed
  <2> DEFINE v == c.buffer[b].free /\ b # p.buffer
  <2>2. v \in BOOLEAN BY <2>1 DEF BufferType
  <2>3. g[b] = [c.buffer[b] EXCEPT !.free = v] OBVIOUS
  <2> HIDE DEF v
  <2>4. g[b] \in BufferType /\ g[b].busy_count = c.buffer[b].busy_count /\ g[b].free = v
    BY <2>1, <2>2, <2>3 DEF BufferType
  <2> QED BY <2>4 DEF v
<1>9. g \in [Buffers -> BufferType] BY <1>8
<1> HIDE DEF g
<1>10. Placed(e)
  <2>1. /\ d.surface = [t \in Surfaces |-> d.surface[t]]
        /\ \A t \in Surfaces : Shaped(d.surface[t])
    BY <1>6 DEF Placed
  <2> QED BY <1>7, <1>9, <2>1 DEF Placed
<1>11. Change(c, e, s, fs) /\ e.surface[s] = y BY <1>6, <1>7 DEF Change
<1>12. \A t \in Surfaces : e.surface[t].ref = c.surface[t].ref
  <2>1. e.surface[s].ref = c.surface[s].ref BY <1>11 DEF Change, OnlyOf, Fields, fs
  <2> QED BY <2>1, <1>11 DEF Change
<1>13. \A b : RefsOf(e, b) = RefsOf(c, b)
  <2> SUFFICES ASSUME NEW b, NEW r \in Surfaces \X Holders
               PROVE  c.surface[r[1]].ref[r[2]] = b <=> e.surface[r[1]].ref[r[2]] = b
    BY DEF RefsOf
  <2>1. r[1] \in Surfaces OBVIOUS
  <2> QED BY <2>1, <1>12
<1>14. Counted(e) BY <1>0, <1>7, <1>8, <1>13 DEF Counted
<1>15. Owned(e, p.buffer)
  <2> SUFFICES ASSUME NEW b \in Buffers
               PROVE  e.buffer[b].free <=> (e.buffer[b].busy_count = 0 /\ b # p.buffer)
    BY DEF Owned
  <2>1. b # None BY SurfaceTreeAssumption
  <2>2. c.buffer[b].free <=> (c.buffer[b].busy_count = 0 /\ b # None) BY <1>0 DEF Owned
  <2>3. /\ e.buffer[b].free <=> c.buffer[b].free /\ b # p.buffer
        /\ e.buffer[b].busy_count = c.buffer[b].busy_count
    BY <1>7, <1>8
  <2> QED BY <2>1, <2>2, <2>3
<1>16. /\ y.ref = c.surface[s].ref /\ y.cached = c.surface[s].cached
       /\ y.has_cached_data = c.surface[s].has_cached_data /\ y.sub = c.surface[s].sub
       /\ y.parent = c.surface[s].parent /\ y.synchronized = c.surface[s].synchronized
       /\ y.applied = c.surface[s].applied /\ y.done = c.surface[s].done
       /\ y.frame_callback_list = c.surface[s].frame_callback_list
       /\ y.dropped = c.surface[s].dropped
  BY <1>4 DEF OnlyOf, Fields, fs
<1>17. CacheHeld(y) /\ Alone(y) /\ Answered(y, n - 1)
  <2>1. Fine(c.surface[s]) BY <1>0
  <2>2. CacheHeld(y) BY <1>16, <2>1 DEF Fine, CacheHeld
  <2>3. Alone(y) BY <1>16, <2>1 DEF Fine, Alone
  <2>4. Answered(y, n - 1) BY <1>2, <1>16, <2>1 DEF Fine, Answered
  <2> QED BY <2>2, <2>3, <2>4
<1>18. p.buffer # None => p.newly_attached /\ ~e.buffer[p.buffer].free
  <2>1. p.buffer # None => p.newly_attached BY <1>0 DEF Fine, NotRequested, p
  <2>2. p.buffer \in Owners BY <1>2, StateFields
  <2>3. p.buffer # None => p.buffer \in Buffers BY <2>2 DEF Owners
  <2> QED BY <1>15, <2>1, <2>3 DEF Owned
<1>19. \A t \in Surfaces \ {s} : Fine(e.surface[t]) BY <1>0, <1>11 DEF Change
<1>20. Requesting(e, s)
  <2>1. e.surface[s].pending = q /\ e.surface[s].committed = n BY <1>4, <1>11
  <2>2. Owned(e, e.surface[s].pending.buffer) BY <1>3, <1>15, <2>1
  <2> QED BY <1>2, <1>3, <1>4, <1>10, <1>11, <1>14, <1>17, <1>18, <1>19, <2>1, <2>2
          DEF Requesting
<1> QED BY <1>1, <1>4, <1>11, <1>20 DEF fs, n, e

\* weston_surface_commit, of a surface with nothing cached
LEMMA CommitSurfaceFacts ==
  ASSUME NEW c, NEW s \in Surfaces, Requesting(c, s), ~c.surface[s].has_cached_data
  PROVE  /\ Sound(CommitSurface(c, s))
         /\ Change(c, CommitSurface(c, s), s,
                   {"ref", "applied", "frame_callback_list", "damage_lost", "pending"})
<1> DEFINE w == c.surface[s]
           p == w.pending
           d == CommitState(c, s, p)
           e == ApplyDamageBuffer(d, s, p.buffer # None)
           y == [e.surface[s] EXCEPT !.pending = InitialState]
           f == With(e, s, y)
           fs == {"pending"}
<1>0. CommitSurface(c, s) = f BY DEF CommitSurface
<1>1. /\ Placed(c) /\ Counted(c) /\ Owned(c, p.buffer)
      /\ \A t \in Surfaces \ {s} : Fine(c.surface[t])
      /\ CacheHeld(w) /\ Alone(w)
      /\ p.buffer # None => p.newly_attached /\ ~c.buffer[p.buffer].free
      /\ w.committed \in Nat \ {0} /\ Answered(w, w.committed - 1)
      /\ p.frame_callback_list = {w.committed}
  BY DEF Requesting
<1>2. Shaped(w) /\ p \in StateType /\ p.buffer \in Owners
  BY <1>1, TypesAre, StateFields DEF Placed
<1> HIDE DEF w, p
<1>3. /\ Placed(d) /\ Counted(d) /\ Owned(d, None)
      /\ Change(c, d, s, {"ref", "applied", "frame_callback_list"})
      /\ d.surface[s].ref["cached"] = w.ref["cached"]
      /\ d.surface[s].applied = w.committed
      /\ d.surface[s].frame_callback_list = w.frame_callback_list \cup {w.committed}
  <2>1. p.newly_attached /\ p.buffer # None => ~c.buffer[p.buffer].free BY <1>1
  <2>2. p.buffer # None => p.newly_attached BY <1>1
  <2>3. p.buffer \in {None, p.buffer} OBVIOUS
  <2> QED BY <1>1, <1>2, <2>1, <2>2, <2>3, CommitStateFacts DEF w
<1> HIDE DEF d
<1>4. /\ Placed(e) /\ Change(d, e, s, {"damage_lost"}) /\ e.buffer = d.buffer
  BY <1>3, ApplyDamageFacts
<1> HIDE DEF e
<1>5. Counted(e) /\ Owned(e, None) BY <1>3, <1>4, RefsKeptBy
<1>6. Rec(y) /\ OnlyOf(e.surface[s], y, fs) /\ y.pending = InitialState
  <2>1. Rec(e.surface[s]) BY <1>4 DEF Placed, Shaped
  <2> QED BY <2>1 DEF Rec, Fields, OnlyOf
<1> HIDE DEF y
<1>7. Typed(y, fs)
  <2>1. y.pending \in Types.pending BY <1>6, StateFields, TypeOf
  <2> QED BY <2>1 DEF Typed
<1> HIDE DEF fs
<1>8. Placed(f) /\ f.surface[s] = y /\ Change(e, f, s, fs) /\ f.buffer = e.buffer
  BY <1>4, <1>6, <1>7, WithFacts
<1> HIDE DEF f
<1>9. Counted(f) /\ Owned(f, None) BY <1>5, <1>8, RefsKeptBy DEF fs
<1> USE DEF fs
<1>10. Change(c, f, s, {"ref", "applied", "frame_callback_list", "damage_lost", "pending"})
  BY <1>3, <1>4, <1>8 DEF Change, OnlyOf
<1>11. /\ y.has_cached_data = w.has_cached_data /\ y.sub = w.sub /\ y.cached = w.cached
       /\ y.parent = w.parent /\ y.synchronized = w.synchronized
       /\ y.done = w.done /\ y.dropped = w.dropped /\ y.committed = w.committed
  BY <1>8, <1>10 DEF Change, OnlyOf, Fields, w
<1>12. /\ y.ref = d.surface[s].ref /\ y.applied = d.surface[s].applied
       /\ y.frame_callback_list = d.surface[s].frame_callback_list
  BY <1>4, <1>6 DEF Change, OnlyOf, Fields
<1>13. CacheHeld(y) BY <1>1, <1>3, <1>11, <1>12 DEF CacheHeld
<1>14. Alone(y) BY <1>1, <1>11 DEF Alone
<1>15. NotRequested(y) BY <1>6, StateFields DEF NotRequested
<1>16. Answered(y, w.committed)
  <2> DEFINE n == w.committed
             l == w.frame_callback_list
  <2>1. n \in Nat \ {0} /\ n \notin 1 .. (n - 1) /\ 1 .. n = (1 .. (n - 1)) \cup {n} BY <1>1
  <2>2. w.cached.frame_callback_list = {} BY <1>1 DEF Answered, w
  <2>3. /\ l \cap w.done = {} /\ l \cap w.dropped = {} /\ w.done \cap w.dropped = {}
        /\ l \cup w.done \cup w.dropped = 1 .. (n - 1)
    BY <1>1, <2>2 DEF Answered
  <2>4. \A m \in l \cup w.done : m <= n BY <2>1, <2>3
  <2>5. /\ y.frame_callback_list = l \cup {n} /\ y.applied = n /\ y.done = w.done
        /\ y.dropped = w.dropped /\ y.cached.frame_callback_list = {}
        /\ ~y.has_cached_data
    BY <1>3, <1>11, <1>12, <2>2 DEF w
  <2> HIDE DEF n, l
  <2>6. n <= n BY <2>1
  <2>7. y.has_cached_data <=> y.cached.frame_callback_list # {} BY <2>5
  <2>8. Answered(y, n) BY <2>1, <2>3, <2>4, <2>5, <2>6, <2>7 DEF Answered
  <2> QED BY <2>8 DEF n
<1>17. Fine(y) BY <1>11, <1>13, <1>14, <1>15, <1>16 DEF Fine
<1>18. \A t \in Surfaces : Fine(f.surface[t])
  <2>1. \A t \in Surfaces \ {s} : f.surface[t] = c.surface[t] BY <1>10 DEF Change
  <2> QED BY <1>1, <1>8, <1>17, <2>1
<1>19. Sound(f) BY <1>8, <1>9, <1>18 DEF Sound
<1> QED BY <1>0, <1>10, <1>19

\* The buffer that is cached, with its reference
LEMMA CacheBufferFacts ==
  ASSUME NEW c, NEW s \in Surfaces, Requesting(c, s)
  PROVE  /\ Placed(CacheBuffer(c, s)) /\ Counted(CacheBuffer(c, s))
         /\ Owned(CacheBuffer(c, s), None)
         /\ Change(c, CacheBuffer(c, s), s, {"ref", "cached"})
         /\ LET x == CacheBuffer(c, s).surface[s]
            IN /\ x.ref["cached"] = x.cached.buffer
               /\ x.cached \in StateType
               /\ x.cached.frame_callback_list = c.surface[s].cached.frame_callback_list
<1> DEFINE w == c.surface[s]
           p == w.pending
           k == [w.cached EXCEPT !.newly_attached = TRUE, !.buffer = p.buffer]
           y == [w EXCEPT !.cached = k]
           d == With(c, s, y)
           e == Reference(d, s, "cached", p.buffer)
           fs == {"cached"}
<1>1. /\ Placed(c) /\ Counted(c) /\ Owned(c, p.buffer) /\ CacheHeld(w)
      /\ p.buffer # None => p.newly_attached /\ ~c.buffer[p.buffer].free
  BY DEF Requesting
<1>2. Shaped(w) /\ p \in StateType /\ p.buffer \in Owners /\ w.cached \in StateType
      /\ p.newly_attached \in BOOLEAN
  BY <1>1, TypesAre, StateFields DEF Placed
<1>3. CASE ~p.newly_attached
  <2>1. CacheBuffer(c, s) = c BY <1>3 DEF CacheBuffer
  <2>2. p.buffer = None BY <1>1, <1>3
  <2>3. Change(c, c, s, {"ref", "cached"}) BY DEF Change, OnlyOf
  <2>4. w.ref["cached"] = w.cached.buffer BY <1>1 DEF CacheHeld
  <2> QED BY <1>1, <1>2, <2>1, <2>2, <2>3, <2>4
<1>4. CASE p.newly_attached
  <2>1. CacheBuffer(c, s) = e BY <1>4 DEF CacheBuffer
  <2> HIDE DEF w, p
  <2>2. /\ k \in StateType /\ k.buffer = p.buffer
        /\ k.frame_callback_list = w.cached.frame_callback_list
    BY <1>2 DEF StateType, Owners
  <2> HIDE DEF k
  <2>3. Rec(y) /\ OnlyOf(w, y, fs) /\ y.cached = k
    BY <1>2 DEF Shaped, Rec, Fields, OnlyOf
  <2> HIDE DEF y
  <2>4. Typed(y, fs)
    <3>1. y.cached \in Types.cached BY <2>2, <2>3, TypeOf
    <3> QED BY <3>1 DEF Typed
  <2> HIDE DEF fs
  <2>5. OnlyOf(c.surface[s], y, fs) BY <2>3 DEF w
  <2>6. Placed(d) /\ d.surface[s] = y /\ Change(c, d, s, fs) /\ d.buffer = c.buffer
    BY <1>1, <2>3, <2>4, <2>5, WithFacts
  <2> HIDE DEF d
  <2>7. Counted(d) /\ Owned(d, p.buffer) BY <1>1, <2>6, RefsKeptBy DEF fs
  <2>8. p.buffer # None => ~d.buffer[p.buffer].free BY <1>1, <2>6
  <2>9. /\ Placed(e) /\ Counted(e) /\ Owned(e, None) /\ Change(d, e, s, {"ref"})
        /\ e.surface[s].ref = [d.surface[s].ref EXCEPT !["cached"] = p.buffer]
    BY <1>2, <2>6, <2>7, <2>8, ReferenceFacts DEF Holders
  <2> HIDE DEF e
  <2>10. Change(c, e, s, {"ref", "cached"}) BY <2>6, <2>9 DEF Change, OnlyOf, fs
  <2>11. e.surface[s].cached = k BY <2>3, <2>6, <2>9 DEF Change, OnlyOf, Fields
  <2>12. e.surface[s].ref["cached"] = p.buffer
    <3>1. d.surface[s].ref \in [Holders -> Owners] /\ "cached" \in Holders
      BY <2>6, TypesAre DEF Placed, Holders
    <3> QED BY <2>9, <3>1
  <2> QED BY <2>1, <2>2, <2>9, <2>10, <2>11, <2>12 DEF w
<1> QED BY <1>2, <1>3, <1>4

\* weston_subsurface_commit_to_cache
LEMMA CommitToCacheFacts ==
  ASSUME NEW c, NEW s \in Surfaces, Requesting(c, s), c.surface[s].sub
  PROVE  /\ Sound(CommitToCache(c, s))
         /\ Change(c, CommitToCache(c, s), s,
                   {"ref", "cached", "damage_lost", "pending", "has_cached_data"})
<1> DEFINE w == c.surface[s]
           p == w.pending
           d == CacheBuffer(c, s)
           e == ApplyDamageBuffer(d, s, p.buffer # None)
           x == e.surface[s]
           l == x.cached.frame_callback_list \cup p.frame_callback_list
           k == [x.cached EXCEPT !.frame_callback_list = l]
           y == [x EXCEPT !.cached = k, !.pending = InitialState, !.has_cached_data = TRUE]
           f == With(e, s, y)
           fs == {"cached", "pending", "has_cached_data"}
<1>0. CommitToCache(c, s) = f BY DEF CommitToCache
<1>1. /\ Placed(c) /\ Counted(c) /\ Owned(c, p.buffer)
      /\ \A t \in Surfaces \ {s} : Fine(c.surface[t])
      /\ CacheHeld(w) /\ Alone(w)
      /\ w.committed \in Nat \ {0} /\ Answered(w, w.committed - 1)
      /\ p.frame_callback_list = {w.committed}
  BY DEF Requesting
<1>2. w.sub /\ Shaped(w) /\ p \in StateType BY <1>1, TypesAre DEF Placed
<1> HIDE DEF w, p
<1>3. /\ Placed(d) /\ Counted(d) /\ Owned(d, None) /\ Change(c, d, s, {"ref", "cached"})
      /\ d.surface[s].ref["cached"] = d.surface[s].cached.buffer
      /\ d.surface[s].cached \in StateType
      /\ d.surface[s].cached.frame_callback_list = w.cached.frame_callback_list
  BY CacheBufferFacts DEF w
<1> HIDE DEF d
<1>4. /\ Placed(e) /\ Change(d, e, s, {"damage_lost"}) /\ e.buffer = d.buffer
  BY <1>3, ApplyDamageFacts
<1> HIDE DEF e
<1>5. Counted(e) /\ Owned(e, None) BY <1>3, <1>4, RefsKeptBy
<1>6. x.cached = d.surface[s].cached /\ x.ref = d.surface[s].ref
  BY <1>4 DEF Change, OnlyOf, Fields
<1>7. Rec(x) BY <1>4 DEF Placed, Shaped
<1> HIDE DEF x
<1>8. /\ k \in StateType /\ k.buffer = x.cached.buffer
      /\ k.frame_callback_list = w.cached.frame_callback_list \cup {w.committed}
  <2>1. l = w.cached.frame_callback_list \cup {w.committed} BY <1>1, <1>3, <1>6
  <2>2. l \in SUBSET Commits
    BY <1>1, <1>2, <1>3, <1>6, StateFields DEF Commits
  <2> HIDE DEF l
  <2>3. x.cached \in StateType BY <1>3, <1>6
  <2>4. k = [x.cached EXCEPT !.frame_callback_list = l] BY DEF l
  <2>5. k \in StateType /\ k.buffer = x.cached.buffer /\ k.frame_callback_list = l
    BY <2>2, <2>3, <2>4 DEF StateType
  <2> QED BY <2>1, <2>5
<1> HIDE DEF k
<1>9. /\ Rec(y) /\ OnlyOf(x, y, fs) /\ y.pending = InitialState /\ y.cached = k
      /\ y.has_cached_data = TRUE
  BY <1>7 DEF Rec, Fields, OnlyOf
<1> HIDE DEF y
<1>10. Typed(y, fs)
  <2>1. /\ y.pending \in Types.pending /\ y.cached \in Types.cached
        /\ y.has_cached_data \in Types.has_cached_data
    BY <1>8, <1>9, StateFields, TypeOf
  <2> QED BY <2>1 DEF Typed
<1> HIDE DEF fs
<1>11. Placed(f) /\ f.surface[s] = y /\ Change(e, f, s, fs) /\ f.buffer = e.buffer
  BY <1>4, <1>9, <1>10, WithFacts DEF x
<1> HIDE DEF f
<1>12. Counted(f) /\ Owned(f, None) BY <1>5, <1>11, RefsKeptBy DEF fs
<1> USE DEF fs
<1>13. Change(c, f, s, {"ref", "cached", "damage_lost", "pending", "has_cached_data"})
  BY <1>3, <1>4, <1>11 DEF Change, OnlyOf
<1>14. /\ y.sub = w.sub /\ y.applied = w.applied
       /\ y.frame_callback_list = w.frame_callback_list
       /\ y.done = w.done /\ y.dropped = w.dropped /\ y.committed = w.committed
  BY <1>11, <1>13 DEF Change, OnlyOf, Fields, w
<1>15. y.ref = x.ref BY <1>9 DEF OnlyOf, Fields
<1>16. CacheHeld(y) BY <1>3, <1>6, <1>8, <1>9, <1>15 DEF CacheHeld
<1>17. Alone(y) BY <1>2, <1>14 DEF Alone
<1>18. NotRequested(y) BY <1>9, StateFields DEF NotRequested
<1>19. Answered(y, w.committed)
  <2> DEFINE n == w.committed
             held == w.cached.frame_callback_list
  <2>1. n \in Nat \ {0} /\ n \notin 1 .. (n - 1) /\ 1 .. n = (1 .. (n - 1)) \cup {n} BY <1>1
  <2>2. /\ held \cap w.done = {} /\ held \cap w.dropped = {} /\ w.done \cap w.dropped = {}
        /\ w.frame_callback_list \cap held = {} /\ w.frame_callback_list \cap w.done = {}
        /\ w.frame_callback_list \cap w.dropped = {}
        /\ w.frame_callback_list \cup held \cup w.done \cup w.dropped = 1 .. (n - 1)
        /\ \A m \in held : m > w.applied
        /\ \A m \in w.frame_callback_list \cup w.done : m <= w.applied
        /\ w.applied <= n - 1
    BY <1>1 DEF Answered
  <2>3. w.applied \in Nat BY <1>2, TypesAre
  <2>4. n > w.applied /\ w.applied <= n BY <2>1, <2>2, <2>3
  <2>5. /\ y.frame_callback_list = w.frame_callback_list /\ y.applied = w.applied
        /\ y.done = w.done
        /\ y.dropped = w.dropped /\ y.cached.frame_callback_list = held \cup {n}
        /\ y.has_cached_data
    BY <1>8, <1>9, <1>14
  <2> HIDE DEF n, held
  <2>6. y.has_cached_data <=> y.cached.frame_callback_list # {} BY <2>5
  <2>7. \A m \in held \cup {n} : m > w.applied BY <2>2, <2>4
  <2>8. Answered(y, n) BY <2>1, <2>2, <2>4, <2>5, <2>6, <2>7 DEF Answered
  <2> QED BY <2>8 DEF n
<1>20. Fine(y) BY <1>14, <1>16, <1>17, <1>18, <1>19 DEF Fine
<1>21. \A t \in Surfaces : Fine(f.surface[t])
  <2>1. \A t \in Surfaces \ {s} : f.surface[t] = c.surface[t] BY <1>13 DEF Change
  <2> QED BY <1>1, <1>11, <1>20, <2>1
<1>22. Sound(f) BY <1>11, <1>12, <1>21 DEF Sound
<1> QED BY <1>0, <1>13, <1>22

\* weston_subsurface_commit_from_cache
LEMMA CommitFromCacheFacts ==
  ASSUME NEW c, Sound(c), NEW s \in Surfaces
  PROVE  /\ Sound(CommitFromCache(c, s))
         /\ Change(c, CommitFromCache(c, s), s,
                   {"ref", "applied", "frame_callback_list", "cached", "has_cached_data"})
         /\ CommitFromCache(c, s).surface[s].has_cached_data = FALSE
<1> DEFINE w == c.surface[s]
           k == w.cached
           d == CommitState(c, s, k)
           e == Reference(d, s, "cached", None)
           x == e.surface[s]
           y == [x EXCEPT !.cached = InitialState, !.has_cached_data = FALSE]
           f == With(e, s, y)
           fs == {"cached", "has_cached_data"}
<1>0. CommitFromCache(c, s) = f BY DEF CommitFromCache
<1>1. /\ Placed(c) /\ Counted(c) /\ Owned(c, None)
      /\ \A t \in Surfaces : Fine(c.surface[t])
      /\ CacheHeld(w) /\ Alone(w) /\ NotRequested(w) /\ Answered(w, w.committed)
  BY DEF Sound, Fine
<1>2. Shaped(w) /\ k \in StateType /\ k.buffer \in Owners
  BY <1>1, TypesAre, StateFields DEF Placed
<1>3. k.buffer # None => ~c.buffer[k.buffer].free
  <2>1. "cached" \in Holders /\ w.ref["cached"] = k.buffer
    BY <1>1 DEF CacheHeld, Holders
  <2>2. k.buffer # None => k.buffer \in Buffers BY <1>2 DEF Owners
  <2>3. k.buffer # None => c.buffer[k.buffer].busy_count \in Nat \ {0}
    BY <1>1, <2>1, <2>2, ReferredBusy
  <2> QED BY <1>1, <2>2, <2>3 DEF Owned
<1> HIDE DEF w, k
<1>4. /\ Placed(d) /\ Counted(d) /\ Owned(d, None)
      /\ Change(c, d, s, {"ref", "applied", "frame_callback_list"})
      /\ d.surface[s].applied = w.committed
      /\ d.surface[s].frame_callback_list = w.frame_callback_list \cup k.frame_callback_list
  <2>1. k.newly_attached /\ k.buffer # None => ~c.buffer[k.buffer].free BY <1>3
  <2>2. None \in {None, k.buffer} OBVIOUS
  <2> QED BY <1>1, <1>2, <2>1, <2>2, CommitStateFacts DEF w
<1> HIDE DEF d
<1>5. /\ Placed(e) /\ Counted(e) /\ Owned(e, None) /\ Change(d, e, s, {"ref"})
      /\ e.surface[s].ref = [d.surface[s].ref EXCEPT !["cached"] = None]
  BY <1>4, ReferenceFacts DEF Holders, Owners
<1>6. e.surface[s].ref["cached"] = None
  <2>1. d.surface[s].ref \in [Holders -> Owners] /\ "cached" \in Holders
    BY <1>4, TypesAre DEF Placed, Holders
  <2> QED BY <1>5, <2>1
<1> HIDE DEF e
<1>7. Rec(x) BY <1>5 DEF Placed, Shaped
<1> HIDE DEF x
<1>8. /\ Rec(y) /\ OnlyOf(x, y, fs) /\ y.cached = InitialState
      /\ y.has_cached_data = FALSE
  BY <1>7 DEF Rec, Fields, OnlyOf
<1> HIDE DEF y
<1>9. Typed(y, fs)
  <2>1. y.cached \in Types.cached /\ y.has_cached_data \in Types.has_cached_data
    BY <1>8, StateFields, TypeOf
  <2> QED BY <2>1 DEF Typed
<1> HIDE DEF fs
<1>10. Placed(f) /\ f.surface[s] = y /\ Change(e, f, s, fs) /\ f.buffer = e.buffer
  BY <1>5, <1>8, <1>9, WithFacts DEF x
<1> HIDE DEF f
<1>11. Counted(f) /\ Owned(f, None) BY <1>5, <1>10, RefsKeptBy DEF fs
<1> USE DEF fs
<1>12. Change(c, f, s, {"ref", "applied", "frame_callback_list", "cached", "has_cached_data"})
  BY <1>4, <1>5, <1>10 DEF Change, OnlyOf
<1>13. /\ y.sub = w.sub /\ y.parent = w.parent /\ y.synchronized = w.synchronized
       /\ y.pending = w.pending
       /\ y.done = w.done /\ y.dropped = w.dropped /\ y.committed = w.committed
  BY <1>10, <1>12 DEF Change, OnlyOf, Fields, w
<1>14. y.applied = w.committed
       /\ y.frame_callback_list = w.frame_callback_list \cup k.frame_callback_list
  BY <1>4, <1>5, <1>8 DEF Change, OnlyOf, Fields, x
<1>15. y.ref["cached"] = None BY <1>6, <1>8 DEF OnlyOf, Fields, x
<1>16. CacheHeld(y) BY <1>8, <1>15, StateFields DEF CacheHeld
<1>17. Alone(y) BY <1>1, <1>8, <1>13 DEF Alone
<1>18. NotRequested(y) BY <1>1, <1>13 DEF NotRequested
<1>19. Answered(y, w.committed)
  <2> DEFINE n == w.committed
             l == k.frame_callback_list
  <2>1. /\ l \cap w.done = {} /\ l \cap w.dropped = {} /\ w.done \cap w.dropped = {}
        /\ w.frame_callback_list \cap w.done = {}
        /\ w.frame_callback_list \cap w.dropped = {}
        /\ w.frame_callback_list \cup l \cup w.done \cup w.dropped = 1 .. n
    BY <1>1 DEF Answered, k
  <2>2. n \in Nat BY <1>2, TypesAre
  <2>3. \A m \in w.frame_callback_list \cup l \cup w.done : m <= n BY <2>1, <2>2
  <2>4. n <= n BY <2>2
  <2>5. /\ y.frame_callback_list = w.frame_callback_list \cup l /\ y.applied = n
        /\ y.done = w.done /\ y.dropped = w.dropped
        /\ y.cached.frame_callback_list = {} /\ ~y.has_cached_data
    BY <1>8, <1>13, <1>14, StateFields
  <2> HIDE DEF n, l
  <2>6. y.has_cached_data <=> y.cached.frame_callback_list # {} BY <2>5
  <2>7. Answered(y, n) BY <2>1, <2>3, <2>4, <2>5, <2>6 DEF Answered
  <2> QED BY <2>7 DEF n
<1>20. Fine(y) BY <1>13, <1>16, <1>17, <1>18, <1>19 DEF Fine
<1>21. \A t \in Surfaces : Fine(f.surface[t])
  <2>1. \A t \in Surfaces \ {s} : f.surface[t] = c.surface[t] BY <1>12 DEF Change
  <2> QED BY <1>1, <1>10, <1>20, <2>1
<1>22. Sound(f) BY <1>10, <1>11, <1>21 DEF Sound
<1>23. f.surface[s].has_cached_data = FALSE BY <1>8, <1>10
<1> QED BY <1>0, <1>12, <1>22, <1>23

\* weston_subsurface_destroy
LEMMA EndSubsurfaceFacts ==
  ASSUME NEW c, Sound(c), NEW s \in Surfaces
  PROVE  /\ Sound(EndSubsurface(c, s))
         /\ Change(c, EndSubsurface(c, s), s,
                   {"ref", "sub", "parent", "synchronized", "dropped", "cached",
                    "has_cached_data"})
         /\ LET x == EndSubsurface(c, s).surface[s]
            IN ~x.sub /\ x.parent = None /\ ~x.synchronized
<1> DEFINE w == c.surface[s]
           e == Reference(c, s, "cached", None)
           x == e.surface[s]
           g == x.dropped \cup w.cached.frame_callback_list
           y == [x EXCEPT !.sub = FALSE, !.parent = None, !.synchronized = FALSE,
                   !.dropped = g, !.cached = InitialState, !.has_cached_data = FALSE]
           f == With(e, s, y)
           fs == {"sub", "parent", "synchronized", "dropped", "cached", "has_cached_data"}
<1>0. EndSubsurface(c, s) = f BY DEF EndSubsurface
<1>1. /\ Placed(c) /\ Counted(c) /\ Owned(c, None)
      /\ \A t \in Surfaces : Fine(c.surface[t])
      /\ NotRequested(w) /\ Answered(w, w.committed)
  BY DEF Sound, Fine
<1>2. Shaped(w) /\ w.cached \in StateType BY <1>1, TypesAre DEF Placed
<1>3. /\ Placed(e) /\ Counted(e) /\ Owned(e, None) /\ Change(c, e, s, {"ref"})
      /\ e.surface[s].ref = [w.ref EXCEPT !["cached"] = None]
  BY <1>1, ReferenceFacts DEF Holders, Owners
<1>4. e.surface[s].ref["cached"] = None
  <2>1. w.ref \in [Holders -> Owners] /\ "cached" \in Holders
    BY <1>2, TypesAre DEF Holders
  <2> HIDE DEF w, e
  <2> QED BY <1>3, <2>1
<1> HIDE DEF e, w
<1>5. Rec(x) BY <1>3 DEF Placed, Shaped
<1>6. x.dropped = w.dropped BY <1>3 DEF Change, OnlyOf, Fields, w
<1>7. g = w.dropped \cup w.cached.frame_callback_list BY <1>6
<1>8. g \in SUBSET Nat BY <1>2, <1>7, TypesAre, StateFields
<1> HIDE DEF x, g
<1>9. Rec(y)
  BY <1>5 DEF Rec, Fields
<1>10. OnlyOf(x, y, fs)
  BY <1>5 DEF Rec, Fields, OnlyOf
<1>11. /\ y.sub = FALSE /\ y.parent = None /\ y.synchronized = FALSE
       /\ y.dropped = g /\ y.cached = InitialState /\ y.has_cached_data = FALSE
  BY <1>5 DEF Rec, Fields
<1> HIDE DEF y
<1>12. Typed(y, fs)
  <2>1. /\ y.cached \in Types.cached /\ y.has_cached_data \in Types.has_cached_data
        /\ y.sub \in Types.sub /\ y.parent \in Types.parent
        /\ y.synchronized \in Types.synchronized /\ y.dropped \in Types.dropped
    BY <1>8, <1>11, StateFields, TypeOf
  <2> QED BY <2>1 DEF Typed
<1> HIDE DEF fs
<1>13. Placed(f) /\ f.surface[s] = y /\ Change(e, f, s, fs) /\ f.buffer = e.buffer
  BY <1>3, <1>9, <1>10, <1>12, WithFacts DEF x
<1> HIDE DEF f
<1>14. Counted(f) /\ Owned(f, None) BY <1>3, <1>13, RefsKeptBy DEF fs
<1> USE DEF fs
<1>15. Change(c, f, s, {"ref", "sub", "parent", "synchronized", "dropped", "cached",
                        "has_cached_data"})
  BY <1>3, <1>13 DEF Change, OnlyOf
<1>16. /\ y.pending = w.pending /\ y.applied = w.applied
       /\ y.frame_callback_list = w.frame_callback_list
       /\ y.done = w.done /\ y.committed = w.committed
  BY <1>13, <1>15 DEF Change, OnlyOf, Fields, w
<1>17. y.ref["cached"] = None BY <1>4, <1>10 DEF OnlyOf, Fields, x
<1>18. CacheHeld(y) BY <1>11, <1>17, StateFields DEF CacheHeld
<1>19. Alone(y) BY <1>11 DEF Alone
<1>20. NotRequested(y) BY <1>1, <1>16 DEF NotRequested
<1>21. Answered(y, w.committed)
  <2> DEFINE n == w.committed
             l == w.cached.frame_callback_list
  <2>1. /\ l \cap w.done = {} /\ l \cap w.dropped = {} /\ w.done \cap w.dropped = {}
        /\ w.frame_callback_list \cap w.done = {}
        /\ w.frame_callback_list \cap w.dropped = {}
        /\ w.frame_callback_list \cap l = {}
        /\ w.frame_callback_list \cup l \cup w.done \cup w.dropped = 1 .. n
        /\ \A m \in w.frame_callback_list \cup w.done : m <= w.applied
        /\ w.applied <= n
    BY <1>1 DEF Answered
  <2>2. /\ y.frame_callback_list = w.frame_callback_list /\ y.applied = w.applied
        /\ y.done = w.done /\ y.dropped = w.dropped \cup l
        /\ y.cached.frame_callback_list = {} /\ ~y.has_cached_data
    BY <1>7, <1>11, <1>16, StateFields
  <2> HIDE DEF n, l
  <2>3. y.has_cached_data <=> y.cached.frame_callback_list # {} BY <2>2
  <2>4. Answered(y, n) BY <2>1, <2>2, <2>3 DEF Answered
  <2> QED BY <2>4 DEF n
<1>22. Fine(y) BY <1>16, <1>18, <1>19, <1>20, <1>21 DEF Fine
<1>23. \A t \in Surfaces : Fine(f.surface[t])
  <2>1. \A t \in Surfaces \ {s} : f.surface[t] = c.surface[t] BY <1>15 DEF Change
  <2> QED BY <1>1, <1>13, <1>22, <2>1
<1>24. Sound(f) BY <1>13, <1>14, <1>23 DEF Sound
<1>25. ~f.surface[s].sub /\ f.surface[s].parent = None /\ ~f.surface[s].synchronized
  BY <1>11, <1>13
<1> QED BY <1>0, <1>15, <1>24, <1>25

-----------------------------------------------------------------------------
(* Induction.                                                              *)

\* A set of numbers that is not empty has a least one.
LEMMA Least ==
  ASSUME NEW T \in SUBSET Nat, T # {}
  PROVE  \E n \in T : \A m \in T : n <= m
<1> DEFINE R == OpToRel(<, Nat)
<1>1. IsWellFoundedOn(R, Nat) BY NatLessThanWellFounded
<1>2. ASSUME NEW m \in Nat, NEW n \in Nat, ~(<<m, n>> \in R) PROVE n <= m
  <2>1. ~(m < n) BY <1>2 DEF OpToRel
  <2> QED BY <2>1
<1> HIDE DEF R
<1>3. PICK n \in T : \A m \in T : ~(<<m, n>> \in R) BY <1>1, WFMin
<1>4. \A m \in T : n <= m
  <2> TAKE m \in T
  <2>1. m \in Nat /\ n \in Nat /\ ~(<<m, n>> \in R) BY <1>3, Zenon
  <2> QED BY <1>2, <2>1, Zenon
<1> QED BY <1>4, Zenon

\* A set with 0 and with the successor of each of its members is Nat.
LEMMA Induction ==
  ASSUME NEW T \in SUBSET Nat, 0 \in T, \A n \in T : n + 1 \in T
  PROVE  T = Nat
<1> DEFINE U == Nat \ T
<1> SUFFICES ASSUME U # {} PROVE FALSE OBVIOUS
<1>1. PICK n \in U : \A m \in U : n <= m BY Least
<1>2. n # 0 /\ n - 1 \in Nat BY <1>1
<1>3. n - 1 \in T BY <1>1, <1>2
<1>4. (n - 1) + 1 = n BY <1>2
<1>5. n \in T BY <1>3, <1>4
<1> QED BY <1>5, <1>1

\* The element a fold takes from a set
Some(s) == CHOOSE x \in s : TRUE

\* A set of subsets that has the empty one, and each one whose rest it has, has
\* all of them.
LEMMA SubsetInduction ==
  ASSUME NEW S, IsFiniteSet(S), NEW T \in SUBSET (SUBSET S), {} \in T,
         \A s \in SUBSET S : s # {} /\ s \ {Some(s)} \in T => s \in T
  PROVE  T = SUBSET S
<1> DEFINE U == {n \in Nat : \A s \in SUBSET S : Cardinality(s) <= n => s \in T}
<1>1. \A s \in SUBSET S : IsFiniteSet(s) /\ Cardinality(s) \in Nat
  BY FS_Subset, FS_CardinalityType
<1>2. 0 \in U
  <2> SUFFICES ASSUME NEW s \in SUBSET S, Cardinality(s) <= 0 PROVE s \in T OBVIOUS
  <2>1. Cardinality(s) = 0 BY <1>1
  <2>2. s = {} BY <1>1, <2>1, FS_EmptySet
  <2> QED BY <2>2
<1>3. ASSUME NEW n \in U PROVE n + 1 \in U
  <2> SUFFICES ASSUME NEW s \in SUBSET S, Cardinality(s) <= n + 1 PROVE s \in T
    OBVIOUS
  <2> DEFINE r == s \ {Some(s)}
  <2>1. CASE s = {} BY <2>1
  <2>2. CASE s # {}
    <3>1. Some(s) \in s BY <2>2 DEF Some
    <3>2. Cardinality(r) = Cardinality(s) - 1 BY <1>1, <3>1, FS_RemoveElement
    <3>3. Cardinality(r) <= n BY <1>1, <3>2
    <3>4. r \in SUBSET S OBVIOUS
    <3>5. r \in T BY <3>3, <3>4
    <3> QED BY <2>2, <3>5
  <2> QED BY <2>1, <2>2
<1> HIDE DEF U
<1>4. U \in SUBSET Nat BY DEF U
<1>5. U = Nat BY <1>2, <1>3, <1>4, Induction
<1>6. ASSUME NEW s \in SUBSET S PROVE s \in T
  <2>1. Cardinality(s) \in U BY <1>1, <1>5
  <2>2. Cardinality(s) <= Cardinality(s) BY <1>1
  <2> QED BY <2>1, <2>2 DEF U
<1> QED BY <1>6

\* One step of the model's folds, on the surface x: of the commit of cached
\* states, of the repaint, and of the sum of the commits of c.
Step(c, mode, x, v) ==
  IF mode = "cache" THEN CommitFromCache(v, x)
  ELSE IF mode = "repaint" THEN Reference(v, x, "surface", None)
  ELSE c.surface[x].committed + v

\* The fold over each of the sets in D
IsFold(g, D, c, mode, v) ==
  g = [s \in D |-> IF s = {} THEN v
                   ELSE Step(c, mode, Some(s), g[s \ {Some(s)}])]

\* The fold exists: a recursive function on the sets of at most m elements
\* extends to those of m + 1.
LEMMA FoldsExist ==
  ASSUME NEW S, IsFiniteSet(S), NEW c, NEW mode, NEW v
  PROVE  \E g : IsFold(g, SUBSET S, c, mode, v)
<1> DEFINE D(n) == {s \in SUBSET S : Cardinality(s) <= n}
           T == {m \in Nat : \E g : IsFold(g, D(m), c, mode, v)}
<1>0. \A s \in SUBSET S : IsFiniteSet(s) /\ Cardinality(s) \in Nat
  BY FS_Subset, FS_CardinalityType
<1>1. 0 \in T
  <2> DEFINE g == [s \in D(0) |-> v]
  <2>1. \A s \in D(0) : s = {}
    <3> TAKE s \in D(0)
    <3>1. IsFiniteSet(s) /\ Cardinality(s) = 0 BY <1>0
    <3> QED BY <3>1, FS_EmptySet
  <2> HIDE DEF D
  <2>2. g = [s \in D(0) |-> IF s = {} THEN v
                            ELSE Step(c, mode, Some(s), g[s \ {Some(s)}])]
    BY <2>1
  <2>3. IsFold(g, D(0), c, mode, v) BY <2>2 DEF IsFold
  <2> QED BY <2>3
<1>2. ASSUME NEW m \in T PROVE m + 1 \in T
  <2>0. m \in Nat OBVIOUS
  <2>1. PICK g : IsFold(g, D(m), c, mode, v) OBVIOUS
  <2> DEFINE next(s, k) == IF s = {} THEN v ELSE Step(c, mode, Some(s), k[s \ {Some(s)}])
             h == [s \in D(m + 1) |-> IF Cardinality(s) = m + 1 THEN next(s, g) ELSE g[s]]
  <2>2. ASSUME NEW s \in D(m + 1), Cardinality(s) # m + 1
        PROVE  s \in D(m)
    BY <1>0, <2>0, <2>2
  <2>3. ASSUME NEW s \in D(m + 1), s # {}
        PROVE  s \ {Some(s)} \in D(m)
    <3>1. Some(s) \in s BY <2>3 DEF Some
    <3>2. Cardinality(s \ {Some(s)}) = Cardinality(s) - 1
      BY <1>0, <3>1, FS_RemoveElement
    <3> QED BY <1>0, <2>0, <3>2
  <2>4. D(m) \subseteq D(m + 1) BY <1>0, <2>0
  <2>5. ASSUME NEW s \in D(m) PROVE Cardinality(s) # m + 1
    BY <1>0, <2>0
  <2> HIDE DEF D
  <2>6. \A s \in D(m) : g[s] = next(s, g) BY <2>1 DEF IsFold
  <2>7. \A s \in D(m) : h[s] = g[s] BY <2>4, <2>5
  <2>8. ASSUME NEW s \in D(m + 1) PROVE next(s, g) = next(s, h)
    BY <2>3, <2>7
  <2>9. ASSUME NEW s \in D(m + 1) PROVE h[s] = next(s, h)
    <3>1. CASE Cardinality(s) = m + 1 BY <2>8, <3>1
    <3>2. CASE Cardinality(s) # m + 1 BY <2>2, <2>6, <2>8, <3>2
    <3> QED BY <3>1, <3>2
  <2>10. h = [s \in D(m + 1) |-> next(s, h)]
    <3> DEFINE k == [s \in D(m + 1) |-> next(s, h)]
    <3>1. \A s \in D(m + 1) : h[s] = k[s] BY <2>9
    <3> QED BY <3>1
  <2>11. IsFold(h, D(m + 1), c, mode, v) BY <2>10 DEF IsFold
  <2> QED BY <2>0, <2>11
<1> HIDE DEF T
<1>3. T \in SUBSET Nat BY DEF T
<1>4. T = Nat BY <1>1, <1>2, <1>3, Induction
<1>5. D(Cardinality(S)) = SUBSET S
  <2> SUFFICES ASSUME NEW s \in SUBSET S PROVE Cardinality(s) <= Cardinality(S)
    OBVIOUS
  <2> QED BY FS_Subset
<1>6. Cardinality(S) \in T BY <1>0, <1>4, FS_CardinalityType
<1> QED BY <1>5, <1>6 DEF T

\* The folds of the model are such functions.
LEMMA FoldIs ==
  ASSUME NEW S, IsFiniteSet(S), NEW c
  PROVE  /\ \E g : /\ IsFold(g, SUBSET S, c, "cache", c)
                   /\ FoldSet(LAMBDA t, d : CommitFromCache(d, t), c, S) = g[S]
         /\ \E g : /\ IsFold(g, SUBSET S, c, "repaint", c)
                   /\ FoldSet(LAMBDA s, d : Reference(d, s, "surface", None), c, S) = g[S]

<1> DEFINE run(mode, v) == CHOOSE g : IsFold(g, SUBSET S, c, mode, v)
<1>1. \A mode, v : IsFold(run(mode, v), SUBSET S, c, mode, v) BY FoldsExist
<1>2. FoldSet(LAMBDA t, d : CommitFromCache(d, t), c, S) = run("cache", c)[S]
  BY DEF FoldSet, MapThenFoldSet, IsFold, Step, Some
<1>3. FoldSet(LAMBDA s, d : Reference(d, s, "surface", None), c, S) = run("repaint", c)[S]
  BY DEF FoldSet, MapThenFoldSet, IsFold, Step, Some

<1> HIDE DEF run
<1> QED BY <1>1, <1>2, <1>3

\* What a commit of the cached state changes of a surface
FromCache == {"ref", "applied", "frame_callback_list", "cached", "has_cached_data"}

\* The cached states of the surfaces S of c have become current in d.
Folded(c, d, S) ==
  /\ Sound(d)
  /\ \A t \in S : /\ OnlyOf(c.surface[t], d.surface[t], FromCache)
                  /\ ~d.surface[t].has_cached_data
  /\ \A t \in Surfaces \ S : d.surface[t] = c.surface[t]

\* What the fold over sub-surfaces has come to, for each set of them.
LEMMA CacheFoldFacts ==
  ASSUME NEW c, Sound(c), NEW S \in SUBSET Surfaces, NEW g,
         IsFold(g, SUBSET S, c, "cache", c)
  PROVE  Folded(c, g[S], S)
<1> DEFINE Done(e, s) == Folded(c, e, s)
<1>1. IsFiniteSet(S) BY SurfaceTreeAssumption, FS_Subset
<1>2. IsFold(g, SUBSET S, c, "cache", c) OBVIOUS
<1> DEFINE T == {s \in SUBSET S : Done(g[s], s)}
<1>3. {} \in T
  <2>1. g[{}] = c BY <1>2 DEF IsFold
  <2>2. Done(c, {}) BY DEF Folded
  <2> QED BY <2>1, <2>2
<1>4. ASSUME NEW s \in SUBSET S, s # {}, s \ {Some(s)} \in T
      PROVE  s \in T
  <2> DEFINE x == Some(s)
             r == s \ {x}
             e == g[r]
             f == CommitFromCache(e, x)
  <2>1. x \in s /\ x \in Surfaces BY <1>4 DEF Some
  <2>2. Done(e, r) BY <1>4
  <2>3. g[s] = f BY <1>2, <1>4 DEF IsFold, Step
  <2> HIDE DEF x, e
  <2>4. /\ Sound(f) /\ Change(e, f, x, FromCache) /\ ~f.surface[x].has_cached_data
    BY <2>1, <2>2, CommitFromCacheFacts DEF FromCache, Folded
  <2> HIDE DEF f
  <2>5. e.surface[x] = c.surface[x] BY <2>1, <2>2 DEF Folded
  <2>6. \A t \in s : /\ OnlyOf(c.surface[t], f.surface[t], FromCache)
                     /\ ~f.surface[t].has_cached_data
    <3> TAKE t \in s
    <3>1. CASE t = x BY <2>4, <2>5, <3>1 DEF Change
    <3>2. CASE t # x
      <4>1. t \in Surfaces OBVIOUS
      <4>2. f.surface[t] = e.surface[t] BY <2>4, <3>2, <4>1 DEF Change
      <4> QED BY <2>2, <3>2, <4>2 DEF Folded
    <3> QED BY <3>1, <3>2
  <2>7. \A t \in Surfaces \ s : f.surface[t] = c.surface[t]
    <3> TAKE t \in Surfaces \ s
    <3>1. t # x BY <2>1
    <3>2. f.surface[t] = e.surface[t] BY <2>4, <3>1 DEF Change
    <3> QED BY <2>2, <3>1, <3>2 DEF Folded
  <2>8. Done(f, s) BY <2>4, <2>6, <2>7 DEF Folded
  <2> QED BY <2>3, <2>8
<1>5. \A s \in SUBSET S : s # {} /\ s \ {Some(s)} \in T => s \in T
  <2> HIDE DEF T
  <2> QED BY <1>4
<1> HIDE DEF T
<1>6. T \in SUBSET (SUBSET S) BY DEF T
<1>7. T = SUBSET S BY <1>1, <1>3, <1>5, <1>6, SubsetInduction
<1>8. S \in T BY <1>7
<1>9. Done(g[S], S) BY <1>8 DEF T
<1> QED BY <1>9

\* The core's references of all the surfaces S end.
LEMMA RepaintFoldFacts ==
  ASSUME NEW c, Sound(c), NEW S \in SUBSET Surfaces, NEW g,
         IsFold(g, SUBSET S, c, "repaint", c), NEW d, d = g[S]
  PROVE  /\ Sound(d)
         /\ \A t \in Surfaces : OnlyOf(c.surface[t], d.surface[t], {"ref"})
<1> DEFINE Done(e) ==
             /\ Sound(e)
             /\ \A t \in Surfaces : OnlyOf(c.surface[t], e.surface[t], {"ref"})
<1>1. IsFiniteSet(S) BY SurfaceTreeAssumption, FS_Subset
<1>2. IsFold(g, SUBSET S, c, "repaint", c) OBVIOUS
<1> DEFINE T == {s \in SUBSET S : Done(g[s])}
<1>3. {} \in T
  <2>1. g[{}] = c BY <1>2 DEF IsFold
  <2>2. Done(c) BY DEF OnlyOf
  <2> HIDE DEF Done
  <2> QED BY <2>1, <2>2
<1>4. ASSUME NEW s \in SUBSET S, s # {}, s \ {Some(s)} \in T
      PROVE  s \in T
  <2> DEFINE x == Some(s)
             e == g[s \ {x}]
             f == Reference(e, x, "surface", None)
  <2>1. x \in Surfaces BY <1>4 DEF Some
  <2>2. Done(e) BY <1>4
  <2>3. g[s] = f BY <1>2, <1>4 DEF IsFold, Step
  <2> HIDE DEF x, e
  <2>4. /\ Placed(f) /\ Counted(f) /\ Owned(f, None) /\ Change(e, f, x, {"ref"})
        /\ f.surface[x].ref = [e.surface[x].ref EXCEPT !["surface"] = None]
    <3>1. /\ Placed(e) /\ Counted(e) /\ Owned(e, None) /\ "surface" \in Holders
          /\ None \in Owners
      BY <2>2 DEF Sound, Holders, Owners
    <3> QED BY <2>1, <3>1, ReferenceFacts
  <2> HIDE DEF f
  <2>5. \A t \in Surfaces : OnlyOf(e.surface[t], f.surface[t], {"ref"})
    BY <2>4 DEF Change, OnlyOf
  <2>6. \A t \in Surfaces : OnlyOf(c.surface[t], f.surface[t], {"ref"})
    BY <2>2, <2>5 DEF OnlyOf
  <2>7. Fine(f.surface[x])
    <3> DEFINE y == e.surface[x]
               z == f.surface[x]
    <3>1. Fine(y) /\ y.ref \in [Holders -> Owners]
      BY <2>1, <2>2, TypesAre DEF Sound, Placed
    <3>2. z.ref["cached"] = y.ref["cached"] BY <2>4, <3>1 DEF Holders
    <3>3. /\ z.cached = y.cached /\ z.has_cached_data = y.has_cached_data
          /\ z.pending = y.pending /\ z.applied = y.applied /\ z.sub = y.sub
          /\ z.frame_callback_list = y.frame_callback_list /\ z.done = y.done
          /\ z.dropped = y.dropped /\ z.committed = y.committed
          /\ z.parent = y.parent /\ z.synchronized = y.synchronized
      BY <2>1, <2>5 DEF OnlyOf, Fields
    <3> HIDE DEF y, z
    <3>4. CacheHeld(z) BY <3>1, <3>2, <3>3 DEF Fine, CacheHeld
    <3>5. NotRequested(z) BY <3>1, <3>3 DEF Fine, NotRequested
    <3>6. Answered(z, z.committed) BY <3>1, <3>3 DEF Fine, Answered
    <3>7. Alone(z) BY <3>1, <3>3 DEF Fine, Alone
    <3> QED BY <3>4, <3>5, <3>6, <3>7 DEF Fine, z
  <2>8. \A t \in Surfaces : Fine(f.surface[t])
    BY <2>2, <2>4, <2>7 DEF Sound, Change
  <2>9. Done(f) BY <2>4, <2>6, <2>8 DEF Sound
  <2> HIDE DEF Done
  <2> QED BY <2>3, <2>9
<1>5. \A s \in SUBSET S : s # {} /\ s \ {Some(s)} \in T => s \in T
  <2> HIDE DEF T
  <2> QED BY <1>4
<1> HIDE DEF T
<1>6. T \in SUBSET (SUBSET S) BY DEF T
<1>7. T = SUBSET S BY <1>1, <1>3, <1>5, <1>6, SubsetInduction
<1>8. S \in T BY <1>7
<1>9. Done(g[S])
  <2> HIDE DEF Done
  <2> QED BY <1>8 DEF T
<1> QED BY <1>2, <1>9

\* No surface has more commits than all together.
LEMMA SumBounds ==
  ASSUME NEW c, \A t \in Surfaces : c.surface[t].committed \in Nat,
         NEW g, IsFold(g, SUBSET Surfaces, c, "sum", 0), NEW s \in Surfaces
  PROVE  g[Surfaces] \in Nat /\ c.surface[s].committed <= g[Surfaces]
<1> DEFINE N(t) == c.surface[t].committed
           Most(n, r) == n \in Nat /\ \A t \in r : N(t) <= n
<1>1. IsFiniteSet(Surfaces) BY SurfaceTreeAssumption
<1>2. IsFold(g, SUBSET Surfaces, c, "sum", 0) OBVIOUS
<1> DEFINE T == {r \in SUBSET Surfaces : Most(g[r], r)}
<1>3. {} \in T
  <2>1. g[{}] = 0 BY <1>2 DEF IsFold
  <2> QED BY <2>1
<1>4. ASSUME NEW r \in SUBSET Surfaces, r # {}, r \ {Some(r)} \in T
      PROVE  r \in T
  <2> DEFINE x == Some(r)
             n == g[r \ {x}]
  <2>1. x \in r /\ N(x) \in Nat BY <1>4 DEF Some
  <2>2. Most(n, r \ {x}) BY <1>4
  <2>3. g[r] = N(x) + n BY <1>2, <1>4 DEF IsFold, Step
  <2>4. \A t \in r : N(t) \in Nat OBVIOUS
  <2> HIDE DEF x, n, N
  <2>5. Most(N(x) + n, r) BY <2>1, <2>2, <2>4
  <2> HIDE DEF Most
  <2> QED BY <2>3, <2>5
<1>5. \A r \in SUBSET Surfaces : r # {} /\ r \ {Some(r)} \in T => r \in T
  <2> HIDE DEF T
  <2> QED BY <1>4
<1> HIDE DEF T
<1>6. T \in SUBSET (SUBSET Surfaces) BY DEF T
<1>7. T = SUBSET Surfaces BY <1>1, <1>3, <1>5, <1>6, SubsetInduction
<1>8. Surfaces \in T BY <1>7
<1>9. Most(g[Surfaces], Surfaces) BY <1>8 DEF T
<1> QED BY <1>9

\* The surfaces whose caches weston_subsurface_synchronized_commit commits
CachedBelow(c, subs) ==
  {t \in UNION {SubTree(c, s) : s \in subs} : c.surface[t].has_cached_data}

\* weston_subsurface_synchronized_commit
LEMMA SynchronizedCommitFacts ==
  ASSUME NEW c, Sound(c), NEW subs \in SUBSET Surfaces
  PROVE  LET d == SynchronizedCommit(c, subs)
             S == CachedBelow(c, subs)
         IN S \subseteq Surfaces /\ Folded(c, d, S)
<1> DEFINE d == SynchronizedCommit(c, subs)
           S == CachedBelow(c, subs)
<1>1. S \in SUBSET Surfaces BY DEF CachedBelow, SubTree
<1>2. IsFiniteSet(S) BY <1>1, SurfaceTreeAssumption, FS_Subset
<1>3. d = FoldSet(LAMBDA t, e : CommitFromCache(e, t), c, S)
  BY DEF SynchronizedCommit, CachedBelow
<1>4. \E g : IsFold(g, SUBSET S, c, "cache", c) /\ d = g[S]
  <2> HIDE DEF d, S
  <2>1. \E g : /\ IsFold(g, SUBSET S, c, "cache", c)
               /\ FoldSet(LAMBDA t, e : CommitFromCache(e, t), c, S) = g[S]
    BY <1>2, FoldIs
  <2> QED BY <2>1, <1>3
<1>5. PICK g : IsFold(g, SUBSET S, c, "cache", c) /\ d = g[S] BY <1>4
<1> HIDE DEF d, S
<1>6. Folded(c, d, S) BY <1>1, <1>5, CacheFoldFacts
<1> QED BY <1>1, <1>6 DEF d, S
-----------------------------------------------------------------------------
(* The tree.                                                               *)

\* With each surface, A has its parent.
Closed(c, A) ==
  \A t \in A : c.surface[t].parent # None => c.surface[t].parent \in A

Above(c, A) == A \cup ({c.surface[t].parent : t \in A} \ {None})

IsUp(g, c, s, n) == g = [i \in 0 .. n |-> IF i = 0 THEN {s} ELSE Above(c, g[i - 1])]

\* The climb exists.
LEMMA ClimbExists ==
  ASSUME NEW c, NEW s, NEW n \in Nat
  PROVE  \E g : IsUp(g, c, s, n)
<1> DEFINE T == {m \in Nat : \E g : IsUp(g, c, s, m)}
<1>1. 0 \in T
  <2> DEFINE g == [i \in 0 .. 0 |-> {s}]
  <2>1. IsUp(g, c, s, 0) BY DEF IsUp
  <2> QED BY <2>1
<1>2. ASSUME NEW m \in T PROVE m + 1 \in T
  <2>0. m \in Nat OBVIOUS
  <2>1. PICK g : IsUp(g, c, s, m) OBVIOUS
  <2> DEFINE h == [i \in 0 .. m + 1 |-> IF i = m + 1 THEN Above(c, g[m]) ELSE g[i]]
             k == [i \in 0 .. m + 1 |-> IF i = 0 THEN {s} ELSE Above(c, h[i - 1])]
  <2>2. \A i \in 0 .. m : g[i] = IF i = 0 THEN {s} ELSE Above(c, g[i - 1])
    BY <2>1 DEF IsUp
  <2>3. \A i \in 0 .. m + 1 : h[i] = IF i = 0 THEN {s} ELSE Above(c, h[i - 1])
    <3> TAKE i \in 0 .. m + 1
    <3>1. CASE i = m + 1
      <4>1. i # 0 /\ i - 1 = m /\ m \in 0 .. m + 1 /\ m # m + 1 BY <2>0, <3>1
      <4>2. h[m] = g[m] BY <4>1
      <4>3. h[i] = Above(c, g[m]) BY <3>1
      <4> QED BY <4>1, <4>2, <4>3
    <3>2. CASE i # m + 1
      <4>1. i \in 0 .. m BY <2>0, <3>2
      <4>2. h[i] = g[i] BY <3>2
      <4>3. i # 0 => i - 1 \in 0 .. m + 1 /\ i - 1 # m + 1 BY <2>0, <4>1
      <4>4. i # 0 => h[i - 1] = g[i - 1] BY <4>3
      <4> QED BY <2>2, <4>1, <4>2, <4>4
    <3> QED BY <3>1, <3>2
  <2>4. h = k BY <2>3
  <2>5. IsUp(h, c, s, m + 1) BY <2>4 DEF IsUp
  <2> QED BY <2>0, <2>5
<1> HIDE DEF T
<1>3. T \in SUBSET Nat BY DEF T
<1>4. T = Nat BY <1>1, <1>2, <1>3, Induction
<1> QED BY <1>4 DEF T

\* Ancestry is the least closed set with s.  It is closed: while it is not, each
\* step of the climb adds a surface, and there are not enough of them.
LEMMA AncestryIs ==
  ASSUME NEW c, Placed(c), NEW s \in Surfaces
  PROVE  /\ Ancestry(c, s) \subseteq Surfaces /\ s \in Ancestry(c, s)
         /\ Closed(c, Ancestry(c, s))
         /\ \A A : s \in A /\ Closed(c, A) => Ancestry(c, s) \subseteq A
<1> DEFINE N == Cardinality(Surfaces)
           g == CHOOSE k : IsUp(k, c, s, N)
<1>1. N \in Nat /\ IsFiniteSet(Surfaces)
  BY SurfaceTreeAssumption, FS_CardinalityType
<1>2. IsUp(g, c, s, N) BY <1>1, ClimbExists
<1>3. Ancestry(c, s) = g[N] BY DEF Ancestry, IsUp, Above
<1>4. \A t \in Surfaces : c.surface[t].parent \in Surfaces \cup {None}
  BY TypesAre DEF Placed
<1> HIDE DEF N, g
<1>5. g[0] = {s} BY <1>1, <1>2 DEF IsUp
<1>6. ASSUME NEW m \in Nat, m + 1 <= N PROVE g[m + 1] = Above(c, g[m])
  <2>1. m + 1 \in 0 .. N /\ m + 1 # 0 /\ (m + 1) - 1 = m BY <1>1, <1>6
  <2> QED BY <1>2, <2>1 DEF IsUp
<1> DEFINE Fit(m) == /\ g[m] \subseteq Surfaces /\ s \in g[m]
                     /\ Closed(c, g[m]) \/ Cardinality(g[m]) >= m + 1
                     /\ \A A : s \in A /\ Closed(c, A) => g[m] \subseteq A
           T == {m \in Nat : m <= N => Fit(m)}
<1>7. 0 \in T
  <2>1. Cardinality({s}) = 1 BY FS_Singleton
  <2> QED BY <1>5, <2>1
<1>8. ASSUME NEW m \in T, m + 1 <= N PROVE Fit(m + 1)
  <2> DEFINE B == g[m]
             C == g[m + 1]
  <2>1. m \in Nat /\ m <= N BY <1>1, <1>8
  <2>2. Fit(m) BY <2>1
  <2>3. C = Above(c, B) BY <1>6, <1>8, <2>1
  <2> HIDE DEF B, C
  <2>4. B \subseteq Surfaces /\ s \in B BY <2>2 DEF B
  <2>5. C \subseteq Surfaces /\ s \in C /\ B \subseteq C BY <1>4, <2>3, <2>4 DEF Above
  <2>6. Closed(c, C) \/ Cardinality(C) >= (m + 1) + 1
    <3>1. CASE Closed(c, B)
      <4>1. C = B BY <2>3, <3>1 DEF Above, Closed
      <4> QED BY <3>1, <4>1
    <3>2. CASE ~Closed(c, B)
      <4>1. PICK t \in B : c.surface[t].parent # None /\ c.surface[t].parent \notin B
        BY <3>2 DEF Closed
      <4>2. c.surface[t].parent \in C BY <2>3, <4>1 DEF Above
      <4>3. C # B BY <4>1, <4>2
      <4>4. IsFiniteSet(C) /\ IsFiniteSet(B) BY <1>1, <2>4, <2>5, FS_Subset
      <4>5. Cardinality(C) \in Nat /\ Cardinality(B) \in Nat BY <4>4, FS_CardinalityType
      <4>6. Cardinality(B) < Cardinality(C)
        BY <2>5, <4>3, <4>4, <4>5, FS_Subset
      <4>7. Cardinality(B) >= m + 1 BY <2>2, <3>2 DEF B
      <4> QED BY <2>1, <4>5, <4>6, <4>7
    <3> QED BY <3>1, <3>2
  <2>7. ASSUME NEW A, s \in A, Closed(c, A) PROVE C \subseteq A
    <3>1. B \subseteq A BY <2>2, <2>7 DEF B
    <3> QED BY <2>3, <2>7, <3>1 DEF Above, Closed
  <2> QED BY <2>5, <2>6, <2>7 DEF C
<1>9. \A m \in T : m + 1 \in T
  <2> HIDE DEF Fit
  <2> TAKE m \in T
  <2>1. m + 1 \in Nat OBVIOUS
  <2> QED BY <1>8, <2>1
<1> HIDE DEF T
<1>10. T \in SUBSET Nat BY DEF T
<1>11. T = Nat BY <1>7, <1>9, <1>10, Induction
<1> HIDE DEF Fit
<1>12. Fit(N) BY <1>1, <1>11 DEF T
<1>13. Closed(c, g[N])
  <2>1. g[N] \subseteq Surfaces BY <1>12 DEF Fit
  <2>2. Cardinality(g[N]) <= N BY <1>1, <2>1, FS_Subset DEF N
  <2>3. IsFiniteSet(g[N]) BY <1>1, <2>1, FS_Subset
  <2>4. Cardinality(g[N]) \in Nat BY <2>3, FS_CardinalityType
  <2>5. ~(Cardinality(g[N]) >= N + 1) BY <1>1, <2>2, <2>4
  <2> QED BY <1>12, <2>5 DEF Fit
<1> QED BY <1>3, <1>12, <1>13 DEF Fit

\* What is above what is above s is above s.
LEMMA AncestryTransitive ==
  ASSUME NEW c, Placed(c), NEW s \in Surfaces, NEW t \in Ancestry(c, s)
  PROVE  t \in Surfaces /\ Ancestry(c, t) \subseteq Ancestry(c, s)
<1>1. t \in Surfaces /\ Closed(c, Ancestry(c, s)) BY AncestryIs
<1> QED BY <1>1, AncestryIs

\* It depends on the parents only, and there is not more of it when some of the
\* parents are gone.
LEMMA AncestryShrinks ==
  ASSUME NEW c, Placed(c), NEW d, Placed(d), NEW s \in Surfaces,
         \A t \in Surfaces : d.surface[t].parent \in {c.surface[t].parent, None}
  PROVE  Ancestry(d, s) \subseteq Ancestry(c, s)
<1> DEFINE A == Ancestry(c, s)
<1>1. A \subseteq Surfaces /\ s \in A /\ Closed(c, A) BY AncestryIs
<1> HIDE DEF A
<1>2. Closed(d, A) BY <1>1 DEF Closed
<1> QED BY <1>1, <1>2, AncestryIs DEF A

\* What is above a surface depends on the parents only.
LEMMA AncestrySame ==
  ASSUME NEW c, Placed(c), NEW d, Placed(d), NEW s \in Surfaces,
         \A t \in Surfaces : d.surface[t].parent = c.surface[t].parent
  PROVE  Ancestry(d, s) = Ancestry(c, s)
<1>1. Ancestry(d, s) \subseteq Ancestry(c, s) BY AncestryShrinks
<1>2. Ancestry(c, s) \subseteq Ancestry(d, s) BY AncestryShrinks
<1> QED BY <1>1, <1>2

\* No surface is above itself.
Acyclic(c) ==
  \A s, t \in Surfaces :
    s # t => ~(s \in Ancestry(c, t) /\ t \in Ancestry(c, s))

\* Parents that are forgotten close no cycle.
LEMMA AcyclicKept ==
  ASSUME NEW c, Placed(c), Acyclic(c), NEW d, Placed(d),
         \A t \in Surfaces : d.surface[t].parent \in {c.surface[t].parent, None}
  PROVE  Acyclic(d)
BY AncestryShrinks DEF Acyclic

\* A surface without a parent gets one that is not below it.
LEMMA AcyclicAdopted ==
  ASSUME NEW c, Placed(c), Acyclic(c), NEW d, Placed(d),
         NEW s \in Surfaces, NEW p \in Surfaces, c.surface[s].parent = None,
         s \notin Ancestry(c, p), d.surface[s].parent = p,
         \A t \in Surfaces \ {s} : d.surface[t].parent = c.surface[t].parent
  PROVE  /\ Acyclic(d)
         /\ \A x \in Surfaces :
              Ancestry(d, x) = IF s \in Ancestry(c, x)
                               THEN Ancestry(c, x) \cup Ancestry(c, p)
                               ELSE Ancestry(c, x)
<1> DEFINE U(x) == IF s \in Ancestry(c, x) THEN Ancestry(c, x) \cup Ancestry(c, p)
                   ELSE Ancestry(c, x)
<1>1. ASSUME NEW x \in Surfaces PROVE Ancestry(d, x) = U(x)
  <2>1. /\ Ancestry(c, x) \subseteq Surfaces /\ x \in Ancestry(c, x)
        /\ Closed(c, Ancestry(c, x))
    BY AncestryIs
  <2>2. /\ Ancestry(c, p) \subseteq Surfaces /\ p \in Ancestry(c, p)
        /\ Closed(c, Ancestry(c, p))
    BY AncestryIs
  <2>3. x \in U(x) BY <2>1
  <2>4. Closed(d, U(x))
    <3>1. CASE s \in Ancestry(c, x) BY <2>1, <2>2, <3>1 DEF Closed
    <3>2. CASE s \notin Ancestry(c, x) BY <2>1, <3>2 DEF Closed
    <3> QED BY <3>1, <3>2
  <2>5. Ancestry(d, x) \subseteq U(x)
    <3> HIDE DEF U
    <3> QED BY <2>3, <2>4, AncestryIs
  <2>6. /\ Ancestry(d, x) \subseteq Surfaces /\ x \in Ancestry(d, x)
        /\ Closed(d, Ancestry(d, x))
    BY AncestryIs
  <2>7. ASSUME NEW A \in SUBSET Surfaces, Closed(d, A) PROVE Closed(c, A)
    <3> SUFFICES ASSUME NEW t \in A, c.surface[t].parent # None
                 PROVE  c.surface[t].parent \in A
      BY DEF Closed
    <3>1. t # s /\ t \in Surfaces OBVIOUS
    <3>2. d.surface[t].parent = c.surface[t].parent BY <3>1
    <3> QED BY <2>7, <3>2 DEF Closed
  <2>8. Ancestry(c, x) \subseteq Ancestry(d, x) BY <2>6, <2>7, AncestryIs
  <2>9. s \in Ancestry(c, x) => Ancestry(c, p) \subseteq Ancestry(d, x)
    <3> SUFFICES ASSUME s \in Ancestry(c, x) PROVE Ancestry(c, p) \subseteq Ancestry(d, x)
      OBVIOUS
    <3>1. s \in Ancestry(d, x) BY <2>8
    <3>2. p \in Ancestry(d, x) BY <2>6, <3>1, SurfaceTreeAssumption DEF Closed
    <3> QED BY <2>6, <2>7, <3>2, AncestryIs
  <2> QED BY <2>5, <2>8, <2>9
<1>2. ASSUME NEW x \in Surfaces, NEW y \in Ancestry(c, x)
      PROVE  y \in Surfaces /\ Ancestry(c, y) \subseteq Ancestry(c, x)
  BY AncestryTransitive
<1>3. Acyclic(d)
  <2> SUFFICES ASSUME NEW a \in Surfaces, NEW b \in Surfaces, a # b,
                      a \in Ancestry(d, b), b \in Ancestry(d, a)
               PROVE  FALSE
    BY DEF Acyclic
  <2>1. a \in Ancestry(c, b) \/ (s \in Ancestry(c, b) /\ a \in Ancestry(c, p)) BY <1>1
  <2>2. b \in Ancestry(c, a) \/ (s \in Ancestry(c, a) /\ b \in Ancestry(c, p)) BY <1>1
  <2>3. ~(a \in Ancestry(c, b) /\ b \in Ancestry(c, a)) BY DEF Acyclic
  <2>4. CASE a \in Ancestry(c, b) /\ s \in Ancestry(c, a) /\ b \in Ancestry(c, p)
    <3>1. s \in Ancestry(c, b) BY <1>2, <2>4
    <3>2. s \in Ancestry(c, p) BY <1>2, <2>4, <3>1
    <3> QED BY <3>2
  <2>5. CASE b \in Ancestry(c, a) /\ s \in Ancestry(c, b) /\ a \in Ancestry(c, p)
    <3>1. s \in Ancestry(c, a) BY <1>2, <2>5
    <3>2. s \in Ancestry(c, p) BY <1>2, <2>5, <3>1
    <3> QED BY <3>2
  <2>6. CASE s \in Ancestry(c, b) /\ b \in Ancestry(c, p)
    <3>1. s \in Ancestry(c, p) BY <1>2, <2>6
    <3> QED BY <3>1
  <2> QED BY <2>1, <2>2, <2>3, <2>4, <2>5, <2>6
<1> QED BY <1>1, <1>3
-----------------------------------------------------------------------------
(* The inductive invariant, and the action properties as relations between *)
(* what a handler finds and what it leaves.                                *)

Limited(c) == \A s \in Surfaces : c.surface[s].committed <= MaxCommits

Good(c) == Sound(c) /\ Acyclic(c) /\ Limited(c)

IInv == Good(World)

Syncs(c, s) == {t \in Ancestry(c, s) : c.surface[t].synchronized}

Atomic(c, d) ==
  \A s \in Surfaces :
    d.surface[s].applied # c.surface[s].applied /\ Syncs(c, s) # {} /\ Syncs(d, s) # {} =>
      /\ \E p \in Ancestry(c, s) :
           /\ Syncs(d, p) = {}
           /\ \/ d.surface[p].committed > c.surface[p].committed
              \/ Syncs(c, p) # {}
      /\ \A t \in SubTree(c, s) : ~d.surface[t].has_cached_data

Flushed(c, d) ==
  \A s \in Surfaces :
    d.surface[s].has_cached_data /\ Syncs(d, s) = {} =>
      \/ Syncs(c, s) = {}
      \/ \E t \in Ancestry(c, s) :
           ~d.surface[t].alive \/ (c.surface[t].sub /\ ~d.surface[t].sub)

\* What every step keeps
Kept(c, d) == Good(d) /\ Atomic(c, d) /\ Flushed(c, d)

\* The two variables are those of the world a handler leaves.
LEMMA BecomesIs ==
  ASSUME NEW c, Placed(c), Becomes(c)
  PROVE  World' = c
<1>1. c = [surface |-> c.surface, buffer |-> c.buffer] BY DEF Placed
<1>2. World' = [surface |-> surface', buffer |-> buffer'] BY DEF World
<1> QED BY <1>1, <1>2 DEF Becomes

\* A handler that sets one surface
LEMMA WithIs ==
  ASSUME NEW s \in Surfaces, NEW x, surface' = [surface EXCEPT ![s] = x],
         UNCHANGED buffer
  PROVE  World' = With(World, s, x)
BY DEF World, With

\* No tree and no mode changes.
Steady(c, d) ==
  \A t \in Surfaces : /\ d.surface[t].parent = c.surface[t].parent
                      /\ d.surface[t].synchronized = c.surface[t].synchronized

\* What synchronizes a surface depends on the parents and the flags only.
LEMMA SyncsSame ==
  ASSUME NEW c, Placed(c), NEW d, Placed(d), Steady(c, d)
  PROVE  \A s \in Surfaces : Syncs(d, s) = Syncs(c, s) /\ Ancestry(d, s) = Ancestry(c, s)
<1> TAKE s \in Surfaces
<1>1. Ancestry(d, s) = Ancestry(c, s) BY AncestrySame DEF Steady
<1>2. Ancestry(c, s) \subseteq Surfaces BY AncestryIs
<1> QED BY <1>1, <1>2 DEF Syncs, Steady

\* Where no synchronization ends, no cache need be empty.
LEMMA SteadyFlushed ==
  ASSUME NEW c, Placed(c), NEW d, Placed(d), Steady(c, d)
  PROVE  Flushed(c, d)
BY SyncsSame DEF Flushed

\* Where nothing is applied, there is nothing to be atomic.
LEMMA AppliedAtomic ==
  ASSUME NEW c, NEW d, \A t \in Surfaces : d.surface[t].applied = c.surface[t].applied
  PROVE  Atomic(c, d)
BY DEF Atomic

\* If one surface changes, and not by a commit, what is left to see.
LEMMA KeptIf ==
  ASSUME NEW c, Good(c), NEW d, Sound(d), NEW s \in Surfaces, NEW fs,
         Change(c, d, s, fs), fs \cap {"applied", "committed"} = {},
         Acyclic(d), Flushed(c, d)
  PROVE  Kept(c, d)
<1>1. /\ d.surface[s].applied = c.surface[s].applied
      /\ d.surface[s].committed = c.surface[s].committed
  BY DEF Change, OnlyOf, Fields
<1>2. \A t \in Surfaces : /\ d.surface[t].applied = c.surface[t].applied
                          /\ d.surface[t].committed = c.surface[t].committed
  BY <1>1 DEF Change
<1>3. Limited(d) BY <1>2 DEF Good, Limited
<1>4. Atomic(c, d) BY <1>2, AppliedAtomic
<1> QED BY <1>3, <1>4 DEF Kept, Good

\* And if the tree and the modes stay as they are
LEMMA KeptSteady ==
  ASSUME NEW c, Good(c), NEW d, Sound(d), NEW s \in Surfaces, NEW fs,
         Change(c, d, s, fs),
         fs \cap {"applied", "committed", "parent", "synchronized"} = {}
  PROVE  Kept(c, d)
<1>1. Placed(c) /\ Placed(d) /\ Acyclic(c) BY DEF Good, Sound
<1>2. /\ d.surface[s].parent = c.surface[s].parent
      /\ d.surface[s].synchronized = c.surface[s].synchronized
  BY DEF Change, OnlyOf, Fields
<1>3. Steady(c, d) BY <1>2 DEF Steady, Change
<1>4. Flushed(c, d) BY <1>1, <1>3, SteadyFlushed
<1>5. Acyclic(d) BY <1>1, <1>3, AcyclicKept DEF Steady
<1>6. fs \cap {"applied", "committed"} = {} OBVIOUS
<1> QED BY <1>4, <1>5, <1>6, KeptIf

\* A surface put in place of another that keeps its references, callbacks and
\* cache
LEMMA SoundWith ==
  ASSUME NEW c, Sound(c), NEW s \in Surfaces, NEW x, Rec(x),
         NEW fs, OnlyOf(c.surface[s], x, fs),
         fs \subseteq {"pending", "sub", "parent", "synchronized"},
         Typed(x, fs), NotRequested(x), Alone(x)
  PROVE  /\ Sound(With(c, s, x)) /\ Change(c, With(c, s, x), s, fs)
         /\ With(c, s, x).surface[s] = x
<1> DEFINE d == With(c, s, x)
           w == c.surface[s]
<1>1. /\ Placed(c) /\ Counted(c) /\ Owned(c, None) /\ \A t \in Surfaces : Fine(c.surface[t])
  BY DEF Sound
<1>3. Placed(d) /\ d.surface[s] = x /\ Change(c, d, s, fs) /\ d.buffer = c.buffer
  BY <1>1, WithFacts
<1> HIDE DEF d
<1>4. Counted(d) /\ Owned(d, None)
  <2>1. "ref" \notin fs OBVIOUS
  <2> QED BY <1>1, <1>3, <2>1, RefsKeptBy
<1>5. Fine(x)
  <2>1. /\ x.ref = w.ref /\ x.cached = w.cached /\ x.has_cached_data = w.has_cached_data
        /\ x.applied = w.applied /\ x.frame_callback_list = w.frame_callback_list
        /\ x.done = w.done /\ x.dropped = w.dropped /\ x.committed = w.committed
    BY DEF OnlyOf, Fields
  <2>2. Fine(w) BY <1>1
  <2> HIDE DEF w
  <2>3. CacheHeld(x) BY <2>1, <2>2 DEF Fine, CacheHeld
  <2>4. Answered(x, x.committed) BY <2>1, <2>2 DEF Fine, Answered
  <2> QED BY <2>3, <2>4 DEF Fine
<1>6. \A t \in Surfaces : Fine(d.surface[t]) BY <1>1, <1>3, <1>5 DEF Change
<1> QED BY <1>3, <1>4, <1>6 DEF Sound, d
-----------------------------------------------------------------------------
(* The actions.                                                            *)

\* wl_surface.attach
LEMMA SurfaceAttachKept ==
  ASSUME Good(World), NEW s \in Surfaces, NEW b \in Owners, SurfaceAttach(s, b)
  PROVE  Kept(World, World')
<1> DEFINE w == surface[s]
           p == [w.pending EXCEPT !.newly_attached = TRUE, !.buffer = b]
           x == [w EXCEPT !.pending = p]
           fs == {"pending"}
<1>1. Sound(World) /\ World.surface = surface BY DEF Good, World
<1>2. Shaped(w) /\ Fine(w) BY <1>1 DEF Sound, Placed
<1>3. surface' = [surface EXCEPT ![s] = x] /\ UNCHANGED buffer BY DEF SurfaceAttach
<1>4. w.pending \in StateType BY <1>2, TypesAre
<1> HIDE DEF w
<1>5. /\ p \in StateType /\ p.newly_attached = TRUE /\ p.buffer = b
      /\ p.frame_callback_list = w.pending.frame_callback_list
  BY <1>4 DEF StateType, Owners
<1> HIDE DEF p
<1>6. Rec(x) /\ OnlyOf(w, x, fs) /\ x.pending = p
  BY <1>2 DEF Shaped, Rec, Fields, OnlyOf
<1> HIDE DEF x
<1>7. Typed(x, fs)
  <2>1. x.pending \in Types.pending BY <1>5, <1>6, TypeOf
  <2> QED BY <2>1 DEF Typed
<1>8. NotRequested(x) BY <1>2, <1>5, <1>6 DEF Fine, NotRequested
<1>9. Alone(x)
  <2>1. /\ x.sub = w.sub /\ x.parent = w.parent /\ x.synchronized = w.synchronized
        /\ x.has_cached_data = w.has_cached_data
    BY <1>6 DEF OnlyOf, Fields
  <2> QED BY <1>2, <2>1 DEF Fine, Alone
<1>10. World' = With(World, s, x) BY <1>3, WithIs
<1>11. OnlyOf(World.surface[s], x, fs) BY <1>1, <1>6 DEF w
<1>12. fs \subseteq {"pending", "sub", "parent", "synchronized"} OBVIOUS
<1>13. fs \cap {"applied", "committed", "parent", "synchronized"} = {} OBVIOUS
<1> HIDE DEF fs
<1>14. Sound(With(World, s, x)) /\ Change(World, With(World, s, x), s, fs)
  BY <1>1, <1>6, <1>7, <1>8, <1>9, <1>11, <1>12, SoundWith
<1> DEFINE c == World
           d == World'
<1>15. Good(c) /\ Sound(d) /\ Change(c, d, s, fs) BY <1>10, <1>14
<1> HIDE DEF c, d
<1>16. Kept(c, d) BY <1>13, <1>15, KeptSteady
<1> QED BY <1>16 DEF c, d

\* wl_subsurface.set_sync
LEMMA SetSyncKept ==
  ASSUME Good(World), NEW s \in Surfaces, SetSync(s)
  PROVE  Kept(World, World')
<1> DEFINE w == surface[s]
           x == [w EXCEPT !.synchronized = TRUE]
           fs == {"synchronized"}
<1>1. Sound(World) /\ World.surface = surface BY DEF Good, World
<1>2. Shaped(w) /\ Fine(w) BY <1>1 DEF Sound, Placed
<1>3. /\ surface' = [surface EXCEPT ![s] = x] /\ UNCHANGED buffer
      /\ w.sub
  BY DEF SetSync
<1> HIDE DEF w
<1>4. Rec(x) /\ OnlyOf(w, x, fs) /\ x.synchronized = TRUE
  BY <1>2 DEF Shaped, Rec, Fields, OnlyOf
<1> HIDE DEF x
<1>5. Typed(x, fs)
  <2>1. x.synchronized \in BOOLEAN BY <1>4
  <2>2. x.synchronized \in Types.synchronized BY <2>1, TypeOf
  <2> QED BY <2>2 DEF Typed
<1>6. NotRequested(x)
  <2>1. x.pending = w.pending BY <1>4 DEF OnlyOf, Fields
  <2> QED BY <1>2, <2>1 DEF Fine, NotRequested
<1>7. Alone(x)
  <2>1. x.sub = w.sub BY <1>4 DEF OnlyOf, Fields
  <2> QED BY <1>3, <2>1 DEF Alone
<1>8. World' = With(World, s, x) BY <1>3, WithIs
<1>9. OnlyOf(World.surface[s], x, fs) BY <1>1, <1>4 DEF w
<1>10. fs \subseteq {"pending", "sub", "parent", "synchronized"} OBVIOUS
<1>11. fs \cap {"applied", "committed"} = {} OBVIOUS
<1> HIDE DEF fs
<1>12. /\ Sound(With(World, s, x)) /\ Change(World, With(World, s, x), s, fs)
       /\ With(World, s, x).surface[s] = x
  <2>1. Rec(x) BY <1>4
  <2> HIDE DEF fs
  <2> QED BY <1>1, <2>1, <1>5, <1>6, <1>7, <1>9, <1>10, SoundWith
<1> DEFINE c == World
           d == World'
<1>13. /\ Good(c) /\ Sound(d) /\ Change(c, d, s, fs) /\ d.surface[s] = x
       /\ c.surface[s] = w
  BY <1>1, <1>8, <1>12 DEF w
<1> HIDE DEF c, d
<1>14. Placed(c) /\ Placed(d) /\ Acyclic(c) BY <1>13 DEF Good, Sound
<1>15. \A t \in Surfaces : /\ d.surface[t].parent = c.surface[t].parent
                           /\ c.surface[t].synchronized => d.surface[t].synchronized
  <2>1. d.surface[s].parent = c.surface[s].parent
    BY <1>4, <1>13 DEF OnlyOf, Fields, fs
  <2> QED BY <1>4, <1>13, <2>1 DEF Change
<1>16. Acyclic(d) BY <1>14, <1>15, AcyclicKept
<1>17. Flushed(c, d)
  <2> SUFFICES ASSUME NEW t \in Surfaces, Syncs(d, t) = {} PROVE Syncs(c, t) = {}
    BY DEF Flushed
  <2>1. Ancestry(d, t) = Ancestry(c, t) /\ Ancestry(c, t) \subseteq Surfaces
    BY <1>14, <1>15, AncestrySame, AncestryIs
  <2> QED BY <1>15, <2>1 DEF Syncs
<1>18. Kept(c, d) BY <1>11, <1>13, <1>16, <1>17, KeptIf
<1> QED BY <1>18 DEF c, d

\* wl_subcompositor.get_subsurface
LEMMA GetSubsurfaceKept ==
  ASSUME Good(World), NEW s \in Surfaces, NEW p \in Surfaces, GetSubsurface(s, p)
  PROVE  Kept(World, World')
<1> DEFINE w == surface[s]
           x == [w EXCEPT !.sub = TRUE, !.parent = p, !.synchronized = TRUE]
           fs == {"sub", "parent", "synchronized"}
<1>1. Sound(World) /\ World.surface = surface BY DEF Good, World
<1>2. Shaped(w) /\ Fine(w) BY <1>1 DEF Sound, Placed
<1>3. /\ surface' = [surface EXCEPT ![s] = x] /\ UNCHANGED buffer
      /\ ~w.sub /\ s \notin Ancestry(World, p)
  BY DEF GetSubsurface
<1> HIDE DEF w
<1>4. Rec(x) /\ OnlyOf(w, x, fs) /\ x.synchronized = TRUE /\ x.sub = TRUE /\ x.parent = p
  BY <1>2 DEF Shaped, Rec, Fields, OnlyOf
<1> HIDE DEF x
<1>5. Typed(x, fs)
  <2>1. /\ x.synchronized \in Types.synchronized /\ x.sub \in Types.sub
        /\ x.parent \in Types.parent
    BY <1>4, TypeOf
  <2> QED BY <2>1 DEF Typed
<1>6. NotRequested(x)
  <2>1. x.pending = w.pending BY <1>4 DEF OnlyOf, Fields
  <2> QED BY <1>2, <2>1 DEF Fine, NotRequested
<1>7. Alone(x) BY <1>4 DEF Alone
<1>8. World' = With(World, s, x) BY <1>3, WithIs
<1>9. OnlyOf(World.surface[s], x, fs) BY <1>1, <1>4 DEF w
<1>10. fs \subseteq {"pending", "sub", "parent", "synchronized"} OBVIOUS
<1>11. fs \cap {"applied", "committed"} = {} OBVIOUS
<1> HIDE DEF fs
<1>12. /\ Sound(With(World, s, x)) /\ Change(World, With(World, s, x), s, fs)
       /\ With(World, s, x).surface[s] = x
  <2>1. Sound(World) /\ Rec(x) BY <1>1, <1>4
  <2> QED BY <2>1, <1>5, <1>6, <1>7, <1>9, <1>10, SoundWith
<1> DEFINE c == World
           d == World'
<1>13. /\ Good(c) /\ Sound(d) /\ Change(c, d, s, fs) /\ d.surface[s] = x
       /\ c.surface[s] = w /\ s \notin Ancestry(c, p)
  BY <1>1, <1>3, <1>8, <1>12 DEF w
<1> HIDE DEF c, d
<1>14. Placed(c) /\ Placed(d) /\ Acyclic(c) BY <1>13 DEF Good, Sound
<1>15. c.surface[s].parent = None BY <1>2, <1>3, <1>13 DEF Fine, Alone
<1>16. /\ d.surface[s].parent = p
       /\ \A t \in Surfaces \ {s} : d.surface[t].parent = c.surface[t].parent
  BY <1>4, <1>13 DEF Change
<1>17. /\ Acyclic(d)
       /\ \A t \in Surfaces :
            Ancestry(d, t) = IF s \in Ancestry(c, t)
                             THEN Ancestry(c, t) \cup Ancestry(c, p)
                             ELSE Ancestry(c, t)
  BY <1>13, <1>14, <1>15, <1>16, AcyclicAdopted
<1>18. Flushed(c, d)
  <2> SUFFICES ASSUME NEW t \in Surfaces, Syncs(d, t) = {} PROVE Syncs(c, t) = {}
    BY DEF Flushed
  <2>1. Ancestry(c, t) \subseteq Ancestry(d, t) BY <1>17
  <2>2. Ancestry(c, t) \subseteq Surfaces BY <1>14, AncestryIs
  <2>3. \A a \in Surfaces : c.surface[a].synchronized => d.surface[a].synchronized
    BY <1>4, <1>13 DEF Change
  <2> QED BY <2>1, <2>2, <2>3 DEF Syncs
<1>19. Kept(c, d) BY <1>11, <1>13, <1>17, <1>18, KeptIf
<1> QED BY <1>19 DEF c, d

\* When surfaces lose their parents, what is not below one of those in Q keeps
\* all that is above it.
LEMMA Orphaned ==
  ASSUME NEW c, Placed(c), NEW d, Placed(d), NEW q \in Surfaces,
         \A t \in Surfaces : d.surface[t].parent \in {c.surface[t].parent, None},
         \A t \in Surfaces \ {q} : c.surface[t].parent # q =>
           d.surface[t].parent = c.surface[t].parent,
         NEW s \in Surfaces, q \notin Ancestry(c, s)
  PROVE  Ancestry(d, s) = Ancestry(c, s)
<1> DEFINE A == Ancestry(d, s)
           B == Ancestry(c, s)
<1>1. A \subseteq B BY AncestryShrinks
<1>2. /\ s \in A /\ Closed(d, A) /\ B \subseteq Surfaces /\ Closed(c, B)
  BY AncestryIs
<1> HIDE DEF A, B
<1>3. Closed(c, A)
  <2> SUFFICES ASSUME NEW t \in A, c.surface[t].parent # None
               PROVE  c.surface[t].parent \in A
    BY DEF Closed
  <2>1. t \in B /\ t \in Surfaces BY <1>1, <1>2
  <2>2. c.surface[t].parent \in B BY <1>2, <2>1 DEF Closed
  <2>3. t # q /\ c.surface[t].parent # q BY <2>1, <2>2 DEF B
  <2>4. d.surface[t].parent = c.surface[t].parent BY <2>1, <2>3
  <2> QED BY <1>2, <2>4 DEF Closed
<1>4. B \subseteq A BY <1>2, <1>3, AncestryIs DEF B
<1> QED BY <1>1, <1>4 DEF A, B

\* What the end of a sub-surface or of a surface q leaves flushed
LEMMA FlushedAfterEnd ==
  ASSUME NEW c, Placed(c), NEW d, Placed(d), NEW q \in Surfaces,
         \A t \in Surfaces : d.surface[t].parent \in {c.surface[t].parent, None},
         \A t \in Surfaces \ {q} :
           /\ c.surface[t].parent # q => d.surface[t].parent = c.surface[t].parent
           /\ d.surface[t].synchronized = c.surface[t].synchronized,
         ~d.surface[q].alive \/ (c.surface[q].sub /\ ~d.surface[q].sub)
  PROVE  Flushed(c, d)
<1> SUFFICES ASSUME NEW s \in Surfaces, Syncs(d, s) = {}, q \notin Ancestry(c, s)
             PROVE  Syncs(c, s) = {}
  BY DEF Flushed
<1>1. Ancestry(d, s) = Ancestry(c, s) BY Orphaned
<1>2. Ancestry(c, s) \subseteq Surfaces BY AncestryIs
<1> QED BY <1>1, <1>2 DEF Syncs

\* wl_subsurface.destroy
LEMMA DestroySubsurfaceKept ==
  ASSUME Good(World), NEW s \in Surfaces, DestroySubsurface(s)
  PROVE  Kept(World, World')
<1> DEFINE c == World
           d == EndSubsurface(c, s)
           fs == {"ref", "sub", "parent", "synchronized", "dropped", "cached",
                  "has_cached_data"}
<1>1. surface[s].sub /\ Becomes(d) BY DEF DestroySubsurface
<1>2. c.surface[s].sub BY <1>1 DEF World
<1> HIDE DEF c
<1>3. /\ Sound(d) /\ Change(c, d, s, fs) /\ ~d.surface[s].sub
      /\ d.surface[s].parent = None
  BY EndSubsurfaceFacts DEF Good, c
<1> HIDE DEF d
<1>4. Good(c) /\ Placed(c) /\ Placed(d) /\ Acyclic(c) BY <1>3 DEF Good, Sound, c
<1>5. World' = d BY <1>1, <1>4, BecomesIs
<1>6. /\ \A t \in Surfaces : d.surface[t].parent \in {c.surface[t].parent, None}
      /\ \A t \in Surfaces \ {s} :
           /\ d.surface[t].parent = c.surface[t].parent
           /\ d.surface[t].synchronized = c.surface[t].synchronized
  BY <1>3 DEF Change
<1>7. Acyclic(d) BY <1>4, <1>6, AcyclicKept
<1>8. Flushed(c, d) BY <1>2, <1>3, <1>4, <1>6, FlushedAfterEnd
<1>9. fs \cap {"applied", "committed"} = {} OBVIOUS
<1> HIDE DEF fs
<1>10. Kept(c, d) BY <1>3, <1>4, <1>7, <1>8, <1>9, KeptIf
<1> QED BY <1>5, <1>10 DEF c

\* The children of s lose their parent.
Without(c, s) ==
  [c EXCEPT !.surface =
     [t \in Surfaces |->
       IF c.surface[t].parent = s THEN [c.surface[t] EXCEPT !.parent = None]
       ELSE c.surface[t]]]

\* The children of a destroyed surface lose their parent.
LEMMA WithoutFacts ==
  ASSUME NEW c, Sound(c), NEW s \in Surfaces
  PROVE  LET d == Without(c, s)
         IN /\ Sound(d)
            /\ \A t \in Surfaces :
                 IF c.surface[t].parent = s
                 THEN /\ d.surface[t].parent = None
                      /\ OnlyOf(c.surface[t], d.surface[t], {"parent"})
                 ELSE d.surface[t] = c.surface[t]
<1> DEFINE d == Without(c, s)
           g == [t \in Surfaces |->
                   IF c.surface[t].parent = s THEN [c.surface[t] EXCEPT !.parent = None]
                   ELSE c.surface[t]]
<1>1. /\ Placed(c) /\ Counted(c) /\ Owned(c, None)
      /\ \A t \in Surfaces : Fine(c.surface[t])
      /\ \A t \in Surfaces : Shaped(c.surface[t])
  BY DEF Sound, Placed
<1>2. d = [c EXCEPT !.surface = g] BY DEF Without
<1>3. c = [surface |-> c.surface, buffer |-> c.buffer] BY <1>1 DEF Placed
<1> HIDE DEF d
<1>4. ASSUME NEW t \in Surfaces
      PROVE  /\ Shaped(g[t]) /\ Fine(g[t]) /\ OnlyOf(c.surface[t], g[t], {"parent"})
             /\ c.surface[t].parent # s => g[t] = c.surface[t]
             /\ c.surface[t].parent = s => g[t].parent = None
  <2>1. CASE c.surface[t].parent # s
    <3>1. g[t] = c.surface[t] BY <2>1
    <3> QED BY <1>1, <2>1, <3>1 DEF OnlyOf
  <2>2. CASE c.surface[t].parent = s
    <3> DEFINE x == c.surface[t]
               y == [x EXCEPT !.parent = None]
    <3>1. g[t] = y BY <2>2
    <3>2. Shaped(x) /\ Fine(x) BY <1>1
    <3> HIDE DEF x
    <3>3. Rec(y) /\ OnlyOf(x, y, {"parent"}) /\ y.parent = None
      BY <3>2 DEF Shaped, Rec, Fields, OnlyOf
    <3> HIDE DEF y
    <3>4. Shaped(y)
      <4>1. y.parent \in Types.parent BY <3>3, TypeOf
      <4> QED BY <3>2, <3>3, <4>1, ShapedAfter
    <3>5. /\ y.ref = x.ref /\ y.cached = x.cached /\ y.has_cached_data = x.has_cached_data
          /\ y.applied = x.applied /\ y.frame_callback_list = x.frame_callback_list
          /\ y.done = x.done /\ y.dropped = x.dropped /\ y.committed = x.committed
          /\ y.pending = x.pending /\ y.sub = x.sub /\ y.synchronized = x.synchronized
      BY <3>3 DEF OnlyOf, Fields
    <3>6. CacheHeld(y) BY <3>2, <3>5 DEF Fine, CacheHeld
    <3>7. Answered(y, y.committed) BY <3>2, <3>5 DEF Fine, Answered
    <3>8. NotRequested(y) BY <3>2, <3>5 DEF Fine, NotRequested
    <3>9. Alone(y) BY <3>2, <3>3, <3>5 DEF Fine, Alone
    <3>10. Fine(y) BY <3>6, <3>7, <3>8, <3>9 DEF Fine
    <3>11. OnlyOf(c.surface[t], y, {"parent"}) BY <3>3 DEF x
    <3> QED BY <2>2, <3>1, <3>3, <3>4, <3>10, <3>11
  <2> QED BY <2>1, <2>2
<1>5. g = [t \in Surfaces |-> g[t]] OBVIOUS
<1> HIDE DEF g
<1>6. d.surface = g /\ d.buffer = c.buffer /\ d = [surface |-> d.surface, buffer |-> d.buffer]
  <2> DEFINE f == c.surface
             h == c.buffer
  <2>1. c = [surface |-> f, buffer |-> h] BY <1>3
  <2>2. d.surface = g /\ d.buffer = h /\ d = [surface |-> g, buffer |-> h]
    <3> HIDE DEF f, h
    <3> QED BY <1>2, <2>1
  <2> QED BY <2>2
<1>7. Placed(d) BY <1>1, <1>4, <1>5, <1>6 DEF Placed
<1>8. \A t \in Surfaces : d.surface[t].ref = c.surface[t].ref
  BY <1>4, <1>6 DEF OnlyOf, Fields
<1>9. Counted(d) /\ Owned(d, None) BY <1>1, <1>6, <1>8, RefsKept
<1>10. Sound(d) BY <1>4, <1>6, <1>7, <1>9 DEF Sound
<1> QED BY <1>4, <1>6, <1>10 DEF d

\* weston_surface_destroy's end
Dead(c, s) ==
  With(c, s, [c.surface[s] EXCEPT
                !.alive = FALSE, !.pending = InitialState,
                !.dropped = @ \cup c.surface[s].frame_callback_list,
                !.frame_callback_list = {}])

\* What remains of a destroyed surface.
LEMMA DeadFacts ==
  ASSUME NEW c, Placed(c), Counted(c), Owned(c, None), NEW s \in Surfaces,
         \A t \in Surfaces : Fine(c.surface[t])
  PROVE  /\ Sound(Dead(c, s))
         /\ Change(c, Dead(c, s), s, {"alive", "pending", "dropped", "frame_callback_list"})
         /\ ~Dead(c, s).surface[s].alive
<1> DEFINE w == c.surface[s]
           l == w.dropped \cup w.frame_callback_list
           y == [w EXCEPT !.alive = FALSE, !.pending = InitialState, !.dropped = l,
                          !.frame_callback_list = {}]
           fs == {"alive", "pending", "dropped", "frame_callback_list"}
           d == Dead(c, s)
<1>1. d = With(c, s, y) BY DEF Dead
<1>2. Shaped(w) /\ Fine(w) BY DEF Placed
<1> HIDE DEF w
<1>3. l \in SUBSET Nat BY <1>2, TypesAre
<1> HIDE DEF d
<1>4. /\ Rec(y) /\ OnlyOf(w, y, fs) /\ y.alive = FALSE /\ y.pending = InitialState
      /\ y.dropped = l /\ y.frame_callback_list = {}
  <2> HIDE DEF l
  <2> QED BY <1>2 DEF Shaped, Rec, Fields, OnlyOf
<1> HIDE DEF y
<1>5. Typed(y, fs)
  <2>1. /\ y.alive \in Types.alive /\ y.pending \in Types.pending
        /\ y.dropped \in Types.dropped
        /\ y.frame_callback_list \in Types.frame_callback_list
    BY <1>3, <1>4, StateFields, TypeOf
  <2> QED BY <2>1 DEF Typed
<1>6. OnlyOf(c.surface[s], y, fs) BY <1>4 DEF w
<1> HIDE DEF fs
<1>7. Placed(d) /\ d.surface[s] = y /\ Change(c, d, s, fs) /\ d.buffer = c.buffer
  BY <1>1, <1>4, <1>5, <1>6, WithFacts
<1>8. Counted(d) /\ Owned(d, None)
  <2>1. "ref" \notin fs BY DEF fs
  <2> QED BY <1>7, <2>1, RefsKeptBy
<1>9. /\ y.ref = w.ref /\ y.cached = w.cached /\ y.has_cached_data = w.has_cached_data
      /\ y.applied = w.applied /\ y.done = w.done /\ y.committed = w.committed
      /\ y.sub = w.sub /\ y.parent = w.parent /\ y.synchronized = w.synchronized
  BY <1>4 DEF OnlyOf, Fields, fs
<1>10. CacheHeld(y) BY <1>2, <1>9 DEF Fine, CacheHeld
<1>11. Alone(y) BY <1>2, <1>9 DEF Fine, Alone
<1>12. NotRequested(y) BY <1>4, StateFields DEF NotRequested
<1>13. Answered(y, w.committed)
  <2>1. Answered(w, w.committed) BY <1>2 DEF Fine
  <2> QED BY <1>4, <1>9, <2>1 DEF Answered
<1>14. Fine(y) BY <1>9, <1>10, <1>11, <1>12, <1>13 DEF Fine
<1>15. \A t \in Surfaces : Fine(d.surface[t]) BY <1>7, <1>14 DEF Change
<1>16. Sound(d) BY <1>7, <1>8, <1>15 DEF Sound
<1> QED BY <1>4, <1>7, <1>16 DEF d, fs

\* wl_surface.destroy
LEMMA DestroySurfaceKept ==
  ASSUME Good(World), NEW s \in Surfaces, DestroySurface(s)
  PROVE  Kept(World, World')
<1> DEFINE w == World
           c == IF w.surface[s].sub THEN EndSubsurface(w, s) ELSE w
           d == Without(c, s)
           e == Attach(d, s, None)
           f == Dead(e, s)
<1>1. Becomes(f)
  <2>1. surface[s] = w.surface[s] BY DEF World
  <2> QED BY <2>1 DEF DestroySurface, Without, Dead
<1>2. Good(w) /\ Sound(w) /\ Placed(w) /\ Acyclic(w) BY DEF Good, Sound
<1> HIDE DEF w
<1>3. /\ Sound(c) /\ c.surface[s].parent = None
      /\ \A t \in Surfaces \ {s} : c.surface[t] = w.surface[t]
      /\ c.surface[s].committed = w.surface[s].committed
      /\ c.surface[s].applied = w.surface[s].applied
      /\ w.surface[s].sub \/ c.surface[s].synchronized = w.surface[s].synchronized
  <2>1. CASE w.surface[s].sub
    <3> DEFINE z == EndSubsurface(w, s)
    <3>1. c = z BY <2>1
    <3>2. /\ Sound(z) /\ z.surface[s].parent = None
          /\ Change(w, z, s, {"ref", "sub", "parent", "synchronized", "dropped", "cached",
                              "has_cached_data"})
      BY <1>2, EndSubsurfaceFacts
    <3> HIDE DEF z, c
    <3>3. /\ z.surface[s].committed = w.surface[s].committed
          /\ z.surface[s].applied = w.surface[s].applied
      BY <3>2 DEF Change, OnlyOf, Fields
    <3> QED BY <2>1, <3>1, <3>2, <3>3 DEF Change
  <2>2. CASE ~w.surface[s].sub
    <3>1. c = w BY <2>2
    <3>2. w.surface[s].parent = None BY <1>2, <2>2 DEF Sound, Fine, Alone
    <3> QED BY <1>2, <3>1, <3>2
  <2> QED BY <2>1, <2>2
<1> HIDE DEF c
<1>4. /\ Sound(d)
      /\ \A t \in Surfaces :
           IF c.surface[t].parent = s
           THEN /\ d.surface[t].parent = None
                /\ OnlyOf(c.surface[t], d.surface[t], {"parent"})
           ELSE d.surface[t] = c.surface[t]
  BY <1>3, WithoutFacts
<1> HIDE DEF d
<1>5. d.surface[s] = c.surface[s]
  <2>1. None # s BY SurfaceTreeAssumption
  <2> QED BY <1>3, <1>4, <2>1
<1>6. /\ Placed(e) /\ Counted(e) /\ Owned(e, None) /\ Change(d, e, s, {"ref"})
      /\ e.surface[s].ref = [d.surface[s].ref EXCEPT !["surface"] = None,
                                                     !["renderer"] = None]
  <2>1. Placed(d) /\ Counted(d) /\ Owned(d, None) /\ None \in Owners
    BY <1>4 DEF Sound, Owners
  <2> QED BY <2>1, AttachFacts
<1> HIDE DEF e
<1>7. Fine(e.surface[s])
  <2> DEFINE x == d.surface[s]
             y == e.surface[s]
  <2>1. Shaped(x) /\ Fine(x) BY <1>4 DEF Sound, Placed
  <2>2. x.ref \in [Holders -> Owners] BY <2>1, TypesAre
  <2>3. /\ y.cached = x.cached /\ y.has_cached_data = x.has_cached_data
        /\ y.pending = x.pending /\ y.applied = x.applied /\ y.sub = x.sub
        /\ y.frame_callback_list = x.frame_callback_list /\ y.done = x.done
        /\ y.dropped = x.dropped /\ y.committed = x.committed
        /\ y.parent = x.parent /\ y.synchronized = x.synchronized
    BY <1>6 DEF Change, OnlyOf, Fields
  <2>4. y.ref["cached"] = x.ref["cached"] BY <1>6, <2>2 DEF Holders
  <2> HIDE DEF x, y
  <2>5. CacheHeld(y) BY <2>1, <2>3, <2>4 DEF Fine, CacheHeld
  <2>6. Answered(y, y.committed) BY <2>1, <2>3 DEF Fine, Answered
  <2>7. NotRequested(y) BY <2>1, <2>3 DEF Fine, NotRequested
  <2>8. Alone(y) BY <2>1, <2>3 DEF Fine, Alone
  <2> QED BY <2>5, <2>6, <2>7, <2>8 DEF Fine, y
<1>8. \A t \in Surfaces : Fine(e.surface[t]) BY <1>4, <1>6, <1>7 DEF Sound, Change
<1>9. /\ Sound(f) /\ ~f.surface[s].alive
      /\ Change(e, f, s, {"alive", "pending", "dropped", "frame_callback_list"})
  BY <1>6, <1>8, DeadFacts
<1> HIDE DEF f
<1>10. Placed(f) BY <1>9 DEF Sound
<1>11. World' = f BY <1>1, <1>10, BecomesIs
<1>12. Change(d, f, s, {"ref", "alive", "pending", "dropped", "frame_callback_list"})
  BY <1>6, <1>9 DEF Change, OnlyOf
<1>13. ASSUME NEW t \in Surfaces \ {s}
       PROVE  /\ f.surface[t].parent \in {w.surface[t].parent, None}
              /\ w.surface[t].parent # s => f.surface[t].parent = w.surface[t].parent
              /\ f.surface[t].synchronized = w.surface[t].synchronized
              /\ f.surface[t].applied = w.surface[t].applied
              /\ f.surface[t].committed = w.surface[t].committed
  <2>1. f.surface[t] = d.surface[t] /\ c.surface[t] = w.surface[t]
    BY <1>3, <1>12 DEF Change
  <2>2. CASE w.surface[t].parent = s
    <3>1. d.surface[t].parent = None /\ OnlyOf(w.surface[t], d.surface[t], {"parent"})
      BY <1>4, <2>1, <2>2
    <3> QED BY <2>1, <2>2, <3>1 DEF OnlyOf, Fields
  <2>3. CASE w.surface[t].parent # s
    <3>1. d.surface[t] = w.surface[t] BY <1>4, <2>1, <2>3
    <3> QED BY <2>1, <3>1
  <2> QED BY <2>2, <2>3
<1>14. /\ f.surface[s].parent = None
       /\ f.surface[s].applied = w.surface[s].applied
       /\ f.surface[s].committed = w.surface[s].committed
  BY <1>3, <1>5, <1>12 DEF Change, OnlyOf, Fields
<1>15. Acyclic(f) BY <1>2, <1>10, <1>13, <1>14, AcyclicKept
<1>16. Flushed(w, f) BY <1>2, <1>9, <1>10, <1>13, <1>14, FlushedAfterEnd
<1>17. Atomic(w, f) BY <1>13, <1>14, AppliedAtomic
<1>18. Limited(f) BY <1>2, <1>13, <1>14 DEF Good, Limited
<1>19. Kept(w, f) BY <1>9, <1>15, <1>16, <1>17, <1>18 DEF Kept, Good
<1> QED BY <1>11, <1>19 DEF w

\* A state that forgets a buffer
LEMMA ForgetFacts ==
  ASSUME NEW p \in StateType, NEW b
  PROVE  /\ Forget(p, b) \in StateType
         /\ Forget(p, b).buffer = IF p.buffer = b THEN None ELSE p.buffer
         /\ Forget(p, b).newly_attached = p.newly_attached
         /\ Forget(p, b).frame_callback_list = p.frame_callback_list
<1> DEFINE v == IF p.buffer = b THEN None ELSE p.buffer
<1>1. Forget(p, b) = [p EXCEPT !.buffer = v] BY DEF Forget
<1>2. v \in Owners BY StateFields DEF Owners
<1> HIDE DEF v
<1>3. /\ [p EXCEPT !.buffer = v] \in StateType /\ [p EXCEPT !.buffer = v].buffer = v
      /\ [p EXCEPT !.buffer = v].newly_attached = p.newly_attached
      /\ [p EXCEPT !.buffer = v].frame_callback_list = p.frame_callback_list
  BY <1>2 DEF StateType, Owners
<1> QED BY <1>1, <1>3 DEF v

\* wl_buffer.destroy
LEMMA DestroyBufferKept ==
  ASSUME Good(World), NEW b \in Buffers, DestroyBuffer(b)
  PROVE  Kept(World, World')
<1> DEFINE c == World
           d == World'
           R(x) == [h \in Holders |-> IF x.ref[h] = b THEN None ELSE x.ref[h]]
           Y(x) == [x EXCEPT !.pending = Forget(x.pending, b),
                             !.cached = Forget(x.cached, b), !.ref = R(x)]
           fs == {"pending", "cached", "ref"}
<1>1. /\ c = [surface |-> c.surface, buffer |-> c.buffer]
      /\ d = [surface |-> d.surface, buffer |-> d.buffer]
      /\ d.surface = [s \in Surfaces |-> Y(c.surface[s])]
      /\ d.buffer = [c.buffer EXCEPT ![b] = [busy_count |-> 0, free |-> TRUE]]
  BY DEF World, DestroyBuffer
<1>2. /\ Good(c) /\ Placed(c) /\ Counted(c) /\ Owned(c, None)
      /\ \A s \in Surfaces : Fine(c.surface[s])
      /\ \A s \in Surfaces : Shaped(c.surface[s])
      /\ c.buffer \in [Buffers -> BufferType]
  BY DEF Good, Sound, Placed
<1> HIDE DEF c, d
<1>3. None \notin Buffers /\ b # None BY SurfaceTreeAssumption
<1>4. ASSUME NEW s \in Surfaces
      PROVE  /\ Shaped(d.surface[s]) /\ OnlyOf(c.surface[s], d.surface[s], fs)
             /\ Fine(d.surface[s]) /\ d.surface[s].ref = R(c.surface[s])
  <2> DEFINE x == c.surface[s]
             p == Forget(x.pending, b)
             k == Forget(x.cached, b)
             r == R(x)
             y == [x EXCEPT !.pending = p, !.cached = k, !.ref = r]
  <2>1. d.surface[s] = y BY <1>1
  <2>2. Shaped(x) /\ Fine(x) BY <1>2
  <2> HIDE DEF x
  <2>3. x.pending \in StateType /\ x.cached \in StateType /\ x.ref \in [Holders -> Owners]
    BY <2>2, TypesAre
  <2>4. /\ p \in StateType /\ p.newly_attached = x.pending.newly_attached
        /\ p.buffer = IF x.pending.buffer = b THEN None ELSE x.pending.buffer
        /\ p.frame_callback_list = x.pending.frame_callback_list
    BY <2>3, ForgetFacts
  <2>5. /\ k \in StateType
        /\ k.buffer = IF x.cached.buffer = b THEN None ELSE x.cached.buffer
        /\ k.frame_callback_list = x.cached.frame_callback_list
    BY <2>3, ForgetFacts
  <2>6. r \in [Holders -> Owners] BY <2>3 DEF Owners
  <2>7. r["cached"] = IF x.ref["cached"] = b THEN None ELSE x.ref["cached"]
    BY DEF Holders
  <2>8. r = R(c.surface[s]) BY DEF x
  <2> HIDE DEF p, k, r
  <2>9. Rec(y) /\ OnlyOf(x, y, fs) /\ y.pending = p /\ y.cached = k /\ y.ref = r
    BY <2>2 DEF Shaped, Rec, Fields, OnlyOf
  <2> HIDE DEF y
  <2>10. Shaped(y)
    <3>1. /\ y.pending \in Types.pending /\ y.cached \in Types.cached
          /\ y.ref \in Types.ref
      BY <2>4, <2>5, <2>6, <2>9, TypeOf
    <3>2. \A f \in fs \cap Fields : y[f] \in Types[f] BY <3>1
    <3> HIDE DEF fs
    <3> QED BY <2>2, <2>9, <3>2, ShapedAfter
  <2>11. /\ y.has_cached_data = x.has_cached_data /\ y.applied = x.applied
         /\ y.frame_callback_list = x.frame_callback_list /\ y.done = x.done
         /\ y.dropped = x.dropped /\ y.committed = x.committed /\ y.sub = x.sub
         /\ y.parent = x.parent /\ y.synchronized = x.synchronized
    BY <2>9 DEF OnlyOf, Fields
  <2>12. CacheHeld(y) BY <2>2, <2>5, <2>7, <2>9, <2>11 DEF Fine, CacheHeld
  <2>13. Answered(y, y.committed) BY <2>2, <2>5, <2>9, <2>11 DEF Fine, Answered
  <2>14. NotRequested(y) BY <2>2, <2>4, <2>9 DEF Fine, NotRequested
  <2>15. Alone(y) BY <2>2, <2>11 DEF Fine, Alone
  <2>16. Fine(y) BY <2>12, <2>13, <2>14, <2>15 DEF Fine
  <2>17. OnlyOf(c.surface[s], y, fs) BY <2>9 DEF x
  <2>18. y.ref = R(c.surface[s]) BY <2>8, <2>9
  <2> HIDE DEF fs, R
  <2> QED BY <2>1, <2>10, <2>16, <2>17, <2>18
<1>5. ASSUME NEW g \in Buffers
      PROVE  /\ d.buffer[g] \in BufferType
             /\ g = b => d.buffer[g].busy_count = 0 /\ d.buffer[g].free
             /\ g # b => d.buffer[g] = c.buffer[g]
  <2>1. g # b => d.buffer[g] = c.buffer[g] BY <1>1, <1>2
  <2>2. g = b => d.buffer[g] = [busy_count |-> 0, free |-> TRUE] BY <1>1, <1>2
  <2>3. c.buffer[g] \in BufferType BY <1>2
  <2>4. g = b => d.buffer[g].busy_count = 0 /\ d.buffer[g].free BY <2>2
  <2>5. [busy_count |-> 0, free |-> TRUE] \in BufferType BY DEF BufferType
  <2>6. d.buffer[g] \in BufferType BY <2>1, <2>2, <2>3, <2>5
  <2> QED BY <2>1, <2>4, <2>6
<1>6. Placed(d)
  <2>1. d.surface = [s \in Surfaces |-> d.surface[s]]
    <3> HIDE DEF Y
    <3> QED BY <1>1
  <2>2. d.buffer \in [Buffers -> BufferType]
    <3>1. d.buffer = [g \in Buffers |-> d.buffer[g]] BY <1>1, <1>2
    <3> QED BY <1>5, <3>1
  <2> HIDE DEF Y
  <2> QED BY <1>1, <1>4, <2>1, <2>2 DEF Placed
<1>7. ASSUME NEW g \in Buffers
      PROVE  RefsOf(d, g) = IF g = b THEN {} ELSE RefsOf(c, g)
  <2>1. ASSUME NEW r \in Surfaces \X Holders
        PROVE  d.surface[r[1]].ref[r[2]] = g
                 <=> (g # b /\ c.surface[r[1]].ref[r[2]] = g)
    <3>1. r[1] \in Surfaces /\ r[2] \in Holders OBVIOUS
    <3>2. d.surface[r[1]].ref = R(c.surface[r[1]]) BY <1>4, <3>1
    <3> QED BY <1>3, <3>1, <3>2
  <2> QED BY <2>1 DEF RefsOf
<1>8. Counted(d)
  <2> SUFFICES ASSUME NEW g \in Buffers
               PROVE  d.buffer[g].busy_count = Cardinality(RefsOf(d, g))
    BY DEF Counted
  <2>1. CASE g = b BY <1>5, <1>7, <2>1, FS_EmptySet
  <2>2. CASE g # b BY <1>2, <1>5, <1>7, <2>2 DEF Counted
  <2> QED BY <2>1, <2>2
<1>9. Owned(d, None)
  <2> SUFFICES ASSUME NEW g \in Buffers
               PROVE  d.buffer[g].free <=> (d.buffer[g].busy_count = 0 /\ g # None)
    BY DEF Owned
  <2>1. CASE g = b BY <1>3, <1>5, <2>1
  <2>2. CASE g # b
    <3>1. d.buffer[g] = c.buffer[g] BY <1>5, <2>2
    <3> QED BY <1>2, <3>1 DEF Owned
  <2> QED BY <2>1, <2>2
<1>10. Sound(d)
  <2> HIDE DEF Y, R, fs
  <2> QED BY <1>4, <1>6, <1>8, <1>9 DEF Sound
<1>11. \A s \in Surfaces :
         /\ d.surface[s].parent = c.surface[s].parent
         /\ d.surface[s].synchronized = c.surface[s].synchronized
         /\ d.surface[s].applied = c.surface[s].applied
         /\ d.surface[s].committed = c.surface[s].committed
  <2> HIDE DEF Y, R
  <2> QED BY <1>4 DEF OnlyOf, Fields
<1>12. Steady(c, d) BY <1>11 DEF Steady
<1>13. Acyclic(d) BY <1>2, <1>6, <1>11, AcyclicKept DEF Good
<1>14. Flushed(c, d) BY <1>2, <1>6, <1>12, SteadyFlushed
<1>15. Atomic(c, d) BY <1>11, AppliedAtomic
<1>16. Limited(d) BY <1>2, <1>11 DEF Good, Limited
<1>17. Kept(c, d)
  <2> HIDE DEF Y, R, fs
  <2> QED BY <1>10, <1>13, <1>14, <1>15, <1>16 DEF Kept, Good
<1> QED BY <1>17 DEF c, d

\* compositor_accumulate_damage and weston_output_repaint's callbacks
Sent(d, shown) ==
  [d EXCEPT !.surface =
     [s \in Surfaces |->
       IF s \in shown
       THEN [d.surface[s] EXCEPT
               !.done = @ \cup d.surface[s].frame_callback_list,
               !.frame_callback_list = {}]
       ELSE d.surface[s]]]

\* The callbacks of the shown surfaces are sent.
LEMMA SentFacts ==
  ASSUME NEW c, Sound(c), NEW shown
  PROVE  /\ Sound(Sent(c, shown))
         /\ \A t \in Surfaces :
              OnlyOf(c.surface[t], Sent(c, shown).surface[t],
                     {"done", "frame_callback_list"})
<1> DEFINE d == Sent(c, shown)
           fs == {"done", "frame_callback_list"}
           g == [t \in Surfaces |->
                   IF t \in shown
                   THEN [c.surface[t] EXCEPT
                           !.done = @ \cup c.surface[t].frame_callback_list,
                           !.frame_callback_list = {}]
                   ELSE c.surface[t]]
<1>1. /\ Placed(c) /\ Counted(c) /\ Owned(c, None)
      /\ \A t \in Surfaces : Fine(c.surface[t])
      /\ \A t \in Surfaces : Shaped(c.surface[t])
  BY DEF Sound, Placed
<1>2. d = [c EXCEPT !.surface = g] BY DEF Sent
<1>3. c = [surface |-> c.surface, buffer |-> c.buffer] BY <1>1 DEF Placed
<1> HIDE DEF d
<1>4. ASSUME NEW t \in Surfaces
      PROVE  Shaped(g[t]) /\ Fine(g[t]) /\ OnlyOf(c.surface[t], g[t], fs)
  <2>1. CASE t \notin shown
    <3>1. g[t] = c.surface[t] BY <2>1
    <3> QED BY <1>1, <3>1 DEF OnlyOf
  <2>2. CASE t \in shown
    <3> DEFINE x == c.surface[t]
               l == x.done \cup x.frame_callback_list
               y == [x EXCEPT !.done = l, !.frame_callback_list = {}]
    <3>1. g[t] = y BY <2>2
    <3>2. Shaped(x) /\ Fine(x) BY <1>1
    <3> HIDE DEF x
    <3>3. l \in SUBSET Nat BY <3>2, TypesAre
    <3>4. /\ Rec(y) /\ OnlyOf(x, y, fs) /\ y.done = l /\ y.frame_callback_list = {}
      <4> HIDE DEF l
      <4> QED BY <3>2 DEF Shaped, Rec, Fields, OnlyOf
    <3> HIDE DEF y
    <3>5. Shaped(y)
      <4>1. y.done \in Types.done /\ y.frame_callback_list \in Types.frame_callback_list
        BY <3>3, <3>4, TypeOf
      <4>2. \A f \in fs \cap Fields : y[f] \in Types[f] BY <4>1
      <4> HIDE DEF fs
      <4> QED BY <3>2, <3>4, <4>2, ShapedAfter
    <3>6. /\ y.ref = x.ref /\ y.cached = x.cached /\ y.has_cached_data = x.has_cached_data
          /\ y.applied = x.applied /\ y.dropped = x.dropped /\ y.committed = x.committed
          /\ y.pending = x.pending /\ y.sub = x.sub /\ y.parent = x.parent
          /\ y.synchronized = x.synchronized
      BY <3>4 DEF OnlyOf, Fields
    <3>7. CacheHeld(y) BY <3>2, <3>6 DEF Fine, CacheHeld
    <3>8. Answered(y, x.committed)
      <4>1. Answered(x, x.committed) BY <3>2 DEF Fine
      <4> QED BY <3>4, <3>6, <4>1 DEF Answered
    <3>9. NotRequested(y) BY <3>2, <3>6 DEF Fine, NotRequested
    <3>10. Alone(y) BY <3>2, <3>6 DEF Fine, Alone
    <3>11. Fine(y) BY <3>6, <3>7, <3>8, <3>9, <3>10 DEF Fine
    <3>12. OnlyOf(c.surface[t], y, fs) BY <3>4 DEF x
    <3> QED BY <3>1, <3>5, <3>11, <3>12
  <2> QED BY <2>1, <2>2
<1>5. g = [t \in Surfaces |-> g[t]] OBVIOUS
<1> HIDE DEF g
<1>6. d.surface = g /\ d.buffer = c.buffer /\ d = [surface |-> d.surface, buffer |-> d.buffer]
  <2> DEFINE f == c.surface
             h == c.buffer
  <2>1. c = [surface |-> f, buffer |-> h] BY <1>3
  <2>2. d.surface = g /\ d.buffer = h /\ d = [surface |-> g, buffer |-> h]
    <3> HIDE DEF f, h
    <3> QED BY <1>2, <2>1
  <2> QED BY <2>2
<1>7. Placed(d) BY <1>1, <1>4, <1>5, <1>6 DEF Placed
<1>8. \A t \in Surfaces : d.surface[t].ref = c.surface[t].ref
  BY <1>4, <1>6 DEF OnlyOf, Fields
<1>9. Counted(d) /\ Owned(d, None) BY <1>1, <1>6, <1>8, RefsKept
<1>10. Sound(d) BY <1>4, <1>6, <1>7, <1>9 DEF Sound
<1> QED BY <1>4, <1>6, <1>10 DEF d

\* The repaint of an output
LEMMA RepaintKept ==
  ASSUME Good(World), NEW shown \in SUBSET Surfaces, Repaint(shown)
  PROVE  Kept(World, World')
<1>1. \E d : /\ d = FoldSet(LAMBDA s, c : Reference(c, s, "surface", None), World, shown)
             /\ Becomes(Sent(d, shown))
  BY DEF Repaint, Sent
<1> DEFINE c == World
<1>2. IsFiniteSet(shown) BY SurfaceTreeAssumption, FS_Subset
<1>3. \E g : /\ IsFold(g, SUBSET shown, c, "repaint", c)
             /\ Becomes(Sent(g[shown], shown))
  <2>1. \E g : /\ IsFold(g, SUBSET shown, c, "repaint", c)
               /\ FoldSet(LAMBDA s, d : Reference(d, s, "surface", None), c, shown)
                    = g[shown]
    <3> HIDE DEF c
    <3> QED BY <1>2, FoldIs
  <2> QED BY <1>1, <2>1
<1>4. PICK g : /\ IsFold(g, SUBSET shown, c, "repaint", c)
               /\ Becomes(Sent(g[shown], shown))
  BY <1>3
<1> DEFINE d == g[shown]
           e == Sent(d, shown)
<1>5. Good(c) OBVIOUS
<1> HIDE DEF c
<1>6. Sound(d) /\ \A t \in Surfaces : OnlyOf(c.surface[t], d.surface[t], {"ref"})
  BY <1>4, <1>5, RepaintFoldFacts DEF Good
<1> HIDE DEF d
<1>7. /\ Sound(e)
      /\ \A t \in Surfaces :
           OnlyOf(d.surface[t], e.surface[t], {"done", "frame_callback_list"})
  BY <1>6, SentFacts
<1> HIDE DEF e
<1>8. Becomes(e) BY <1>4 DEF d, e
<1>9. Placed(e) /\ Placed(c) BY <1>5, <1>7 DEF Good, Sound
<1>10. World' = e BY <1>8, <1>9, BecomesIs
<1>11. \A s \in Surfaces :
         /\ e.surface[s].parent = c.surface[s].parent
         /\ e.surface[s].synchronized = c.surface[s].synchronized
         /\ e.surface[s].applied = c.surface[s].applied
         /\ e.surface[s].committed = c.surface[s].committed
  BY <1>6, <1>7 DEF OnlyOf, Fields
<1>12. Steady(c, e) BY <1>11 DEF Steady
<1>13. Acyclic(e) BY <1>5, <1>9, <1>11, AcyclicKept DEF Good
<1>14. Flushed(c, e) BY <1>9, <1>12, SteadyFlushed
<1>15. Atomic(c, e) BY <1>11, AppliedAtomic
<1>16. Limited(e) BY <1>5, <1>11 DEF Good, Limited
<1>17. Kept(c, e) BY <1>7, <1>13, <1>14, <1>15, <1>16 DEF Kept, Good
<1> QED BY <1>10, <1>17 DEF c

\* What becomes current with the cached states of what is below the surfaces of
\* subs is all of it.
LEMMA AllFlushed ==
  ASSUME NEW c, Placed(c), NEW subs \in SUBSET Surfaces, NEW d,
         Folded(c, d, CachedBelow(c, subs)), NEW s \in CachedBelow(c, subs)
  PROVE  /\ \A t \in SubTree(c, s) : ~d.surface[t].has_cached_data
         /\ \E k \in subs : k \in Ancestry(c, s)
<1>1. PICK k \in subs : s \in SubTree(c, k) BY DEF CachedBelow
<1>2. s \in Surfaces /\ k \in Ancestry(c, s) BY <1>1 DEF SubTree
<1>3. ASSUME NEW t \in SubTree(c, s) PROVE ~d.surface[t].has_cached_data
  <2>1. t \in Surfaces /\ s \in Ancestry(c, t) BY DEF SubTree
  <2>2. k \in Ancestry(c, t) BY <1>2, <2>1, AncestryTransitive
  <2>3. t \in SubTree(c, k) BY <2>1, <2>2 DEF SubTree
  <2>4. CASE c.surface[t].has_cached_data
    <3>1. t \in CachedBelow(c, subs) BY <1>1, <2>3, <2>4 DEF CachedBelow
    <3> QED BY <3>1 DEF Folded
  <2>5. CASE ~c.surface[t].has_cached_data
    <3>1. t \notin CachedBelow(c, subs) BY <2>5 DEF CachedBelow
    <3>2. d.surface[t] = c.surface[t] BY <2>1, <3>1 DEF Folded
    <3> QED BY <2>5, <3>2
  <2> QED BY <2>4, <2>5
<1> QED BY <1>1, <1>2, <1>3

\* wl_subsurface.set_desync
LEMMA SetDesyncKept ==
  ASSUME Good(World), NEW q \in Surfaces, SetDesync(q)
  PROVE  Kept(World, World')
<1> DEFINE w == World
           x == [surface[q] EXCEPT !.synchronized = FALSE]
           fs == {"synchronized"}
           c == With(w, q, x)
           d == IF IsSynchronized(c, q) THEN c ELSE SynchronizedCommit(c, {q})
<1>1. Becomes(d) /\ surface[q] = w.surface[q] BY DEF SetDesync, World
<1>2. w.surface[q].sub /\ w.surface[q].synchronized BY DEF SetDesync, World
<1>3. Good(w) /\ Sound(w) /\ Placed(w) /\ Acyclic(w) BY DEF Good, Sound
<1>4. x = [w.surface[q] EXCEPT !.synchronized = FALSE] BY <1>1
<1> HIDE DEF w
<1>5. Shaped(w.surface[q]) /\ Fine(w.surface[q]) BY <1>3 DEF Sound, Placed
<1> DEFINE v == w.surface[q]
<1>6. Rec(x) /\ OnlyOf(v, x, fs) /\ x.synchronized = FALSE
  <2>1. x = [v EXCEPT !.synchronized = FALSE] BY <1>4
  <2> HIDE DEF v, x
  <2> QED BY <1>5, <2>1 DEF Shaped, Rec, Fields, OnlyOf, v
<1> HIDE DEF x
<1>7. Typed(x, fs)
  <2>1. x.synchronized \in BOOLEAN BY <1>6
  <2>2. x.synchronized \in Types.synchronized BY <2>1, TypeOf
  <2> QED BY <2>2 DEF Typed
<1>8. NotRequested(x)
  <2>1. x.pending = v.pending BY <1>6 DEF OnlyOf, Fields
  <2> QED BY <1>5, <2>1 DEF Fine, NotRequested
<1>9. Alone(x)
  <2>1. x.sub = v.sub BY <1>6 DEF OnlyOf, Fields
  <2> QED BY <1>2, <2>1 DEF Alone
<1>10. fs \subseteq {"pending", "sub", "parent", "synchronized"} OBVIOUS
<1>11. Sound(c) /\ Change(w, c, q, fs) /\ c.surface[q] = x
  <2>1. Rec(x) /\ OnlyOf(w.surface[q], x, fs) BY <1>6
  <2> HIDE DEF fs, v
  <2> QED BY <1>3, <1>7, <1>8, <1>9, <1>10, <2>1, SoundWith
<1>12. Placed(c) /\ Sound(c) BY <1>11 DEF Sound
<1> HIDE DEF c
<1>13. \A t \in Surfaces :
         /\ c.surface[t].parent = w.surface[t].parent
         /\ c.surface[t].applied = w.surface[t].applied
         /\ c.surface[t].committed = w.surface[t].committed
         /\ t # q => c.surface[t].synchronized = w.surface[t].synchronized
  <2>1. /\ c.surface[q].parent = w.surface[q].parent
        /\ c.surface[q].applied = w.surface[q].applied
        /\ c.surface[q].committed = w.surface[q].committed
    BY <1>11 DEF Change, OnlyOf, Fields
  <2> QED BY <1>11, <2>1 DEF Change
<1>14. ASSUME NEW t \in Surfaces
       PROVE  /\ Ancestry(c, t) = Ancestry(w, t) /\ Ancestry(w, t) \subseteq Surfaces
              /\ Syncs(c, t) = Syncs(w, t) \ {q}
  <2>1. Ancestry(c, t) = Ancestry(w, t) /\ Ancestry(w, t) \subseteq Surfaces
    BY <1>3, <1>12, <1>13, AncestrySame, AncestryIs
  <2>2. ~c.surface[q].synchronized BY <1>6, <1>11
  <2> QED BY <1>13, <2>1, <2>2 DEF Syncs
<1>15. IsSynchronized(c, q) <=> Syncs(c, q) # {} BY DEF IsSynchronized, Syncs
<1>16. CASE IsSynchronized(c, q)
  <2>1. d = c BY <1>16
  <2>2. World' = c BY <1>1, <1>12, <2>1, BecomesIs
  <2>3. Acyclic(c) BY <1>3, <1>12, <1>13, AcyclicKept
  <2>4. Flushed(w, c)
    <3> SUFFICES ASSUME NEW s \in Surfaces, Syncs(c, s) = {}, Syncs(w, s) # {}
                 PROVE  FALSE
      BY DEF Flushed
    <3>1. q \in Ancestry(w, s) BY <1>14 DEF Syncs
    <3>2. Ancestry(w, q) \subseteq Ancestry(w, s) BY <1>3, <3>1, AncestryTransitive
    <3>3. Syncs(c, q) = {} BY <1>14, <3>2 DEF Syncs
    <3> QED BY <1>15, <1>16, <3>3
  <2>5. fs \cap {"applied", "committed"} = {} OBVIOUS
  <2>6. Kept(w, c)
    <3> HIDE DEF fs
    <3> QED BY <1>3, <1>11, <2>3, <2>4, <2>5, KeptIf
  <2> QED BY <2>2, <2>6 DEF w
<1>17. CASE ~IsSynchronized(c, q)
  <2> DEFINE S == CachedBelow(c, {q})
  <2>1. d = SynchronizedCommit(c, {q}) BY <1>17
  <2> HIDE DEF d
  <2>2. S \subseteq Surfaces /\ Folded(c, d, S)
    BY <1>12, <2>1, SynchronizedCommitFacts
  <2>3. Sound(d) /\ Placed(d) BY <2>2 DEF Folded, Sound
  <2>4. World' = d BY <1>1, <2>3, BecomesIs
  <2>5. \A t \in Surfaces :
          /\ d.surface[t].parent = c.surface[t].parent
          /\ d.surface[t].synchronized = c.surface[t].synchronized
          /\ d.surface[t].committed = c.surface[t].committed
          /\ t \notin S => d.surface[t] = c.surface[t]
    <3> TAKE t \in Surfaces
    <3>1. CASE t \in S
      <4>1. OnlyOf(c.surface[t], d.surface[t], FromCache) BY <2>2, <3>1 DEF Folded
      <4> QED BY <3>1, <4>1 DEF OnlyOf, Fields, FromCache
    <3>2. CASE t \notin S
      <4>1. d.surface[t] = c.surface[t] BY <2>2, <3>2 DEF Folded
      <4> QED BY <3>2, <4>1
    <3> QED BY <3>1, <3>2
  <2> HIDE DEF S
  <2>6. Steady(c, d) BY <2>5 DEF Steady
  <2>7. \A t \in Surfaces : Syncs(d, t) = Syncs(c, t) BY <1>12, <2>3, <2>6, SyncsSame
  <2>8. Acyclic(d) BY <1>3, <1>13, <2>3, <2>5, AcyclicKept
  <2>9. Limited(d) BY <1>3, <1>13, <2>5 DEF Good, Limited
  <2>10. q \in Ancestry(w, q) BY <1>3, AncestryIs
  <2>11. Atomic(w, d)
    <3> SUFFICES ASSUME NEW s \in Surfaces, d.surface[s].applied # w.surface[s].applied
                 PROVE  /\ \E p \in Ancestry(w, s) :
                             Syncs(d, p) = {} /\ Syncs(w, p) # {}
                        /\ \A t \in SubTree(w, s) : ~d.surface[t].has_cached_data
      BY DEF Atomic
    <3>1. s \in S BY <1>13, <2>5
    <3>2. /\ \A t \in SubTree(c, s) : ~d.surface[t].has_cached_data
          /\ q \in Ancestry(c, s)
      BY <1>12, <2>2, <3>1, AllFlushed DEF S
    <3>3. SubTree(c, s) = SubTree(w, s) BY <1>14 DEF SubTree
    <3>4. Syncs(d, q) = {} BY <1>15, <1>17, <2>7
    <3>5. q \in Syncs(w, q) BY <1>2, <2>10 DEF Syncs
    <3>6. q \in Ancestry(w, s) BY <1>14, <3>2
    <3> QED BY <3>2, <3>3, <3>4, <3>5, <3>6
  <2>12. Flushed(w, d)
    <3> SUFFICES ASSUME NEW s \in Surfaces, d.surface[s].has_cached_data,
                        Syncs(d, s) = {}, Syncs(w, s) # {}
                 PROVE  FALSE
      BY DEF Flushed
    <3>1. q \in Ancestry(c, s) BY <1>14, <2>7 DEF Syncs
    <3>2. s \in SubTree(c, q) BY <3>1 DEF SubTree
    <3>3. s \notin S BY <2>2 DEF Folded
    <3>4. c.surface[s].has_cached_data BY <2>5, <3>3
    <3>5. s \in S BY <3>2, <3>4 DEF S, CachedBelow
    <3> QED BY <3>3, <3>5
  <2>13. Kept(w, d) BY <2>3, <2>8, <2>9, <2>11, <2>12 DEF Kept, Good
  <2> QED BY <2>4, <2>13 DEF w
<1> QED BY <1>16, <1>17

\* There are commits left for a commit.
LEMMA CommitsLeft ==
  ASSUME Good(World), NEW s \in Surfaces, SurfaceCommit(s)
  PROVE  World.surface[s].committed < MaxCommits
<1> DEFINE c == World
           g == CHOOSE k : IsFold(k, SUBSET Surfaces, c, "sum", 0)
           sum == MapThenSumSet(LAMBDA t : c.surface[t].committed, Surfaces)
<1>1. sum < MaxCommits BY DEF SurfaceCommit, World
<1>2. IsFold(g, SUBSET Surfaces, c, "sum", 0) BY SurfaceTreeAssumption, FoldsExist
<1>3. sum = g[Surfaces]
  <2> HIDE DEF c
  <2> QED BY DEF MapThenSumSet, MapThenFoldSet, IsFold, Step, Some
<1>4. g[Surfaces] < MaxCommits
  <2> HIDE DEF sum, g
  <2> QED BY <1>1, <1>3
<1>5. Placed(c) BY DEF Good, Sound
<1> HIDE DEF c, g
<1>6. \A t \in Surfaces : c.surface[t].committed \in Nat BY <1>5, TypesAre DEF Placed
<1>7. g[Surfaces] \in Nat /\ c.surface[s].committed <= g[Surfaces]
  BY <1>2, <1>6, SumBounds
<1>8. c.surface[s].committed \in Nat /\ MaxCommits \in Nat
  BY <1>6, SurfaceTreeAssumption
<1> QED BY <1>4, <1>7, <1>8 DEF c

\* The step of a commit that does not go to the cache, before its children's
OwnCommit(w, c, s) ==
  IF w.surface[s].sub /\ w.surface[s].has_cached_data
  THEN CommitFromCache(CommitToCache(c, s), s) ELSE CommitSurface(c, s)

\* What a commit may change of its surface
ByCommit == {"ref", "cached", "damage_lost", "pending", "has_cached_data", "applied",
             "frame_callback_list"}

\* A commit's effect on its own surface.
LEMMA OwnCommitFacts ==
  ASSUME NEW w, Sound(w), NEW c, NEW s \in Surfaces, Requesting(c, s),
         OnlyOf(w.surface[s], c.surface[s], {"committed", "pending"})
  PROVE  Sound(OwnCommit(w, c, s)) /\ Change(c, OwnCommit(w, c, s), s, ByCommit)
<1>0. /\ c.surface[s].sub = w.surface[s].sub
      /\ c.surface[s].has_cached_data = w.surface[s].has_cached_data
  BY DEF OnlyOf, Fields
<1>1. CASE w.surface[s].sub /\ w.surface[s].has_cached_data
  <2> DEFINE d == CommitToCache(c, s)
             e == CommitFromCache(d, s)
  <2>1. OwnCommit(w, c, s) = e BY <1>1 DEF OwnCommit
  <2>2. /\ Sound(d)
        /\ Change(c, d, s, {"ref", "cached", "damage_lost", "pending", "has_cached_data"})
    BY <1>0, <1>1, CommitToCacheFacts
  <2> HIDE DEF d
  <2>3. /\ Sound(e)
        /\ Change(d, e, s, {"ref", "applied", "frame_callback_list", "cached",
                            "has_cached_data"})
    BY <2>2, CommitFromCacheFacts
  <2> HIDE DEF e
  <2>4. Change(c, e, s, ByCommit) BY <2>2, <2>3 DEF Change, OnlyOf, ByCommit
  <2> QED BY <2>1, <2>3, <2>4
<1>2. CASE ~(w.surface[s].sub /\ w.surface[s].has_cached_data)
  <2> DEFINE e == CommitSurface(c, s)
  <2>1. OwnCommit(w, c, s) = e BY <1>2 DEF OwnCommit
  <2>2. ~w.surface[s].has_cached_data BY <1>2 DEF Sound, Fine, Alone
  <2>3. /\ Sound(e)
        /\ Change(c, e, s, {"ref", "applied", "frame_callback_list", "damage_lost",
                            "pending"})
    BY <1>0, <2>2, CommitSurfaceFacts
  <2> HIDE DEF e
  <2>4. Change(c, e, s, ByCommit) BY <2>3 DEF Change, OnlyOf, ByCommit
  <2> QED BY <2>1, <2>3, <2>4
<1> QED BY <1>1, <1>2

\* wl_surface.commit
LEMMA SurfaceCommitKept ==
  ASSUME Good(World), NEW q \in Surfaces, SurfaceCommit(q)
  PROVE  Kept(World, World')
<1> DEFINE w == World
           c == Requested(w, q)
           m == w.surface[q].sub /\ IsSynchronized(w, q)
           e == OwnCommit(w, c, q)
           subs == {t \in Children(e, q) : e.surface[t].synchronized}
           d == IF m THEN CommitToCache(c, q) ELSE SynchronizedCommit(e, subs)
<1>1. Becomes(d) /\ w.surface[q].committed < MaxCommits
  <2>1. surface[q] = w.surface[q] BY DEF World
  <2>2. Becomes(d) BY <2>1 DEF SurfaceCommit, OwnCommit, ParentCommit
  <2> QED BY <2>2, CommitsLeft
<1>2. Good(w) /\ Sound(w) /\ Placed(w) /\ Acyclic(w) /\ Limited(w) BY DEF Good, Sound
<1> HIDE DEF w
<1>3. /\ Requesting(c, q) /\ Change(w, c, q, {"committed", "pending"})
      /\ c.surface[q].committed = w.surface[q].committed + 1
  BY <1>2, RequestedFacts
<1> HIDE DEF c
<1>4. w.surface[q].committed \in Nat /\ MaxCommits \in Nat
  BY <1>2, TypesAre, SurfaceTreeAssumption DEF Placed
\* What the step of q itself leaves, in either case
<1>5. ASSUME NEW f, Sound(f), Change(c, f, q, ByCommit)
      PROVE  /\ Placed(f) /\ Steady(w, f) /\ Limited(f)
             /\ \A t \in Surfaces \ {q} : f.surface[t] = w.surface[t]
             /\ f.surface[q].committed > w.surface[q].committed
             /\ Acyclic(f)
             /\ \A t \in Surfaces : /\ Ancestry(f, t) = Ancestry(w, t)
                                    /\ Syncs(f, t) = Syncs(w, t)
  <2>1. \A t \in Surfaces \ {q} : f.surface[t] = w.surface[t]
    BY <1>3, <1>5 DEF Change
  <2>2. /\ f.surface[q].parent = w.surface[q].parent
        /\ f.surface[q].synchronized = w.surface[q].synchronized
        /\ f.surface[q].committed = w.surface[q].committed + 1
    BY <1>3, <1>5 DEF Change, OnlyOf, Fields, ByCommit
  <2>3. Placed(f) BY <1>5 DEF Sound
  <2>4. Steady(w, f) BY <2>1, <2>2 DEF Steady
  <2>5. Limited(f) BY <1>1, <1>2, <1>4, <2>1, <2>2 DEF Limited
  <2>6. f.surface[q].committed > w.surface[q].committed BY <1>4, <2>2
  <2>7. Acyclic(f) BY <1>2, <2>3, <2>4, AcyclicKept DEF Steady
  <2>8. \A t \in Surfaces : Ancestry(f, t) = Ancestry(w, t) /\ Syncs(f, t) = Syncs(w, t)
    BY <1>2, <2>3, <2>4, SyncsSame
  <2> QED BY <2>1, <2>3, <2>4, <2>5, <2>6, <2>7, <2>8
<1>6. CASE m
  <2> DEFINE f == CommitToCache(c, q)
             fs == {"ref", "cached", "damage_lost", "pending", "has_cached_data"}
  <2>1. d = f BY <1>6
  <2>2. c.surface[q].sub BY <1>3, <1>6 DEF Change, OnlyOf, Fields
  <2>3. Sound(f) /\ Change(c, f, q, fs) BY <1>3, <2>2, CommitToCacheFacts
  <2> HIDE DEF f, d, m
  <2>4. Change(c, f, q, ByCommit) BY <2>3 DEF Change, OnlyOf, ByCommit
  <2>5. /\ Placed(f) /\ Steady(w, f) /\ Limited(f) /\ Acyclic(f)
        /\ \A t \in Surfaces \ {q} : f.surface[t] = w.surface[t]
    BY <1>5, <2>3, <2>4
  <2>6. f.surface[q].applied = w.surface[q].applied
    BY <1>3, <2>3 DEF Change, OnlyOf, Fields
  <2>7. Atomic(w, f) BY <2>5, <2>6, AppliedAtomic
  <2>8. Flushed(w, f) BY <1>2, <2>5, SteadyFlushed
  <2>9. World' = f BY <1>1, <2>1, <2>5, BecomesIs
  <2>10. Kept(w, f) BY <2>3, <2>5, <2>7, <2>8 DEF Kept, Good
  <2> QED BY <2>9, <2>10 DEF w
<1>7. CASE ~m
  <2> DEFINE S == CachedBelow(e, subs)
  <2>1. d = SynchronizedCommit(e, subs) BY <1>7
  <2>2. Syncs(w, q) = {}
    <3>1. IsSynchronized(w, q) <=> Syncs(w, q) # {} BY DEF IsSynchronized, Syncs
    <3>2. CASE w.surface[q].sub BY <1>7, <3>1, <3>2
    <3>3. CASE ~w.surface[q].sub
      <4>1. w.surface[q].parent = None /\ ~w.surface[q].synchronized
        BY <1>2, <3>3 DEF Sound, Fine, Alone
      <4>2. Closed(w, {q}) BY <4>1 DEF Closed
      <4>3. Ancestry(w, q) \subseteq {q} BY <1>2, <4>2, AncestryIs
      <4> QED BY <4>1, <4>3 DEF Syncs
    <3> QED BY <3>2, <3>3
  <2> HIDE DEF m, d
  <2>3. Sound(e) /\ Change(c, e, q, ByCommit)
    BY <1>2, <1>3, OwnCommitFacts DEF Change
  <2>4. subs \in SUBSET Surfaces
        /\ \A k \in subs : e.surface[k].parent = q
    BY DEF Children
  <2> HIDE DEF e
  <2>5. /\ Placed(e) /\ Steady(w, e) /\ Limited(e)
        /\ \A t \in Surfaces \ {q} : e.surface[t] = w.surface[t]
        /\ e.surface[q].committed > w.surface[q].committed
        /\ Acyclic(e)
        /\ \A t \in Surfaces : Ancestry(e, t) = Ancestry(w, t) /\ Syncs(e, t) = Syncs(w, t)
    BY <1>5, <2>3
  <2> HIDE DEF subs
  <2>6. S \subseteq Surfaces /\ Folded(e, d, S)
    BY <2>1, <2>3, <2>4, SynchronizedCommitFacts
  <2>7. Sound(d) /\ Placed(d) BY <2>6 DEF Folded, Sound
  <2>8. World' = d BY <1>1, <2>7, BecomesIs
  <2>9. \A t \in Surfaces :
          /\ d.surface[t].parent = e.surface[t].parent
          /\ d.surface[t].synchronized = e.surface[t].synchronized
          /\ d.surface[t].committed = e.surface[t].committed
          /\ t \notin S => d.surface[t] = e.surface[t]
    <3> TAKE t \in Surfaces
    <3>1. CASE t \in S
      <4>1. OnlyOf(e.surface[t], d.surface[t], FromCache) BY <2>6, <3>1 DEF Folded
      <4> QED BY <3>1, <4>1 DEF OnlyOf, Fields, FromCache
    <3>2. CASE t \notin S
      <4>1. d.surface[t] = e.surface[t] BY <2>6, <3>2 DEF Folded
      <4> QED BY <3>2, <4>1
    <3> QED BY <3>1, <3>2
  <2>10. Steady(w, d) BY <2>5, <2>9 DEF Steady
  <2>11. \A t \in Surfaces : Syncs(d, t) = Syncs(w, t)
    BY <1>2, <2>7, <2>10, SyncsSame
  <2>12. Acyclic(d) BY <1>2, <2>7, <2>10, AcyclicKept DEF Steady
  <2>13. Limited(d) BY <2>5, <2>9 DEF Limited
  <2>14. Flushed(w, d) BY <1>2, <2>7, <2>10, SteadyFlushed
  <2>15. Atomic(w, d)
    <3> SUFFICES ASSUME NEW s \in Surfaces,
                        d.surface[s].applied # w.surface[s].applied, Syncs(w, s) # {}
                 PROVE  /\ \E p \in Ancestry(w, s) :
                             /\ Syncs(d, p) = {}
                             /\ d.surface[p].committed > w.surface[p].committed
                        /\ \A t \in SubTree(w, s) : ~d.surface[t].has_cached_data
      BY DEF Atomic
    <3>1. s # q BY <2>2
    <3>2. s \in S BY <2>5, <2>9, <3>1
    <3>3. /\ \A t \in SubTree(e, s) : ~d.surface[t].has_cached_data
          /\ \E k \in subs : k \in Ancestry(e, s)
      BY <2>4, <2>5, <2>6, <3>2, AllFlushed
    <3>4. SubTree(e, s) = SubTree(w, s) BY <2>5 DEF SubTree
    <3>5. PICK k \in subs : k \in Ancestry(e, s) BY <3>3
    <3>6. q \in Ancestry(e, s)
      <4>1. Closed(e, Ancestry(e, s)) BY <2>5, AncestryIs
      <4>2. e.surface[k].parent = q /\ q # None BY <2>4, SurfaceTreeAssumption
      <4> QED BY <3>5, <4>1, <4>2 DEF Closed
    <3>7. q \in Ancestry(w, s) BY <2>5, <3>6
    <3>8. Syncs(d, q) = {} BY <2>2, <2>11
    <3>9. d.surface[q].committed > w.surface[q].committed BY <2>5, <2>9
    <3> QED BY <3>3, <3>4, <3>7, <3>8, <3>9
  <2>16. Kept(w, d) BY <2>7, <2>12, <2>13, <2>14, <2>15 DEF Kept, Good
  <2> QED BY <2>8, <2>16 DEF w
<1> QED BY <1>6, <1>7
-----------------------------------------------------------------------------
(* The theorems.                                                           *)

\* The invariant holds at the start.
LEMMA Initially ==
  ASSUME Init
  PROVE  IInv
<1> DEFINE c == World
           g == [s \in Surfaces |-> NewSurface]
           h == [b \in Buffers |-> [busy_count |-> 0, free |-> TRUE]]
<1>1. c = [surface |-> g, buffer |-> h] BY DEF Init, World
<1>2. /\ Rec(NewSurface) /\ NewSurface.parent = None /\ ~NewSurface.synchronized
      /\ NewSurface.ref = [k \in Holders |-> None]
      /\ NewSurface.pending = InitialState /\ NewSurface.cached = InitialState
      /\ ~NewSurface.has_cached_data /\ NewSurface.committed = 0
      /\ NewSurface.applied = 0 /\ NewSurface.frame_callback_list = {}
      /\ NewSurface.done = {} /\ NewSurface.dropped = {}
  BY DEF NewSurface, Rec, Fields
<1>3. \A f \in Fields : NewSurface[f] \in Types[f]
  <2>1. [k \in Holders |-> None] \in [Holders -> Owners] BY DEF Owners
  <2>2. /\ NewSurface.ref \in Types.ref /\ NewSurface.pending \in Types.pending
        /\ NewSurface.cached \in Types.cached
    BY <1>2, <2>1, StateFields, TypeOf
  <2>3. /\ NewSurface.committed \in Types.committed
        /\ NewSurface.applied \in Types.applied
        /\ NewSurface.frame_callback_list \in Types.frame_callback_list
        /\ NewSurface.done \in Types.done /\ NewSurface.dropped \in Types.dropped
        /\ NewSurface.parent \in Types.parent
    BY <1>2, TypeOf
  <2>4. /\ NewSurface.alive \in BOOLEAN /\ NewSurface.sub \in BOOLEAN
        /\ NewSurface.synchronized \in BOOLEAN
        /\ NewSurface.has_cached_data \in BOOLEAN /\ NewSurface.damage_lost \in BOOLEAN
    BY DEF NewSurface
  <2>5. /\ NewSurface.alive \in Types.alive /\ NewSurface.sub \in Types.sub
        /\ NewSurface.synchronized \in Types.synchronized
        /\ NewSurface.has_cached_data \in Types.has_cached_data
        /\ NewSurface.damage_lost \in Types.damage_lost
    BY <2>4, TypeOf
  <2> QED BY <2>2, <2>3, <2>5 DEF Fields
<1>4. Shaped(NewSurface) BY <1>2, <1>3 DEF Shaped
<1>5. Fine(NewSurface)
  <2>1. CacheHeld(NewSurface) BY <1>2, StateFields DEF CacheHeld, Holders
  <2>2. NotRequested(NewSurface) BY <1>2, StateFields DEF NotRequested
  <2>3. 1 .. 0 = {} OBVIOUS
  <2>4. Answered(NewSurface, NewSurface.committed)
    BY <1>2, <2>3, StateFields DEF Answered
  <2>5. Alone(NewSurface) BY <1>2 DEF Alone
  <2> QED BY <2>1, <2>2, <2>4, <2>5 DEF Fine
<1> HIDE DEF c
<1>6. c.surface = g /\ c.buffer = h BY <1>1
<1>7. \A s \in Surfaces : c.surface[s] = NewSurface BY <1>6
<1>8. \A b \in Buffers : c.buffer[b] = [busy_count |-> 0, free |-> TRUE] BY <1>6
<1>9. Placed(c)
  <2>1. [busy_count |-> 0, free |-> TRUE] \in BufferType BY DEF BufferType
  <2>2. h \in [Buffers -> BufferType] BY <2>1
  <2>3. g = [s \in Surfaces |-> g[s]] OBVIOUS
  <2>4. c = [surface |-> c.surface, buffer |-> c.buffer] BY <1>1
  <2> QED BY <1>4, <1>6, <1>7, <2>2, <2>3, <2>4 DEF Placed
<1>10. \A b \in Buffers : RefsOf(c, b) = {}
  <2> SUFFICES ASSUME NEW b \in Buffers, NEW r \in Surfaces \X Holders
               PROVE  c.surface[r[1]].ref[r[2]] # b
    BY DEF RefsOf
  <2>1. r[1] \in Surfaces /\ r[2] \in Holders OBVIOUS
  <2>2. c.surface[r[1]].ref[r[2]] = None BY <1>2, <1>7, <2>1
  <2> QED BY <2>2, SurfaceTreeAssumption
<1>11. Counted(c) BY <1>8, <1>10, FS_EmptySet DEF Counted
<1>12. Owned(c, None) BY <1>8, SurfaceTreeAssumption DEF Owned
<1>13. Sound(c) BY <1>5, <1>7, <1>9, <1>11, <1>12 DEF Sound
<1>14. Acyclic(c)
  <2>1. \A s \in Surfaces : Ancestry(c, s) \subseteq {s}
    <3> TAKE s \in Surfaces
    <3>1. Closed(c, {s}) BY <1>2, <1>7 DEF Closed
    <3> QED BY <1>9, <3>1, AncestryIs
  <2> QED BY <2>1 DEF Acyclic
<1>15. Limited(c) BY <1>2, <1>7, SurfaceTreeAssumption DEF Limited
<1> QED BY <1>13, <1>14, <1>15 DEF IInv, Good, c

\* Every step keeps the invariant and is as the action properties have it.
LEMMA NextKept ==
  ASSUME IInv, Next
  PROVE  Kept(World, World')
<1>0. Good(World) BY DEF IInv
<1>1. ASSUME NEW s \in Surfaces, NEW b \in Owners, SurfaceAttach(s, b)
      PROVE  Kept(World, World')
  BY <1>0, <1>1, SurfaceAttachKept
<1>2. ASSUME NEW s \in Surfaces, SurfaceCommit(s) PROVE Kept(World, World')
  BY <1>0, <1>2, SurfaceCommitKept
<1>3. ASSUME NEW s \in Surfaces, SetSync(s) PROVE Kept(World, World')
  BY <1>0, <1>3, SetSyncKept
<1>4. ASSUME NEW s \in Surfaces, SetDesync(s) PROVE Kept(World, World')
  BY <1>0, <1>4, SetDesyncKept
<1>5. ASSUME NEW s \in Surfaces, NEW p \in Surfaces, GetSubsurface(s, p)
      PROVE  Kept(World, World')
  BY <1>0, <1>5, GetSubsurfaceKept
<1>6. ASSUME NEW s \in Surfaces, DestroySubsurface(s) PROVE Kept(World, World')
  BY <1>0, <1>6, DestroySubsurfaceKept
<1>7. ASSUME NEW s \in Surfaces, DestroySurface(s) PROVE Kept(World, World')
  BY <1>0, <1>7, DestroySurfaceKept
<1>8. ASSUME NEW b \in Buffers, DestroyBuffer(b) PROVE Kept(World, World')
  BY <1>0, <1>8, DestroyBufferKept
<1>9. ASSUME NEW shown \in SUBSET Surfaces, Repaint(shown) PROVE Kept(World, World')
  BY <1>0, <1>9, RepaintKept
<1> QED BY <1>1, <1>2, <1>3, <1>4, <1>5, <1>6, <1>7, <1>8, <1>9 DEF Next, Owners

\* The invariant of buffers, callbacks and tree is inductive.
THEOREM Inductive == IInv /\ [Next]_vars => IInv'
<1> SUFFICES ASSUME IInv, [Next]_vars PROVE IInv' OBVIOUS
<1>1. CASE Next
  <2>1. Good(World') BY <1>1, NextKept DEF Kept
  <2> QED BY <2>1 DEF IInv
<1>2. CASE UNCHANGED vars
  <2>1. World' = World BY <1>2 DEF vars, World
  <2> QED BY <2>1 DEF IInv
<1> QED BY <1>1, <1>2

\* The invariant of every behaviour
THEOREM Invariance == Spec => []IInv
BY Initially, Inductive, PTL DEF Spec

\* TreeSound: whatever is made a sub-surface of what, and whatever is destroyed,
\* the loops up the tree end.
THEOREM TreeTheorem == Spec => []TreeSound
<1>1. IInv => TreeSound
  <2> SUFFICES ASSUME IInv PROVE TreeSound OBVIOUS
  <2>1. Good(World) /\ Placed(World) /\ World.surface = surface /\ World.buffer = buffer
    BY DEF IInv, Good, Sound, World
  <2>2. NoCycle BY <2>1 DEF NoCycle, Good, Acyclic
  <2>3. TypeOK
    <3> DEFINE R == [alive : BOOLEAN, sub : BOOLEAN, parent : Surfaces \cup {None},
                     synchronized : BOOLEAN, has_cached_data : BOOLEAN,
                     pending : StateType, cached : StateType,
                     ref : [Holders -> Buffers \cup {None}],
                     committed : 0 .. MaxCommits, applied : 0 .. MaxCommits,
                     frame_callback_list : SUBSET Commits, done : SUBSET Commits,
                     dropped : SUBSET Commits, damage_lost : BOOLEAN]
    <3>1. ASSUME NEW s \in Surfaces PROVE surface[s] \in R
      <4> DEFINE x == surface[s]
      <4>1. Shaped(x) /\ Fine(x) /\ x.committed <= MaxCommits
        BY <2>1 DEF Placed, Good, Sound, Limited
      <4> HIDE DEF x
      <4>2. x.applied <= x.committed BY <4>1 DEF Fine, Answered
      <4>3. x.committed \in Nat /\ x.applied \in Nat BY <4>1, TypesAre
      <4>4. x.committed \in 0 .. MaxCommits /\ x.applied \in 0 .. MaxCommits
        BY <4>1, <4>2, <4>3, SurfaceTreeAssumption
      <4>5. /\ x.alive \in BOOLEAN /\ x.sub \in BOOLEAN
            /\ x.parent \in Surfaces \cup {None} /\ x.synchronized \in BOOLEAN
            /\ x.has_cached_data \in BOOLEAN
            /\ x.pending \in StateType /\ x.cached \in StateType
            /\ x.ref \in [Holders -> Buffers \cup {None}]
            /\ x.frame_callback_list \in SUBSET Commits
            /\ x.done \in SUBSET Commits /\ x.dropped \in SUBSET Commits
            /\ x.damage_lost \in BOOLEAN
        BY <4>1, TypesAre DEF Owners, Commits
      <4>6. x \in R
        <5>1. DOMAIN x = Fields /\ x = [f \in DOMAIN x |-> x[f]]
          BY <4>1 DEF Shaped, Rec
        <5>2. x = [alive |-> x.alive, sub |-> x.sub, parent |-> x.parent,
                   synchronized |-> x.synchronized,
                   has_cached_data |-> x.has_cached_data,
                   pending |-> x.pending, cached |-> x.cached, ref |-> x.ref,
                   committed |-> x.committed, applied |-> x.applied,
                   frame_callback_list |-> x.frame_callback_list, done |-> x.done,
                   dropped |-> x.dropped, damage_lost |-> x.damage_lost]
          BY <5>1 DEF Fields
        <5> QED BY <4>4, <4>5, <5>2
      <4> QED BY <4>6 DEF x
    <3>2. surface = [s \in Surfaces |-> surface[s]] BY <2>1 DEF Placed
    <3> HIDE DEF R
    <3>3. surface \in [Surfaces -> R] BY <3>1, <3>2
    <3>4. buffer \in [Buffers -> [busy_count : Nat, free : BOOLEAN]]
      BY <2>1 DEF Placed, BufferType
    <3> QED BY <3>3, <3>4 DEF TypeOK, R
  <2> QED BY <2>2, <2>3 DEF TreeSound
<1> QED BY <1>1, Invariance, PTL

\* BuffersAccounted: whoever attaches, caches, commits and destroys what, no
\* buffer is released while the compositor may read it and none is kept.
THEOREM BuffersTheorem == Spec => []BuffersAccounted
<1>1. IInv => BuffersAccounted
  <2> SUFFICES ASSUME IInv PROVE BuffersAccounted OBVIOUS
  <2>1. Sound(World) /\ World.surface = surface /\ World.buffer = buffer
    BY DEF IInv, Good, World
  <2>2. \A b \in Buffers : References(b) = RefsOf(World, b)
    BY <2>1 DEF References, RefsOf
  <2>3. \A b \in Buffers : b # None BY SurfaceTreeAssumption
  <2> QED BY <2>1, <2>2, <2>3 DEF BuffersAccounted, Sound, Counted, Owned, Fine, CacheHeld
<1> QED BY <1>1, Invariance, PTL

\* CallbacksAccounted: no frame callback is lost, answered twice, or answered
\* before its commit is applied.
THEOREM CallbacksTheorem == Spec => []CallbacksAccounted
<1>1. IInv => CallbacksAccounted
  <2> SUFFICES ASSUME IInv, NEW s \in Surfaces
               PROVE  LET w == surface[s]
                          places == <<w.frame_callback_list,
                                      w.cached.frame_callback_list, w.done, w.dropped>>
                      IN /\ \A i, j \in 1 .. 4 : i # j => places[i] \cap places[j] = {}
                         /\ UNION {places[i] : i \in 1 .. 4} = 1 .. w.committed
                         /\ \A n \in w.frame_callback_list \cup w.done : n <= w.applied
                         /\ \A n \in w.cached.frame_callback_list : n > w.applied
                         /\ w.has_cached_data <=> w.cached.frame_callback_list # {}
    BY DEF CallbacksAccounted
  <2> DEFINE w == surface[s]
             A == w.frame_callback_list
             B == w.cached.frame_callback_list
             C == w.done
             D == w.dropped
             places == <<A, B, C, D>>
  <2>1. Answered(w, w.committed)
    BY DEF IInv, Good, World, Sound, Fine
  <2>2. /\ A \cap B = {} /\ A \cap C = {} /\ A \cap D = {}
        /\ B \cap C = {} /\ B \cap D = {} /\ C \cap D = {}
        /\ A \cup B \cup C \cup D = 1 .. w.committed
        /\ \A n \in A \cup C : n <= w.applied
        /\ \A n \in B : n > w.applied
        /\ w.has_cached_data <=> B # {}
    BY <2>1 DEF Answered
  <2>3. 1 .. 4 = {1, 2, 3, 4} OBVIOUS
  <2> HIDE DEF w, A, B, C, D
  <2>4. places[1] = A /\ places[2] = B /\ places[3] = C /\ places[4] = D OBVIOUS
  <2> HIDE DEF places
  <2>5. UNION {places[i] : i \in 1 .. 4} = A \cup B \cup C \cup D
    <3>1. {places[i] : i \in {1, 2, 3, 4}} = {A, B, C, D} BY <2>4
    <3> QED BY <2>3, <3>1
  <2>6. \A i, j \in 1 .. 4 : i # j => places[i] \cap places[j] = {}
    <3>1. ASSUME NEW i \in {1, 2, 3, 4}, NEW j \in {1, 2, 3, 4}, i # j
          PROVE  places[i] \cap places[j] = {}
      BY <2>2, <2>4, <3>1
    <3> QED BY <2>3, <3>1
  <2> QED BY <2>2, <2>5, <2>6 DEF w, A, B, C, D, places
<1> QED BY <1>1, Invariance, PTL

\* SyncKept: a synchronized sub-tree changes with a commit of a surface above it
\* that is not synchronized, all of it or nothing, and nothing stays in a cache
\* when the synchronization ends.
THEOREM SyncTheorem == Spec => SyncKept
<1>0. /\ \A s : Synchronizers(s) = Syncs(World, s)
      /\ \A s : Synchronizers(s)' = Syncs(World', s)
  BY DEF Synchronizers, Syncs, World
<1>1. IInv /\ [Next]_vars =>
        [\A s \in Surfaces :
           surface'[s].applied # surface[s].applied
             /\ Synchronizers(s) # {} /\ Synchronizers(s)' # {} =>
           /\ \E p \in Ancestry(World, s) :
                /\ Synchronizers(p)' = {}
                /\ \/ surface'[p].committed > surface[p].committed
                   \/ Synchronizers(p) # {}
           /\ \A t \in SubTree(World, s) : ~surface'[t].has_cached_data]_vars
  <2> SUFFICES ASSUME IInv, Next,
                      NEW s \in Surfaces, surface'[s].applied # surface[s].applied,
                      Synchronizers(s) # {}, Synchronizers(s)' # {}
               PROVE  /\ \E p \in Ancestry(World, s) :
                           /\ Synchronizers(p)' = {}
                           /\ \/ surface'[p].committed > surface[p].committed
                              \/ Synchronizers(p) # {}
                      /\ \A t \in SubTree(World, s) : ~surface'[t].has_cached_data
    OBVIOUS
  <2>1. Atomic(World, World') BY NextKept DEF Kept
  <2>2. World.surface = surface /\ World'.surface = surface' BY DEF World
  <2> QED BY <1>0, <2>1, <2>2 DEF Atomic
<1>2. IInv /\ [Next]_vars =>
        [\A s \in Surfaces :
           surface'[s].has_cached_data /\ Synchronizers(s)' = {} =>
           \/ Synchronizers(s) = {}
           \/ \E t \in Ancestry(World, s) :
                ~surface'[t].alive \/ (surface[t].sub /\ ~surface'[t].sub)]_vars
  <2> SUFFICES ASSUME IInv, Next,
                      NEW s \in Surfaces, surface'[s].has_cached_data,
                      Synchronizers(s)' = {}
               PROVE  \/ Synchronizers(s) = {}
                      \/ \E t \in Ancestry(World, s) :
                           ~surface'[t].alive \/ (surface[t].sub /\ ~surface'[t].sub)
    OBVIOUS
  <2>1. Flushed(World, World') BY NextKept DEF Kept
  <2>2. World.surface = surface /\ World'.surface = surface' BY DEF World
  <2> QED BY <1>0, <2>1, <2>2 DEF Flushed
<1> QED BY <1>1, <1>2, Invariance, PTL DEF Spec, SyncKept, SyncIsAtomic, FlushedWhenDesync
=============================================================================
