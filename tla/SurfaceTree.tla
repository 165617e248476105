------------------------------ MODULE SurfaceTree -----------------------------
(***************************************************************************)
(* wl_surface.commit in a tree of sub-surfaces (src/src/compositor.c): the *)
(* pending and the cached state, when a synchronized sub-surface's state   *)
(* becomes current, and the reference counts that decide when a wl_buffer  *)
(* is released to its client.                                              *)
(*                                                                         *)
(* A surface's commits are numbered; commit n carries frame callback n and *)
(* buffer damage n.  Stacking order, positions and the shape of damage are *)
(* left out.  The renderer is the pixman renderer, which keeps a reference *)
(* to the attached buffer, and no backend asks to keep buffers.            *)
(***************************************************************************)
EXTENDS Integers, FiniteSets, FiniteSetsExt

CONSTANTS
  Surfaces,    \* wl_surfaces of the clients
  Buffers,     \* wl_buffers
  None,        \* the NULL pointer
  MaxCommits   \* bound: commits of all surfaces together

ASSUME SurfaceTreeAssumption ==
  /\ IsFiniteSet(Surfaces) /\ MaxCommits \in Nat
  /\ None \notin Surfaces \cup Buffers

VARIABLES
  surface,   \* the surfaces, with the weston_subsurface of those that have one
  buffer     \* weston_buffer.busy_count; whether the client may write to it

vars == <<surface, buffer>>

\* Who holds weston_buffer_references for a surface.
Holders == {"surface", "renderer", "cached"}
Commits == Nat

\* weston_surface_state_init
InitialState ==
  [newly_attached |-> FALSE, buffer |-> None, frame_callback_list |-> {}]

\* weston_surface_create
NewSurface ==
  [alive |-> TRUE, sub |-> FALSE, parent |-> None, synchronized |-> FALSE,
   has_cached_data |-> FALSE, pending |-> InitialState, cached |-> InitialState,
   ref |-> [h \in Holders |-> None],
   committed |-> 0, applied |-> 0, frame_callback_list |-> {},
   done |-> {}, dropped |-> {}, damage_lost |-> FALSE]

Init ==
  /\ surface = [s \in Surfaces |-> NewSurface]
  /\ buffer = [b \in Buffers |-> [busy_count |-> 0, free |-> TRUE]]

\* What a handler works on: it changes the two variables step by step.
World == [surface |-> surface, buffer |-> buffer]
Becomes(c) == surface' = c.surface /\ buffer' = c.buffer
With(c, s, x) == [c EXCEPT !.surface[s] = x]
-----------------------------------------------------------------------------
\* weston_buffer_reference: the last reference's end sends wl_buffer.release.
Reference(c, s, h, b) ==
  LET old == c.surface[s].ref[h]
      left == IF old \notin {None, b}
              THEN [c.buffer EXCEPT ![old] =
                     [busy_count |-> @.busy_count - 1,
                      free |-> @.free \/ @.busy_count = 1]]
              ELSE c.buffer
  IN [surface |-> [c.surface EXCEPT ![s].ref[h] = b],
      buffer |-> IF b \notin {None, old}
                 THEN [left EXCEPT ![b].busy_count = @ + 1] ELSE left]

\* weston_surface_attach, with pixman_renderer_attach
Attach(c, s, b) == Reference(Reference(c, s, "surface", b), s, "renderer", b)

\* apply_damage_buffer: without a buffer the damage is cleared unseen.  That
\* loses the damage of a commit that brings a buffer to a surface whose content
\* the renderer already has, and so will not draw anew.
ApplyDamageBuffer(c, s, brings) ==
  LET ref == c.surface[s].ref
      lost == ref["surface"] = None /\ ref["renderer"] # None /\ brings
  IN With(c, s, [c.surface[s] EXCEPT !.damage_lost = @ \/ lost])

\* weston_surface_commit_state
CommitState(c, s, state) ==
  LET attached == IF state.newly_attached THEN Attach(c, s, state.buffer) ELSE c
  IN With(attached, s,
       [attached.surface[s] EXCEPT
          !.applied = c.surface[s].committed,
          !.frame_callback_list = @ \cup state.frame_callback_list])

\* wl_surface.commit: the request's number is the next; damage and a frame
\* callback have been requested with it.
Requested(c, s) ==
  LET n == c.surface[s].committed + 1
      p == c.surface[s].pending
      d == With(c, s, [c.surface[s] EXCEPT
                         !.committed = n,
                         !.pending = [p EXCEPT !.frame_callback_list = {n}]])
  IN [d EXCEPT !.buffer = [b \in Buffers |->
        [c.buffer[b] EXCEPT !.free = @ /\ b # p.buffer]]]

\* weston_surface_commit
CommitSurface(c, s) ==
  LET d == CommitState(c, s, c.surface[s].pending)
      e == ApplyDamageBuffer(d, s, c.surface[s].pending.buffer # None)
  IN With(e, s, [e.surface[s] EXCEPT !.pending = InitialState])
-----------------------------------------------------------------------------
Children(c, s) == {t \in Surfaces : c.surface[t].parent = s}

\* s and all above it, following weston_surface_to_subsurface and the parent.
Ancestry(c, s) ==
  LET up[i \in 0 .. Cardinality(Surfaces)] ==
        IF i = 0 THEN {s}
        ELSE up[i - 1] \cup ({c.surface[t].parent : t \in up[i - 1]} \ {None})
  IN up[Cardinality(Surfaces)]

SubTree(c, s) == {t \in Surfaces : s \in Ancestry(c, t)}

\* weston_subsurface_is_synchronized
IsSynchronized(c, s) == \E t \in Ancestry(c, s) : c.surface[t].synchronized

\* The first part of weston_subsurface_commit_to_cache: a buffer that was
\* attached is cached, with a reference of its own.
CacheBuffer(c, s) ==
  LET p == c.surface[s].pending
      x == [c.surface[s] EXCEPT
              !.cached = [@ EXCEPT !.newly_attached = TRUE, !.buffer = p.buffer]]
  IN IF p.newly_attached THEN Reference(With(c, s, x), s, "cached", p.buffer) ELSE c

\* Mutation: the cached frame callbacks are replaced, not extended.
CommitToCache_Replaces(c, s) ==
  LET p == c.surface[s].pending
      d == ApplyDamageBuffer(CacheBuffer(c, s), s, p.buffer # None)
  IN With(d, s, [d.surface[s] EXCEPT
                   !.cached = [@ EXCEPT !.frame_callback_list = p.frame_callback_list],
                   !.pending = InitialState, !.has_cached_data = TRUE])

\* weston_subsurface_commit_to_cache: the damage is applied on the buffer the
\* surface has now, not on the one being cached.
CommitToCache(c, s) ==
  LET p == c.surface[s].pending
      d == ApplyDamageBuffer(CacheBuffer(c, s), s, p.buffer # None)
      callbacks == d.surface[s].cached.frame_callback_list \cup p.frame_callback_list
  IN With(d, s, [d.surface[s] EXCEPT
                   !.cached = [@ EXCEPT !.frame_callback_list = callbacks],
                   !.pending = InitialState, !.has_cached_data = TRUE])

\* Mutation: the cache's reference to the buffer is kept.
CommitFromCache_KeepsRef(c, s) ==
  LET d == CommitState(c, s, c.surface[s].cached)
  IN With(d, s, [d.surface[s] EXCEPT !.cached = InitialState,
                                     !.has_cached_data = FALSE])

\* weston_subsurface_commit_from_cache
CommitFromCache(c, s) ==
  LET d == Reference(CommitState(c, s, c.surface[s].cached), s, "cached", None)
  IN With(d, s, [d.surface[s] EXCEPT !.cached = InitialState,
                                     !.has_cached_data = FALSE])

\* weston_subsurface_synchronized_commit of each of a set of sub-surfaces: the
\* whole sub-trees, whatever the modes in them.
SynchronizedCommit(c, subs) ==
  LET cached == {t \in UNION {SubTree(c, s) : s \in subs} :
                   c.surface[t].has_cached_data}
  IN FoldSet(LAMBDA t, d : CommitFromCache(d, t), c, cached)

\* weston_subsurface_parent_commit of the children, parent_is_synchronized 0
ParentCommit(c, s) ==
  SynchronizedCommit(c, {t \in Children(c, s) : c.surface[t].synchronized})
-----------------------------------------------------------------------------
\* wl_surface.attach
SurfaceAttach(s, b) ==
  /\ surface[s].alive
  /\ surface' = [surface EXCEPT ![s].pending =
                   [@ EXCEPT !.newly_attached = TRUE, !.buffer = b]]
  /\ UNCHANGED buffer

\* surface_commit, and weston_subsurface_commit for a sub-surface
SurfaceCommit(s) ==
  /\ surface[s].alive
  /\ MapThenSumSet(LAMBDA t : surface[t].committed, Surfaces) < MaxCommits
  /\ LET c == Requested(World, s)
     IN Becomes(
          IF surface[s].sub /\ IsSynchronized(World, s) THEN CommitToCache(c, s)
          ELSE ParentCommit(
                 IF surface[s].sub /\ surface[s].has_cached_data
                 THEN CommitFromCache(CommitToCache(c, s), s)
                 ELSE CommitSurface(c, s), s))

\* subsurface_set_sync
SetSync(s) ==
  /\ surface[s].sub /\ ~surface[s].synchronized
  /\ surface' = [surface EXCEPT ![s].synchronized = TRUE]
  /\ UNCHANGED buffer

\* Mutation: the cache waits for the next commit.
SetDesync_NoFlush(s) ==
  /\ surface[s].sub /\ surface[s].synchronized
  /\ surface' = [surface EXCEPT ![s].synchronized = FALSE]
  /\ UNCHANGED buffer

\* subsurface_set_desync
SetDesync(s) ==
  /\ surface[s].sub /\ surface[s].synchronized
  /\ LET c == With(World, s, [surface[s] EXCEPT !.synchronized = FALSE])
     IN Becomes(IF IsSynchronized(c, s) THEN c ELSE SynchronizedCommit(c, {s}))

\* Mutation: a surface may become a sub-surface of its descendant.
GetSubsurface_NoAncestorCheck(s, p) ==
  /\ surface[s].alive /\ surface[p].alive /\ s # p /\ ~surface[s].sub
  /\ surface' = [surface EXCEPT ![s] =
                   [@ EXCEPT !.sub = TRUE, !.parent = p, !.synchronized = TRUE]]
  /\ UNCHANGED buffer

\* subcompositor_get_subsurface.  s is no sub-surface, so it is above p exactly
\* when weston_surface_get_main_surface(p) is s.
GetSubsurface(s, p) ==
  /\ surface[s].alive /\ surface[p].alive /\ s # p /\ ~surface[s].sub
  /\ s \notin Ancestry(World, p)
  /\ surface' = [surface EXCEPT ![s] =
                   [@ EXCEPT !.sub = TRUE, !.parent = p, !.synchronized = TRUE]]
  /\ UNCHANGED buffer

\* weston_subsurface_destroy: what is cached is never shown.
EndSubsurface(c, s) ==
  LET d == Reference(c, s, "cached", None)
  IN With(d, s, [d.surface[s] EXCEPT
                   !.sub = FALSE, !.parent = None, !.synchronized = FALSE,
                   !.dropped = @ \cup c.surface[s].cached.frame_callback_list,
                   !.cached = InitialState, !.has_cached_data = FALSE])

\* wl_subsurface.destroy
DestroySubsurface(s) ==
  surface[s].sub /\ Becomes(EndSubsurface(World, s))

\* weston_surface_destroy: its children lose their parent and stay sub-surfaces
\* without one; all its references end.
DestroySurface(s) ==
  /\ surface[s].alive
  /\ LET c == IF surface[s].sub THEN EndSubsurface(World, s) ELSE World
         d == [c EXCEPT !.surface =
                [t \in Surfaces |->
                  IF c.surface[t].parent = s THEN [c.surface[t] EXCEPT !.parent = None]
                  ELSE c.surface[t]]]
         e == Attach(d, s, None)
     IN Becomes(With(e, s, [e.surface[s] EXCEPT
                              !.alive = FALSE, !.pending = InitialState,
                              !.dropped = @ \cup e.surface[s].frame_callback_list,
                              !.frame_callback_list = {}]))

\* surface_state_handle_buffer_destroy
Forget(state, b) == [state EXCEPT !.buffer = IF @ = b THEN None ELSE @]

\* weston_buffer_destroy_handler: every reference and every state that names the
\* buffer forgets it; the client may make a new one.
DestroyBuffer(b) ==
  /\ surface' = [s \in Surfaces |->
       [surface[s] EXCEPT
          !.pending = Forget(@, b), !.cached = Forget(@, b),
          !.ref = [h \in Holders |-> IF @[h] = b THEN None ELSE @[h]]]]
  /\ buffer' = [buffer EXCEPT ![b] = [busy_count |-> 0, free |-> TRUE]]

\* weston_output_repaint of an output that shows some of the surfaces:
\* callbacks are sent, compositor_accumulate_damage drops the core's reference.
Repaint(shown) ==
  LET d == FoldSet(LAMBDA s, c : Reference(c, s, "surface", None), World, shown)
  IN Becomes([d EXCEPT !.surface =
       [s \in Surfaces |->
         IF s \in shown
         THEN [d.surface[s] EXCEPT
                 !.done = @ \cup d.surface[s].frame_callback_list,
                 !.frame_callback_list = {}]
         ELSE d.surface[s]]])

Next ==
  \/ \E s \in Surfaces, b \in Buffers \cup {None} : SurfaceAttach(s, b)
  \/ \E s \in Surfaces : SurfaceCommit(s)
  \/ \E s \in Surfaces : SetSync(s)
  \/ \E s \in Surfaces : SetDesync(s)
  \/ \E s, p \in Surfaces : GetSubsurface(s, p)
  \/ \E s \in Surfaces : DestroySubsurface(s)
  \/ \E s \in Surfaces : DestroySurface(s)
  \/ \E b \in Buffers : DestroyBuffer(b)
  \/ \E shown \in SUBSET {s \in Surfaces : surface[s].alive} : Repaint(shown)

Spec == Init /\ [][Next]_vars
-----------------------------------------------------------------------------
StateType ==
  [newly_attached : BOOLEAN, buffer : Buffers \cup {None},
   frame_callback_list : SUBSET Commits]

TypeOK ==
  /\ surface \in [Surfaces ->
       [alive : BOOLEAN, sub : BOOLEAN, parent : Surfaces \cup {None},
        synchronized : BOOLEAN, has_cached_data : BOOLEAN,
        pending : StateType, cached : StateType,
        ref : [Holders -> Buffers \cup {None}],
        committed : 0 .. MaxCommits, applied : 0 .. MaxCommits,
        frame_callback_list : SUBSET Commits, done : SUBSET Commits,
        dropped : SUBSET Commits, damage_lost : BOOLEAN]]
  /\ buffer \in [Buffers -> [busy_count : Nat, free : BOOLEAN]]

\* The references to a buffer.
References(b) ==
  {r \in Surfaces \X Holders : surface[r[1]].ref[r[2]] = b}

\* busy_count counts the references, the client owns a buffer exactly while
\* there is none, and a cached reference exists only for cached data: no buffer
\* is released while it may be read, none is kept for ever.
BuffersAccounted ==
  /\ \A b \in Buffers :
       /\ buffer[b].busy_count = Cardinality(References(b))
       /\ buffer[b].free <=> buffer[b].busy_count = 0
  /\ \A s \in Surfaces :
       /\ surface[s].ref["cached"] = surface[s].cached.buffer
       /\ surface[s].ref["cached"] # None => surface[s].has_cached_data

\* Each commit's frame callback is in one place: answered or current if the
\* commit has been applied, in the cache if it has not, or gone with an object
\* the client destroyed.
CallbacksAccounted ==
  \A s \in Surfaces :
    LET w == surface[s]
        places == <<w.frame_callback_list, w.cached.frame_callback_list, w.done,
                    w.dropped>>
    IN /\ \A i, j \in 1 .. 4 : i # j => places[i] \cap places[j] = {}
       /\ UNION {places[i] : i \in 1 .. 4} = 1 .. w.committed
       /\ \A n \in w.frame_callback_list \cup w.done : n <= w.applied
       /\ \A n \in w.cached.frame_callback_list : n > w.applied
       /\ w.has_cached_data <=> w.cached.frame_callback_list # {}

\* The loops up the tree end: no surface is above itself.
NoCycle ==
  \A s, t \in Surfaces :
    s # t => ~(s \in Ancestry(World, t) /\ t \in Ancestry(World, s))

\* The sub-surfaces above s (or s) that are synchronized: while there is one,
\* s is effectively synchronized.
Synchronizers(s) == {t \in Ancestry(World, s) : surface[t].synchronized}

\* While s is effectively synchronized, its new state becomes current only when
\* a surface above it, itself not synchronized, commits or has just stopped
\* being synchronized; and then that of all below s does, too.
SyncIsAtomic ==
  [][\A s \in Surfaces :
       surface'[s].applied # surface[s].applied
         /\ Synchronizers(s) # {} /\ Synchronizers(s)' # {} =>
       /\ \E p \in Ancestry(World, s) :
            /\ Synchronizers(p)' = {}
            /\ \/ surface'[p].committed > surface[p].committed
               \/ Synchronizers(p) # {}
       /\ \A t \in SubTree(World, s) : ~surface'[t].has_cached_data]_vars

\* A sub-surface that stops being synchronized has nothing cached, unless it is
\* because of the end of an object above it: then its cache waits for its next
\* commit.
FlushedWhenDesync ==
  [][\A s \in Surfaces :
       surface'[s].has_cached_data /\ Synchronizers(s)' = {} =>
       \/ Synchronizers(s) = {}
       \/ \E t \in Ancestry(World, s) :
            ~surface'[t].alive \/ (surface[t].sub /\ ~surface'[t].sub)]_vars

\* "This should only be called after the buffer is attached."
\* (compositor.c:2818, apply_damage_buffer): no damage of a commit that brings
\* a buffer is thrown away for lack of one.
DamageAfterAttach == \A s \in Surfaces : ~surface[s].damage_lost

\* The tree is a tree, and what it holds has its type, whatever sub-surfaces
\* were made of surfaces that were in it before.
TreeSound == TypeOK /\ NoCycle

\* A synchronized sub-tree changes with its parent's commit, all of it or
\* nothing, and nothing stays in a cache when the synchronization ends.
SyncKept == SyncIsAtomic /\ FlushedWhenDesync
=============================================================================
