------------------------------- MODULE IviScene -------------------------------
(***************************************************************************)
(* The scene of the IVI shell (src/ivi-shell/ivi-layout.c): surfaces on    *)
(* layers on a screen.  A controller module edits pending lists, and       *)
(* ivi_layout_commit_changes makes them the scene and rebuilds the list of *)
(* views the compositor draws.  That list is a wl_list, kept here with its *)
(* pointers: what a link still points to matters when it is removed.       *)
(* A sequence is a wl_list from its head; wl_list_insert puts in front.    *)
(***************************************************************************)
EXTENDS Integers, Sequences, FiniteSets, SequencesExt

CONSTANTS
  Surfaces,  \* the client surfaces, with one view each
  Layers,    \* where an ivi_layout_layer can be allocated
  MaxCalls,  \* bound: calls of the controller between two commits
  MaxLayerCalls, \* bound: calls about layers as such, ever (making or adding one apart)
  ViewList,      \* layout_layer.view_list
  NULL

ASSUME SceneAssumption ==
  IsFiniteSet(Surfaces) /\ IsFiniteSet(Layers) /\ ViewList \notin Surfaces /\ NULL \notin Layers

VARIABLES
  surface_list,  \* surfaces with an ivi_layout_surface
  views,         \* surfaces whose weston_view exists
  surf,          \* ivi_layout_surface: prop and pending visibility, on_layer
  layer_list,    \* layout->layer_list
  lay,           \* ivi_layout_layer
  screen,        \* ivi_layout_screen
  links,         \* next and prev of view_list and of each view's layer_link
  view_list,     \* history: the views that list is meant to hold
  stray,         \* history: since the last commit, a view that a commit had
                 \* left out of the list was removed from its old place
  destroyed,     \* history: layers that were ever destroyed
  calls,         \* the controller's calls since the last commit
  layerCalls     \* and its calls about layers as such

listVars == <<links, view_list, stray>>
sceneVars == <<surface_list, views, surf, layer_list, lay, screen, links,
               view_list, stray, destroyed, calls, layerCalls>>

On(x, list) == x \in ToSet(list)

\* What is left of a list, in order, when all but S is removed
Keep(list, S) ==
  LET kept[n \in 0 .. Len(list)] ==
        IF n = 0 THEN <<>>
        ELSE IF list[n] \in S THEN Append(kept[n - 1], list[n]) ELSE kept[n - 1]
  IN kept[Len(list)]

Without(list, x) == Keep(list, ToSet(list) \ {x})

NewSurface == [visible |-> FALSE, pending |-> FALSE, on_layer |-> NULL]
NewLayer == [visible |-> FALSE, pending |-> FALSE, surfaces |-> <<>>,
             order |-> <<>>, dirty |-> FALSE, on_screen |-> FALSE]
ShownLayer == [NewLayer EXCEPT !.visible = TRUE, !.pending = TRUE, !.on_screen = TRUE]
Unlinked(n) == [next |-> n, prev |-> n]

\* The controller (hmi_controller_create) has made the layers, shown on the
\* screen.
SceneInit ==
  /\ surface_list = {} /\ views = {} /\ layer_list \in SetToSeqs(Layers)
  /\ surf = [s \in Surfaces |-> NewSurface]
  /\ lay = [l \in Layers |-> ShownLayer]
  /\ screen = [layers |-> Reverse(layer_list), order |-> layer_list, dirty |-> FALSE]
  /\ links = [n \in Surfaces \cup {ViewList} |-> Unlinked(n)]
  /\ view_list = <<>> /\ stray = FALSE /\ destroyed = {} /\ calls = 0 /\ layerCalls = 0
-----------------------------------------------------------------------------
\* wl_list_insert at the front, and wl_list_remove with wl_list_init
InsertFront(k, n) ==
  LET first == k[ViewList].next
      linked == [k EXCEPT ![n] = [next |-> first, prev |-> ViewList],
                          ![ViewList].next = n]
  IN [linked EXCEPT ![first].prev = n]

Unlink(k, n) ==
  LET around == [k EXCEPT ![k[n].prev].next = k[n].next]
  IN [[around EXCEPT ![k[n].next].prev = k[n].prev] EXCEPT ![n] = Unlinked(n)]

\* The first half of a dirty layer's commit
TakeAllOff(state, l) ==
  [state EXCEPT !.lay[l].order = <<>>,
     !.surf = [s \in Surfaces |->
       IF On(s, state.lay[l].order) THEN [state.surf[s] EXCEPT !.on_layer = NULL]
       ELSE state.surf[s]]]

\* Mutation: the surfaces are not unlinked from the layers they were on.
PutOn_NoRemove(state, l, list) ==
  [surf |-> [s \in Surfaces |->
     IF On(s, list) THEN [state.surf[s] EXCEPT !.on_layer = l] ELSE state.surf[s]],
   lay |-> [k \in Layers |->
     IF k = l THEN [state.lay[k] EXCEPT !.order = Reverse(list)] ELSE state.lay[k]]]

\* The second half: each of the layer's pending surfaces in turn leaves the
\* layer it is on, for the front of this one's list.
PutOn(state, l, list) ==
  [surf |-> [s \in Surfaces |->
     IF On(s, list) THEN [state.surf[s] EXCEPT !.on_layer = l] ELSE state.surf[s]],
   lay |-> [k \in Layers |->
     [state.lay[k] EXCEPT !.order =
        IF k = l THEN Reverse(list) ELSE Keep(state.lay[k].order, Surfaces \ ToSet(list))]]]

\* One turn of commit_layer_list
CommitLayer(state, l) ==
  LET shown == [state EXCEPT !.lay[l].visible = state.lay[l].pending]
      placed == PutOn(TakeAllOff(shown, l), l, shown.lay[l].surfaces)
  IN IF state.lay[l].dirty
     THEN [placed EXCEPT !.lay[l].dirty = FALSE] ELSE shown

\* commit_surface_list, which takes over what is pending (transitions aside),
\* and commit_layer_list
CommitLists ==
  LET begun == [surf |-> [s \in Surfaces |->
                  IF s \in surface_list THEN [surf[s] EXCEPT !.visible = surf[s].pending]
                                        ELSE surf[s]],
                lay |-> lay]
      done[n \in 0 .. Len(layer_list)] ==
        IF n = 0 THEN begun ELSE CommitLayer(done[n - 1], layer_list[n])
  IN done[Len(layer_list)]

\* The views commit_screen_list puts in the list, one after the other: each
\* visible layer's, in order, that are visible.
ViewsOf(state, layers) ==
  LET shown(l) == IF state.lay[l].visible
                  THEN Keep(state.lay[l].order, {s \in Surfaces : state.surf[s].visible})
                  ELSE <<>>
      drawn[n \in 0 .. Len(layers)] ==
        IF n = 0 THEN <<>> ELSE drawn[n - 1] \o shown(layers[n])
  IN drawn[Len(layers)]

\* "Clear view list of layout ivi_layer": wl_list_init of the head.  The
\* views that were in the list keep their links.
ClearViews == [links EXCEPT ![ViewList] = Unlinked(ViewList)]

\* Each of the views goes in front.
LinkViews(list) ==
  LET linked[n \in 0 .. Len(list)] ==
        IF n = 0 THEN ClearViews ELSE InsertFront(linked[n - 1], list[n])
  IN linked[Len(list)]

\* The layers of the screen, from the front of its list, after a commit
ScreenOrder == IF screen.dirty THEN Reverse(screen.layers) ELSE screen.order

\* ivi_layout_commit_changes; commit_screen_list is the last part.
CommitChanges ==
  LET state == CommitLists
      layers == ScreenOrder
      shown == ViewsOf(state, layers)
  IN /\ surf' = state.surf
     /\ lay' = [l \in Layers |-> [state.lay[l] EXCEPT !.on_screen = On(l, layers)]]
     /\ screen' = [screen EXCEPT !.order = layers, !.dirty = FALSE]
     /\ links' = LinkViews(shown)
     /\ view_list' = Reverse(shown) /\ stray' = FALSE
     /\ calls' = 0
     /\ UNCHANGED <<surface_list, views, layer_list, layerCalls, destroyed>>
-----------------------------------------------------------------------------
\* The controller's calls
Call == calls < MaxCalls /\ calls' = calls + 1 /\ UNCHANGED layerCalls
LayerCall ==
  layerCalls < MaxLayerCalls /\ layerCalls' = layerCalls + 1 /\ UNCHANGED calls

\* Each of the surfaces in turn goes to the front of l's pending list, out of
\* the pending list it was in.
Pend(l, list) ==
  [k \in Layers |->
     IF k = l THEN [lay[l] EXCEPT !.surfaces = Reverse(list), !.dirty = TRUE]
     ELSE [lay[k] EXCEPT !.surfaces = Keep(@, Surfaces \ ToSet(list))]]

LayerSetRenderOrder(l) ==
  /\ Call
  /\ On(l, layer_list)
  /\ \E ss \in SUBSET surface_list : \E list \in SetToSeqs(ss) :
       lay' = Pend(l, list)
  /\ UNCHANGED <<surface_list, views, surf, layer_list, screen, destroyed>>
  /\ UNCHANGED listVars

\* A surface that is on the layer, or was on a layer destroyed since and
\* allocated in the same place, is "already available".
LayerAddSurface(l, s) ==
  /\ Call
  /\ On(l, layer_list) /\ s \in surface_list /\ surf[s].on_layer # l
  /\ lay' = [k \in Layers |->
       IF k = l THEN [lay[l] EXCEPT !.surfaces = <<s>> \o Without(@, s),
                                    !.dirty = TRUE]
                ELSE [lay[k] EXCEPT !.surfaces = Without(@, s)]]
  /\ UNCHANGED <<surface_list, views, surf, layer_list, screen, destroyed>>
  /\ UNCHANGED listVars

LayerRemoveSurface(l, s) ==
  /\ Call
  /\ On(l, layer_list) /\ s \in surface_list
  /\ lay' = [lay EXCEPT ![l].surfaces = Without(@, s), ![l].dirty = TRUE]
  /\ UNCHANGED <<surface_list, views, surf, layer_list, screen, destroyed>>
  /\ UNCHANGED listVars

\* Setting what is set already is a stuttering step.
SurfaceSetVisibility(s) ==
  /\ Call
  /\ s \in surface_list
  /\ surf' = [surf EXCEPT ![s].pending = ~@]
  /\ UNCHANGED <<surface_list, views, layer_list, lay, screen, destroyed>>
  /\ UNCHANGED listVars

LayerSetVisibility(l) ==
  /\ LayerCall
  /\ On(l, layer_list)
  /\ lay' = [lay EXCEPT ![l].pending = ~@]
  /\ UNCHANGED <<surface_list, views, surf, layer_list, screen, destroyed>>
  /\ UNCHANGED listVars

ScreenAddLayer(l) ==
  /\ Call
  /\ On(l, layer_list) /\ ~lay[l].on_screen
  /\ screen' = [screen EXCEPT !.layers = <<l>> \o Without(@, l), !.dirty = TRUE]
  /\ UNCHANGED <<surface_list, views, surf, layer_list, lay, destroyed>>
  /\ UNCHANGED listVars

ScreenSetRenderOrder ==
  /\ LayerCall
  /\ \E ls \in SUBSET ToSet(layer_list) : \E list \in SetToSeqs(ls) :
       screen' = [screen EXCEPT !.layers = list, !.dirty = TRUE]
  /\ UNCHANGED <<surface_list, views, surf, layer_list, lay, destroyed>>
  /\ UNCHANGED listVars

\* ivi_layout_layer_create_with_dimension, of an id that is not in use (one
\* that is only counts a reference)
LayerCreate(l) ==
  /\ ~On(l, layer_list)
  /\ layer_list' = <<l>> \o layer_list /\ lay' = [lay EXCEPT ![l] = NewLayer]
  /\ UNCHANGED <<surface_list, views, surf, screen, destroyed, calls, layerCalls>>
  /\ UNCHANGED listVars

\* ivi_layout_layer_destroy, of the last reference.  The surfaces' on_layer
\* is left; their views are drawn until the next commit.
LayerDestroy(l) ==
  /\ On(l, layer_list) /\ LayerCall
  /\ layer_list' = Without(layer_list, l)
  /\ lay' = [lay EXCEPT ![l] = NewLayer]
  /\ screen' = [screen EXCEPT !.layers = Without(@, l), !.order = Without(@, l)]
  /\ destroyed' = destroyed \cup {l}
  /\ UNCHANGED <<surface_list, views, surf>>
  /\ UNCHANGED listVars
-----------------------------------------------------------------------------
\* Clients' surfaces

\* ivi_layout_surface_create makes the view too.
SurfaceCreate(s) ==
  /\ s \notin views
  /\ surface_list' = surface_list \cup {s} /\ views' = views \cup {s}
  /\ surf' = [surf EXCEPT ![s] = NewSurface]
  /\ links' = [links EXCEPT ![s] = Unlinked(s)]
  /\ UNCHANGED <<layer_list, lay, screen, view_list, stray, destroyed, calls, layerCalls>>

\* ivi_layout_surface_destroy, for ivi_surface.destroy or because the
\* wl_surface goes.  (A listener of the removal may commit at once: that is
\* a CommitChanges after it.)
SurfaceDestroy(s) ==
  /\ s \in surface_list
  /\ surface_list' = surface_list \ {s}
  /\ lay' = [l \in Layers |->
       [lay[l] EXCEPT !.surfaces = Without(@, s), !.order = Without(@, s)]]
  /\ surf' = [surf EXCEPT ![s] = NewSurface]
  /\ UNCHANGED <<views, layer_list, screen, destroyed, calls, layerCalls>>
  /\ UNCHANGED listVars

\* Mutation: a view that leaves the list is not unlinked.
ViewDestroy_StaysLinked(s) ==
  /\ s \in views \ surface_list
  /\ views' = views \ {s}
  /\ view_list' = Without(view_list, s)
  /\ stray' = (stray \/ (~On(s, view_list) /\ links[s] # Unlinked(s)))
  /\ UNCHANGED <<surface_list, surf, layer_list, lay, screen, links, destroyed, calls, layerCalls>>

\* weston_layer_entry_remove takes the view out of the place its links say.
LayerEntryRemove(s) ==
  /\ links' = Unlink(links, s) /\ view_list' = Without(view_list, s)
  /\ stray' = (stray \/ (~On(s, view_list) /\ links[s] # Unlinked(s)))

\* weston_view_destroy, by the end of the wl_surface
ViewDestroy(s) ==
  /\ s \in views \ surface_list
  /\ views' = views \ {s}
  /\ LayerEntryRemove(s)
  /\ UNCHANGED <<surface_list, surf, layer_list, lay, screen, destroyed, calls, layerCalls>>

\* weston_surface_unmap, when the client takes its buffer away: the view is not
\* drawn until the next commit links it again.
Unmap(s) ==
  /\ s \in views
  /\ LayerEntryRemove(s)
  /\ UNCHANGED <<surface_list, views, surf, layer_list, lay, screen, destroyed, calls, layerCalls>>

SceneNext ==
  \/ CommitChanges \/ ScreenSetRenderOrder
  \/ \E l \in Layers :
       LayerCreate(l) \/ LayerDestroy(l) \/ LayerSetVisibility(l)
       \/ LayerSetRenderOrder(l) \/ ScreenAddLayer(l)
  \/ \E l \in Layers, s \in Surfaces :
       LayerAddSurface(l, s) \/ LayerRemoveSurface(l, s)
  \/ \E s \in Surfaces :
       SurfaceCreate(s) \/ SurfaceDestroy(s) \/ SurfaceSetVisibility(s)
       \/ ViewDestroy(s) \/ Unmap(s)

SceneSpec == SceneInit /\ [][SceneNext]_sceneVars
-----------------------------------------------------------------------------
SceneTypeOK ==
  /\ surface_list \subseteq views /\ views \subseteq Surfaces
  /\ surf \in [Surfaces -> [visible : BOOLEAN, pending : BOOLEAN,
                            on_layer : Layers \cup {NULL}]]
  /\ layer_list \in Seq(Layers)
  /\ lay \in [Layers -> [visible : BOOLEAN, pending : BOOLEAN, dirty : BOOLEAN,
                         on_screen : BOOLEAN, surfaces : Seq(surface_list),
                         order : Seq(surface_list)]]
  /\ screen \in [layers : Seq(ToSet(layer_list)), order : Seq(ToSet(layer_list)),
                 dirty : BOOLEAN]
  /\ LET Nodes == Surfaces \cup {ViewList}
     IN links \in [Nodes -> [next : Nodes, prev : Nodes]]
  /\ view_list \in Seq(views) /\ stray \in BOOLEAN

\* A surface is in one place of the scene: in one pending list, and in one
\* layer's order list, once.
OnePlace ==
  /\ \A l \in Layers : IsInjective(lay[l].surfaces) /\ IsInjective(lay[l].order)
  /\ \A k, l \in Layers : k # l =>
       /\ ToSet(lay[k].surfaces) \cap ToSet(lay[l].surfaces) = {}
       /\ ToSet(lay[k].order) \cap ToSet(lay[l].order) = {}

\* The surface knows the layer that shows it, and refers to no other that is
\* still there, unless that one's memory was used again.
OnLayerTrue ==
  \A s \in surface_list, l \in Layers :
    /\ On(s, lay[l].order) => surf[s].on_layer = l
    /\ surf[s].on_layer = l => On(s, lay[l].order) \/ l \in destroyed

Before(x, y, list) == \E i, j \in 1 .. Len(list) : i < j /\ list[i] = x /\ list[j] = y

\* Nothing asked for is forgotten: unless the next commit will look at the
\* layer, what is pending is there, in the opposite order, beside what has been
\* moved to other layers.
QuietLayers ==
  \A l \in Layers : ~lay[l].dirty =>
    \A x, y \in ToSet(lay[l].surfaces) :
      On(x, lay[l].order) /\ (Before(x, y, lay[l].surfaces) <=> Before(y, x, lay[l].order))

\* The pointers of the list the compositor draws from are those of the views
\* it should hold, both ways, as long as no view that is not in the list has
\* been removed from where it used to be.
ViewListSound ==
  ~stray =>
    LET ring(i) == IF i \in 1 .. Len(view_list) THEN view_list[i] ELSE ViewList
    IN \A i \in 0 .. Len(view_list) :
         links[ring(i)].next = ring(i + 1) /\ links[ring(i + 1)].prev = ring(i)

\* The pending and the committed lists of the scene agree after any sequence of
\* calls and commits, whatever was destroyed between them.
SceneSound == SceneTypeOK /\ OnePlace /\ OnLayerTrue /\ QuietLayers
=============================================================================
