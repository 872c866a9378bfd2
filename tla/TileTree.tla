-------------------------------- MODULE TileTree --------------------------------
(***************************************************************************)
(* The tiles of the simple-tile plugin (src/plugins/tile): one tree of     *)
(* splits for each workspace of each workspace set, whose leaves are the   *)
(* tiled views, under views that come, go, move and are dropped on each    *)
(* other, resizes, and changes of the work area and of the grid.           *)
(*                                                                         *)
(* Geometry is relative to the workspace and gaps are left out; sizes are  *)
(* exact quotients rounded down, where the code rounds a double.  A set is *)
(* on its output.  While a resize goes on the grid does not change and     *)
(* views of other sets stay (README.md, Divergences).  The layouts that    *)
(* the IPC sets are left out.                                              *)
(***************************************************************************)
EXTENDS Integers, FiniteSets, SequencesExt, FiniteSetsExt

CONSTANTS
  TileViews, TileSets,
  MaxTileGrid,  \* bound: workspaces of a set
  Areas,        \* bound: work areas of an output, records [x, y, w, h]
  MinSize,      \* MIN_SIZE of a resize
  NoResize

Dirs == {"vertical", "horizontal"}
Inserts == {"left", "right", "above", "below"}
Grids == 1..MaxTileGrid

ASSUME TileAssumption == MinSize \in Nat \ {0} /\ MaxTileGrid \in Nat \ {0}

VARIABLES
  tiles,   \* set -> [current, grid, area, roots]
  tv,      \* view -> [mapped, minimized, full, wset]
  resizing \* the controller: [set, at, vertical, horizontal], pairs of nodes

tileVars == <<tiles, tv, resizing>>

-----------------------------------------------------------------------------
(* tree_node_t: a split, or a leaf with a view.  "dropped" marks the split *)
(* that a view was dropped in, while handle_move_retile() runs.            *)
Leaf(v, g) == [dir |-> "view", view |-> v, geo |-> g, kids |-> <<>>, dropped |-> FALSE]
Split(dir, g) == [dir |-> dir, view |-> NoResize, geo |-> g, kids |-> <<>>, dropped |-> FALSE]
Zero == [x |-> 0, y |-> 0, w |-> 0, h |-> 0]

Along(dir, g) == IF dir = "vertical" THEN g.w ELSE g.h    \* calculate_splittable()
Slice(dir, g, pos, size) ==                               \* get_child_geometry()
  IF dir = "vertical" THEN [g EXCEPT !.x = @ + pos, !.w = size]
  ELSE [g EXCEPT !.y = @ + pos, !.h = size]

\* Mutant of ShareEnd: each child's size is rounded on its own.
ShareEndRounded(t, i) ==
  LET size(j) == Along(t.dir, t.kids[j].geo)
      sum[j \in 0..Len(t.kids)] == IF j = 0 THEN 0 ELSE sum[j - 1] + size(j)
      ends[j \in 0..Len(t.kids)] == IF j = 0 THEN 0
        ELSE ends[j - 1] + (size(j) * Along(t.dir, t.geo)) \div sum[Len(t.kids)]
  IN ends[i]

(* Where child i of a split ends, in proportion to the children's sizes.   *)
ShareEnd(t, i) ==
  LET sum[j \in 0..Len(t.kids)] == IF j = 0 THEN 0 ELSE sum[j - 1] + Along(t.dir, t.kids[j].geo)
      all == sum[Len(t.kids)]
  IN IF all = 0 THEN 0 ELSE (sum[i] * Along(t.dir, t.geo)) \div all

(* A new list of children (SubSeq is there for TLC, which is lazy about    *)
(* functions).                                                             *)
Mapped(kids, F(_)) == SubSeq([i \in DOMAIN kids |-> F(kids[i])], 1, Len(kids))

RECURSIVE SetGeometry(_, _)
SetGeometry(t, g) ==
  LET here == [t EXCEPT !.geo = g]
      Resized(i) == LET from == ShareEnd(here, i - 1) IN
        SetGeometry(t.kids[i], Slice(t.dir, g, from, ShareEnd(here, i) - from))
  IN [here EXCEPT !.kids = Mapped([i \in DOMAIN t.kids |-> i], Resized)]

Recalculate(t) == SetGeometry(t, t.geo)

(* add_child(), at the end if the index is beyond it.                      *)
AddChild(t, kid, index) ==
  LET n == Len(t.kids)
      size == IF n = 0 THEN Along(t.dir, t.geo) ELSE (Along(t.dir, t.geo) + n - 1) \div n
      sized == [kid EXCEPT !.geo = Slice(t.dir, t.geo, 0, size)]
  IN Recalculate([t EXCEPT !.kids = InsertAt(@, IF index > n THEN n + 1 ELSE index, sized)])

RECURSIVE LeafSeq(_)
LeafSeq(t) == IF t.dir = "view" THEN <<t>> ELSE FlattenSeq(Mapped(t.kids, LeafSeq))

RECURSIVE LeavesOf(_)
LeavesOf(t) == IF t.dir = "view" THEN {t} ELSE UNION {LeavesOf(t.kids[i]) : i \in DOMAIN t.kids}
ViewsOf(t) == {l.view : l \in LeavesOf(t)}
KidWith(t, views) == CHOOSE i \in DOMAIN t.kids : views \subseteq ViewsOf(t.kids[i])

IndexOf(t, v) ==
  IF \E i \in DOMAIN t.kids : t.kids[i].view = v THEN CHOOSE i \in DOMAIN t.kids : t.kids[i].view = v ELSE 0

RECURSIVE PathTo(_, _)
(* The indices that lead to a node, given the leaves below it.             *)
PathTo(t, views) ==
  IF ViewsOf(t) = views /\ ~(Len(t.kids) = 1) THEN <<>>
  ELSE LET i == KidWith(t, views) IN <<i>> \o PathTo(t.kids[i], views)

RECURSIVE Put(_, _, _)
Put(t, path, node) ==
  IF path = <<>> THEN node ELSE [t EXCEPT !.kids[path[1]] = Put(@, Tail(path), node)]

RECURSIVE NodeAt(_, _)
NodeAt(t, path) == IF path = <<>> THEN t ELSE NodeAt(t.kids[path[1]], Tail(path))

(* Changes the parent of v's leaf.                                         *)
AtParent(t, v, Change(_)) ==
  IF v \notin ViewsOf(t) THEN t
  ELSE LET path == Front(PathTo(t, {v})) IN Put(t, path, Change(NodeAt(t, path)))

RECURSIVE AllNodes(_, _)
AllNodes(t, path) ==
  {path} \cup UNION {AllNodes(t.kids[i], Append(path, i)) : i \in DOMAIN t.kids}

AtDropped(t, Change(_)) ==
  LET dropped == {p \in AllNodes(t, <<>>) : NodeAt(t, p).dropped}
      p == CHOOSE q \in dropped : TRUE
  IN IF dropped = {} THEN t ELSE Put(t, p, Change([NodeAt(t, p) EXCEPT !.dropped = FALSE]))

LeafOf(t, v) == CHOOSE l \in LeavesOf(t) : l.view = v

(* remove_child() of the parent of v's leaf.                               *)
Without(t, v) ==
  AtParent(t, v, LAMBDA p : Recalculate([p EXCEPT !.kids = RemoveAt(@, IndexOf(p, v))]))

\* Mutant of Flatten: splits with one child remain.
FlattenEmptyOnly(t, isRoot) ==
  LET kept == SelectSeq(t.kids, LAMBDA k : k.dir = "view" \/ k.kids # <<>>)
  IN [t EXCEPT !.kids = kept]

RECURSIVE Flatten(_, _)
(* flatten_tree(): empty splits go, and splits with one child become it,   *)
(* but a root is no leaf.                                                  *)
Flatten(t, isRoot) ==
  LET kept == SelectSeq(Mapped(t.kids, LAMBDA k : Flatten(k, FALSE)),
                        LAMBDA k : k.dir = "view" \/ k.kids # <<>>)
  IN IF Len(kept) = 1 /\ (~isRoot \/ kept[1].dir # "view") THEN kept[1]
     ELSE [t EXCEPT !.kids = kept]

-----------------------------------------------------------------------------
(* tile_workspace_set_data_t.                                              *)
Roots(d, Change(_)) == [d EXCEPT !.roots = [x \in Grids |-> IF x <= d.grid THEN Change(@[x]) ELSE @[x]]]
UpdateRootSize(d) == Roots(d, LAMBDA t : SetGeometry(t, d.area))
Refresh(d) == Roots(d, LAMBDA t : Recalculate(Flatten(t, TRUE)))
NewRoots(d) ==
  [d EXCEPT !.roots = [x \in Grids |-> Split("vertical", IF x <= d.grid THEN d.area ELSE Zero)]]

At(d, v) == {x \in 1..d.grid : v \in ViewsOf(d.roots[x])}
Tiled(d, v) == tv[v].wset \in TileSets /\ At(d[tv[v].wset], v) # {}
InTree(v) == Tiled(tiles, v)

(* consider_exit_fullscreen() of a view that is not fullscreen itself.     *)
FullscreenAfter(f, d, v) ==
  IF f[v].full THEN f
  ELSE [u \in TileViews |-> [f[u] EXCEPT !.full = @ /\ u \notin ViewsOf(d.roots[d.current])]]

Attached(d, v, x) ==
  [d EXCEPT !.roots[x] = AddChild(@, Leaf(v, Zero), Len(@.kids) + 1)]

(* detach_views() of one view.                                             *)
Detached(d, v) ==
  UpdateRootSize(Roots(d, LAMBDA t : Flatten(Without(t, v), TRUE)))

Attach(s, v, x) ==
  /\ tiles' = [tiles EXCEPT ![s] = Attached(@, v, x)]
  /\ tv' = FullscreenAfter(tv, tiles'[s], v)

-----------------------------------------------------------------------------
(* The handlers.  Each stops the controller of the output first.           *)
Stop == resizing' = NoResize
Unmapped == [mapped |-> FALSE, minimized |-> FALSE, full |-> FALSE, wset |-> NoResize]

TileMapped(v, s) ==
  /\ ~tv[v].mapped /\ Stop
  /\ LET mapped == [tv EXCEPT ![v] = [mapped |-> TRUE, minimized |-> FALSE, full |-> FALSE, wset |-> s]]
         d == Attached(tiles[s], v, tiles[s].current)
     IN tiles' = [tiles EXCEPT ![s] = d] /\ tv' = FullscreenAfter(mapped, d, v)

TileUnmapped(v) ==
  /\ tv[v].mapped /\ Stop
  /\ tiles' = IF InTree(v) THEN [tiles EXCEPT ![tv[v].wset] = Detached(@, v)] ELSE tiles
  /\ tv' = [tv EXCEPT ![v] = Unmapped]

TileMinimized(v) ==
  /\ tv[v].mapped /\ ~tv[v].minimized /\ Stop
  /\ tiles' = IF InTree(v) THEN [tiles EXCEPT ![tv[v].wset] = Detached(@, v)] ELSE tiles
  /\ tv' = [tv EXCEPT ![v].minimized = TRUE, ![v].full = @ /\ ~InTree(v)]

TileRestored(v) ==
  /\ tv[v].mapped /\ tv[v].minimized /\ Stop
  /\ LET d == Attached(tiles[tv[v].wset], v, tiles[tv[v].wset].current) IN
     /\ tiles' = [tiles EXCEPT ![tv[v].wset] = d]
     /\ tv' = FullscreenAfter([tv EXCEPT ![v].minimized = FALSE], d, v)

(* on_toggle_tiled_state, of the active view.                              *)
ToggleTiled(v) ==
  /\ tv[v].mapped /\ ~tv[v].minimized /\ Stop
  /\ IF InTree(v) THEN /\ tiles' = [tiles EXCEPT ![tv[v].wset] = Detached(@, v)]
                       /\ tv' = [tv EXCEPT ![v].full = FALSE]
     ELSE Attach(tv[v].wset, v, tiles[tv[v].wset].current)

(* on_view_change_workspace.                                               *)
ChangeViewWorkspace(v, x) ==
  LET d == Attached(Detached(tiles[tv[v].wset], v), v, x) IN
  /\ InTree(v) /\ x <= tiles[tv[v].wset].grid /\ Stop
  /\ tiles' = [tiles EXCEPT ![tv[v].wset] = d]
  /\ tv' = FullscreenAfter([tv EXCEPT ![v].full = FALSE], d, v)

\* Mutant of Left: the node stays in the set that the view leaves.
LeftBehind(v) == tiles

(* on_view_pre_moved_to_wset and on_view_moved_to_wset.                    *)
Left(v) == IF InTree(v) THEN [tiles EXCEPT ![tv[v].wset] = Detached(@, v)] ELSE tiles

MoveToSet(v, s) ==
  LET d == Attached(tiles[s], v, tiles[s].current)
      moved == [tv EXCEPT ![v].wset = s, ![v].full = @ /\ ~InTree(v)]
  IN /\ tv[v].mapped /\ tv[v].wset # s /\ Stop
     /\ IF InTree(v) THEN /\ tiles' = [Left(v) EXCEPT ![s] = d]
                          /\ tv' = FullscreenAfter(moved, d, v)
        ELSE tv' = moved /\ UNCHANGED tiles

SwitchWorkspace(s, x) ==
  /\ x <= tiles[s].grid /\ x # tiles[s].current
  /\ tiles' = [tiles EXCEPT ![s].current = x] /\ UNCHANGED <<tv, resizing>>

WorkareaChanged(s, area) ==
  /\ area # tiles[s].area
  /\ tiles' = [tiles EXCEPT ![s] = UpdateRootSize([@ EXCEPT !.area = area])]
  /\ UNCHANGED <<tv, resizing>>

(* resize_roots(): no view is tiled after it.                              *)
GridChanged(s, n) ==
  /\ n # tiles[s].grid /\ resizing = NoResize
  /\ tiles' = [tiles EXCEPT ![s] =
       NewRoots([@ EXCEPT !.grid = n, !.current = IF @ > n THEN n ELSE @])]
  /\ UNCHANGED <<tv, resizing>>

SetFullscreen(v, on) ==
  /\ tv[v].mapped /\ tv[v].full # on
  /\ tv' = [tv EXCEPT ![v].full = on]
  /\ tiles' = IF InTree(v) THEN [tiles EXCEPT ![tv[v].wset] = UpdateRootSize(@)] ELSE tiles
  /\ UNCHANGED resizing

FocusTiled(v) ==
  /\ InTree(v) /\ tv' = FullscreenAfter(tv, tiles[tv[v].wset], v) /\ tv' # tv
  /\ UNCHANGED <<tiles, resizing>>

-----------------------------------------------------------------------------
(* handle_drop(): v on "over", a leaf of the current workspace of a set.   *)
Over(v, over, s) ==
  /\ InTree(v) /\ v # over /\ over \in ViewsOf(tiles[s].roots[tiles[s].current])
  /\ \A u \in TileViews : tv[u].full => u \notin ViewsOf(tiles[tv[v].wset].roots[tiles[tv[v].wset].current])

(* remove_child() of the controller: indices without recalculation.        *)
Taken(p, v) == [p EXCEPT !.kids = RemoveAt(@, IndexOf(p, v))]

(* handle_swap() in one split: the second index counts without the first.  *)
SwappedIn(p, a, b) ==
  LET ia == IndexOf(p, a)
      ib == IndexOf(Taken(p, a), b)
      newA == [p.kids[IndexOf(p, b)] EXCEPT !.view = a]
      newB == [p.kids[ia] EXCEPT !.view = b]
      rest == Taken(Taken(p, a), b).kids
  IN [p EXCEPT !.kids = IF ia < ib THEN InsertAt(InsertAt(rest, ia, newB), ib, newA)
                        ELSE InsertAt(InsertAt(rest, ib, newA), ia, newB)]

RECURSIVE Exchanged(_, _, _)
Exchanged(t, a, b) ==
  IF t.dir = "view" THEN [t EXCEPT !.view = IF @ = a THEN b ELSE IF @ = b THEN a ELSE @]
  ELSE IF IndexOf(t, a) # 0 /\ IndexOf(t, b) # 0 THEN SwappedIn(t, a, b)
  ELSE [t EXCEPT !.kids = Mapped(@, LAMBDA k : Exchanged(k, a, b))]

(* The two are children of one split, v the first, and not neighbours.     *)
AcrossSplit(v, over) ==
  \E s \in TileSets : \E x \in 1..tiles[s].grid : \E path \in AllNodes(tiles[s].roots[x], <<>>) :
    LET t == NodeAt(tiles[s].roots[x], path) IN IndexOf(t, v) # 0 /\ IndexOf(t, over) > IndexOf(t, v) + 1

DropSwap(v, over, s) ==
  /\ Over(v, over, s) /\ Stop
  /\ tiles' = [q \in TileSets |-> Roots(tiles[q], LAMBDA t : Exchanged(t, v, over))]
  /\ tv' = [tv EXCEPT ![v].wset = s, ![over].wset = tv[v].wset]

(* handle_move_retile(), in a split of the right direction.                *)
Beside(d, v, over, split, s) ==
  LET after == IF split \in {"right", "below"} THEN 1 ELSE 0
      taken == [d EXCEPT ![tv[v].wset] = Roots(@, LAMBDA t : Without(t, v))]
  IN [taken EXCEPT ![s] = Roots(@, LAMBDA t : AtParent(t, over, LAMBDA p :
       AddChild(p, Leaf(v, Zero), IndexOf(p, over) + after)))]

(* ... and in a new split, which takes the index that "over" had before    *)
(* both views were removed.                                                *)
NewSplit(d, v, over, split, s, dir) ==
  LET here == d[s].roots[d[s].current]
      fresh == Split(dir, LeafOf(here, over).geo)
      pair == IF split \in {"above", "left"} THEN <<v, over>> ELSE <<over, v>>
      full == AddChild(AddChild(fresh, Leaf(pair[1], Zero), 1), Leaf(pair[2], Zero), 2)
      RECURSIVE IndexIn(_)
      IndexIn(t) == IF IndexOf(t, over) # 0 THEN IndexOf(t, over)
                    ELSE IndexIn(CHOOSE k \in ToSet(t.kids) : over \in ViewsOf(k))
      marked == [d EXCEPT ![s].roots[d[s].current] = AtParent(@, over, LAMBDA p :
        [Recalculate(Taken(p, over)) EXCEPT !.dropped = TRUE])]
      taken == [marked EXCEPT ![tv[v].wset] = Roots(@, LAMBDA t : Without(t, v))]
  IN [taken EXCEPT ![s] = Roots(@, LAMBDA t : AtDropped(t, LAMBDA p : AddChild(p, full, IndexIn(here))))]

RECURSIVE DirOver(_, _)
DirOver(t, v) == IF IndexOf(t, v) # 0 THEN t.dir
                 ELSE DirOver(CHOOSE k \in ToSet(t.kids) : v \in ViewsOf(k), v)

DropInsert(v, over, s, split) ==
  LET dir == IF split \in {"left", "right"} THEN "vertical" ELSE "horizontal"
      same == DirOver(tiles[s].roots[tiles[s].current], over) = dir
      put == IF same THEN Beside(tiles, v, over, split, s) ELSE NewSplit(tiles, v, over, split, s, dir)
  IN /\ Over(v, over, s) /\ Stop
     /\ tiles' = [q \in TileSets |-> IF q \in {s, tv[v].wset} THEN Refresh(put[q]) ELSE put[q]]
     /\ tv' = [tv EXCEPT ![v].wset = s]

-----------------------------------------------------------------------------
(* resize_view_controller_t.                                               *)
Inside(g, p) == p[1] \in g.x..(g.x + g.w - 1) /\ p[2] \in g.y..(g.y + g.h - 1)

(* A pair: two children of a split, found through a point beyond an edge.  *)
Beyond(g, edge) ==
  CASE edge = "left"  -> <<g.x - 1, g.y + g.h \div 2>>
    [] edge = "right" -> <<g.x + g.w, g.y + g.h \div 2>>
    [] edge = "above" -> <<g.x + g.w \div 2, g.y - 1>>
    [] edge = "below" -> <<g.x + g.w \div 2, g.y + g.h>>

(* find_resizing_pair(): the views of the two nodes, in order, or none.    *)
RECURSIVE Pair(_, _, _)
Pair(t, v, edge) ==
  LET g == LeafOf(t, v).geo
      found == {l \in LeavesOf(t) : Inside(l.geo, Beyond(g, edge))}
      other == (CHOOSE l \in found : TRUE).view
      Kid(u) == KidWith(t, {u})
  IN IF found = {} THEN {}
     ELSE IF Kid(v) = Kid(other) THEN Pair(t.kids[Kid(v)], v, edge)
     ELSE {IF edge \in {"left", "above"} THEN <<Kid(other), Kid(v), ViewsOf(t)>>
           ELSE <<Kid(v), Kid(other), ViewsOf(t)>>}

StartResize(s, v, vert, horiz) ==
  LET t == tiles[s].roots[tiles[s].current] IN
  /\ resizing = NoResize /\ v \in ViewsOf(t)
  /\ \A u \in ViewsOf(t) : ~tv[u].full
  /\ resizing' = [set |-> s, at |-> tiles[s].current,
                  vertical |-> Pair(t, v, vert), horizontal |-> Pair(t, v, horiz)]
  /\ UNCHANGED <<tiles, tv>>

(* adjust_geometry(), and set_geometry() of both nodes.                    *)
Clamped(delta, len1, len2) == Max({Min({delta, Max({0, len2 - MinSize})}), -Max({0, len1 - MinSize})})

\* Mutant of Adjusted: the second node keeps its size.
AdjustedFirst(t, i, j, dir, delta) ==
  LET a == t.kids[i].geo  b == t.kids[j].geo
      d == Clamped(delta, Along(dir, a), Along(dir, b))
  IN [t EXCEPT !.kids[i] = SetGeometry(@, Slice(dir, a, 0, Along(dir, a) + d)),
               !.kids[j] = SetGeometry(@, Slice(dir, b, d, Along(dir, b)))]

Adjusted(t, i, j, dir, delta) ==
  LET a == t.kids[i].geo  b == t.kids[j].geo
      d == Clamped(delta, Along(dir, a), Along(dir, b))
  IN [t EXCEPT !.kids[i] = SetGeometry(@, Slice(dir, a, 0, Along(dir, a) + d)),
               !.kids[j] = SetGeometry(@, Slice(dir, b, d, Along(dir, b) - d))]

AtSplit(t, views, Change(_)) ==
  LET path == PathTo(t, views) IN Put(t, path, Change(NodeAt(t, path)))

ResizeMotion(dx, dy) ==
  LET Moved(t, pairs, dir, delta) ==
        FoldSet(LAMBDA p, r : AtSplit(r, p[3], LAMBDA q : Adjusted(q, p[1], p[2], dir, delta)), t, pairs)
  IN /\ resizing # NoResize
     /\ tiles' = [tiles EXCEPT ![resizing.set].roots[resizing.at] =
          Moved(Moved(@, resizing.horizontal, "horizontal", dy), resizing.vertical, "vertical", dx)]
     /\ tiles' # tiles
     /\ UNCHANGED <<tv, resizing>>

EndResize == resizing # NoResize /\ Stop /\ UNCHANGED <<tiles, tv>>

-----------------------------------------------------------------------------
TileInit ==
  /\ \E area \in Areas : tiles = [s \in TileSets |->
       NewRoots([current |-> 1, grid |-> MaxTileGrid, area |-> area, roots |-> <<>>])]
  /\ tv = [v \in TileViews |-> Unmapped]
  /\ resizing = NoResize

TileSwap == \E v, u \in TileViews : \E s \in TileSets : DropSwap(v, u, s)

TileStep ==
  \/ \E v \in TileViews :
       \/ TileUnmapped(v) \/ TileMinimized(v) \/ TileRestored(v) \/ ToggleTiled(v) \/ FocusTiled(v)
       \/ \E s \in TileSets : \/ TileMapped(v, s) \/ MoveToSet(v, s)
            \/ \E u \in TileViews : \E i \in Inserts : DropInsert(v, u, s, i)
            \/ \E e \in {"left", "right"}, f \in {"above", "below"} : StartResize(s, v, e, f)
       \/ \E x \in Grids : ChangeViewWorkspace(v, x)
       \/ \E on \in BOOLEAN : SetFullscreen(v, on)
  \/ \E s \in TileSets :
       \/ \E x \in Grids : SwitchWorkspace(s, x) \/ GridChanged(s, x)
       \/ \E area \in Areas : WorkareaChanged(s, area)
  \/ \E dx, dy \in -1..1 : ResizeMotion(dx, dy)
  \/ EndResize

TileNext == TileStep \/ TileSwap

TileSpec == TileInit /\ [][TileNext]_tileVars

-----------------------------------------------------------------------------
Apart(a, b) == \/ a.x + a.w <= b.x \/ b.x + b.w <= a.x
               \/ a.y + a.h <= b.y \/ b.y + b.h <= a.y
Within(a, b) == /\ a.x >= b.x /\ a.x + a.w <= b.x + b.w
                /\ a.y >= b.y /\ a.y + a.h <= b.y + b.h

(* Where a view comes among the leaves of its trees.                       *)
LeafOrder ==
  [v \in TileViews |-> {<<s, x, i>> \in TileSets \X Grids \X (1..Cardinality(TileViews)) :
     /\ x <= tiles[s].grid /\ i <= Len(LeafSeq(tiles[s].roots[x]))
     /\ LeafSeq(tiles[s].roots[x])[i].view = v}]

(* "Insert by swapping with the source view" (tree-controller.hpp:33): a   *)
(* view that is dropped on the middle of another trades places with it,    *)
(* and no other tile moves.                                                *)
SwapTrades ==
  [][\A v, u \in TileViews : \A s \in TileSets : DropSwap(v, u, s) =>
       LeafOrder' = [w \in TileViews |-> LeafOrder[IF w = v THEN u ELSE IF w = u THEN v ELSE w]]]_tileVars

(* The tiles of a workspace are the whole of its work area, and no two of  *)
(* them overlap: after any drop, resize, removal and change of the area,   *)
(* with all the rounding in between.                                       *)
TilesFill ==
  \A s \in TileSets : \A x \in 1..tiles[s].grid :
    LET t == tiles[s].roots[x]
        leaves == LeavesOf(t)
    IN /\ t.geo = tiles[s].area
       /\ \A l \in leaves : Within(l.geo, t.geo)
       /\ \A l, m \in leaves : l # m => Apart(l.geo, m.geo)
       /\ leaves # {} => FoldSet(LAMBDA l, n : n + l.geo.w * l.geo.h, 0, leaves) = t.geo.w * t.geo.h

RECURSIVE Flat(_)
Flat(t) == t.dir = "view" \/ (Len(t.kids) >= 2 /\ \A k \in ToSet(t.kids) : Flat(k))

(* A view is at most once in the trees, in one of the set it is in, and    *)
(* only while it is there to be seen; no split has less than two children. *)
TreesRight ==
  \A s \in TileSets : \A x \in 1..tiles[s].grid :
    LET t == tiles[s].roots[x] IN
    /\ Len(LeafSeq(t)) = Cardinality(ViewsOf(t))
    /\ \A v \in ViewsOf(t) : tv[v].wset = s /\ tv[v].mapped /\ ~tv[v].minimized /\ Cardinality(At(tiles[s], v)) = 1
    /\ \A k \in ToSet(t.kids) : Flat(k)
=============================================================================
