------------------------------- MODULE MCPlugins -------------------------------
(***************************************************************************)
(* The output layout with the idle plugin, and the tiles of simple-tile,   *)
(* checked in one run: "part" says which of them moves, so that their      *)
(* states add up.  The tiles have two parts: "layout" is one workspace     *)
(* whose views are never minimized or fullscreen, "places" has two views   *)
(* and one work area.                                                      *)
(***************************************************************************)
EXTENDS IdleDpms, TileTree

CONSTANTS va, vb, vc, sa, sb, \* views and sets of the tiles
          Parts

VARIABLE part

Large == [x |-> 0, y |-> 0, w |-> 4, h |-> 4]
MCAreas == {Large, [x |-> 0, y |-> 1, w |-> 4, h |-> 3]}

MCSymmetry == Permutations({va, vb})

(* Real tiles are hundreds of pixels large: what rounding does to a tile   *)
(* of a pixel does not happen.                                             *)
LargeTiles ==
  \A s \in TileSets : \A x \in 1..tiles[s].grid : \A l \in LeavesOf(tiles[s].roots[x]) :
    l.geo.w > 0 /\ l.geo.h > 0

(* One workspace of one set, whose views are all shown.                    *)
OneWorkspace ==
  /\ tiles[sa].grid = MaxTileGrid /\ tiles[sa].current = 1
  /\ \A x \in 2..MaxTileGrid : ViewsOf(tiles[sa].roots[x]) = {}
  /\ \A v \in TileViews : tv[v].wset # sb /\ ~tv[v].minimized /\ ~tv[v].full

TwoViews == ~tv[vc].mapped /\ \A s \in TileSets : tiles[s].area = Large

(* The swaps that trade places: the others are those of the run swap_order.*)
NearSwap == \E v, u \in TileViews : \E s \in TileSets : ~AcrossSplit(v, u) /\ DropSwap(v, u, s)

(* A part that does not move is in one of its initial states only.         *)
AnyConfiguration == CHOOSE c \in Configurable : TRUE

PluginsInit ==
  /\ part \in Parts
  /\ IdleInit /\ TileInit
  /\ part = "outputs" \/ (timer /\ \A o \in Outputs : cfg[o] = AnyConfiguration)
  /\ tiles[sa].area = Large

PluginsNext ==
  /\ UNCHANGED part
  /\ \/ part = "outputs" /\ IdleNext /\ UNCHANGED tileVars
     \/ part = "layout" /\ (TileStep \/ NearSwap) /\ UNCHANGED <<tiles[sb], allVars>>
        /\ LargeTiles' /\ OneWorkspace'
     \/ part = "places" /\ (TileStep \/ NearSwap) /\ UNCHANGED allVars /\ LargeTiles' /\ TwoViews'
     \/ part = "swaps" /\ TileNext /\ UNCHANGED <<tiles[sb], allVars>> /\ LargeTiles' /\ OneWorkspace'

PluginsSpec == PluginsInit /\ [][PluginsNext]_<<part, tileVars, allVars>>
=============================================================================
