----------------------------- MODULE TileWatch -----------------------------
(***************************************************************************)
(* The tiles an XBeeController knows (tMap) and their watchdog.  Frames    *)
(* of the radio enter tiles and keep them alive in the server thread;      *)
(* deadCheck runs in porttime's thread over the same map, one tile after   *)
(* another, and erases the dead ones while it iterates.                    *)
(***************************************************************************)
EXTENDS Naturals, FiniteSets

CONSTANTS Radios,       \* XBeeAddr64 of the radios
          Tiles,        \* tile IDs
          Claims,       \* <<radio, tile ID>>: the IDs a radio may be set to
          TH,           \* passes a tile may be silent
          MaxSwitches   \* bound: radios switched on or off

ASSUME TileAssumption ==
    /\ Tiles \subseteq Nat \ {0} /\ IsFiniteSet(Tiles)
    /\ Claims \subseteq Radios \X Tiles
    /\ TH \in Nat /\ MaxSwitches \in Nat

VARIABLES tMap,      \* tile ID -> Tile
          cursor,    \* the key deadCheck's iterator stands on; 0: between passes
          on,        \* the radios that are switched on
          switches

tileVars == <<tMap, cursor, on, switches>>

WatchInit ==
    /\ tMap = [t \in {} |-> 0]
    /\ cursor = 0
    /\ on = Radios /\ switches = 0

-----------------------------------------------------------------------------
(* Tile                                                                    *)

NewTile(d) == [addr |-> d, dead |-> TRUE, alive |-> FALSE, deadCount |-> 0]

\* Slip: the first sign of life leaves the tile marked dead.
IsAliveStillDead(tile) ==
    IF tile.alive THEN [tile EXCEPT !.deadCount = 0] ELSE [tile EXCEPT !.alive = TRUE]
IsAlive(tile) ==
    IF tile.alive THEN [tile EXCEPT !.deadCount = 0]
    ELSE [tile EXCEPT !.dead = FALSE, !.alive = TRUE]

Expired(t) == ~tMap[t].dead /\ tMap[t].deadCount > TH

Counted(tile) == IF tile.dead THEN tile ELSE [tile EXCEPT !.deadCount = @ + 1]

-----------------------------------------------------------------------------
(* XBeeController                                                          *)

Put(t, tile) == [u \in DOMAIN tMap \cup {t} |-> IF u = t THEN tile ELSE tMap[u]]

\* A frame of any mode from tile t, but the first (parseData).
Frame(d, t) ==
    /\ d \in on /\ t \in DOMAIN tMap
    /\ tMap' = Put(t, IsAlive(tMap[t]))
    /\ UNCHANGED <<cursor, on, switches>>

\* A frame of mode 2: the tile is new, and no other tile has its radio.
InitTile(d, t) ==
    /\ d \in on /\ t \notin DOMAIN tMap
    /\ \A u \in DOMAIN tMap : tMap[u].addr # d
    /\ tMap' = Put(t, NewTile(d))
    /\ UNCHANGED <<cursor, on, switches>>

\* The Coordinator has put a module on tile t (setAlive with its color).
SetAlive(t) ==
    /\ tMap' = IF t \in DOMAIN tMap THEN Put(t, IsAlive(tMap[t])) ELSE tMap
    /\ UNCHANGED <<cursor, on, switches>>

-----------------------------------------------------------------------------
(* deadCheck                                                               *)

Later == {t \in DOMAIN tMap : t > cursor}
NextTile == CHOOSE t \in Later : \A u \in Later : t <= u

Examine ==
    /\ Later # {} /\ ~Expired(NextTile)
    /\ tMap' = Put(NextTile, Counted(tMap[NextTile]))
    /\ cursor' = NextTile
    /\ UNCHANGED <<on, switches>>

\* The iterator is advanced after its element was erased: the pass goes on
\* behind it, or it takes what it reads for the end.
EraseDead ==
    /\ Later # {} /\ Expired(NextTile)
    /\ tMap' = [u \in DOMAIN tMap \ {NextTile} |-> tMap[u]]
    /\ cursor' \in {NextTile, 0}
    /\ UNCHANGED <<on, switches>>

EndDeadCheck ==
    /\ cursor # 0 /\ Later = {}
    /\ cursor' = 0
    /\ UNCHANGED <<tMap, on, switches>>

-----------------------------------------------------------------------------
Switch(d) ==
    /\ switches < MaxSwitches
    /\ switches' = switches + 1
    /\ on' = IF d \in on THEN on \ {d} ELSE on \cup {d}
    /\ UNCHANGED <<tMap, cursor>>

RadioStep ==
    \/ \E d \in Radios : Switch(d)
    \/ \E c \in Claims : Frame(c[1], c[2]) \/ InitTile(c[1], c[2])
DeadCheck == Examine \/ EraseDead \/ EndDeadCheck

WatchNext == RadioStep \/ DeadCheck \/ \E t \in Tiles : SetAlive(t)

\* porttime calls deadCheck again and again.
WatchSpec == WatchInit /\ [][WatchNext]_tileVars /\ WF_tileVars(DeadCheck)

-----------------------------------------------------------------------------
(* A tile that has shown life and then falls silent, no module being put   *)
(* on it any more, does not stay in the map as living: deadCheck, its      *)
(* passes cut short by its own erasing or not, gets to it, whatever the    *)
(* other tiles do.                                                         *)
Silent(t) == \A c \in Claims : c[2] = t => c[1] \notin on
SilentTilesGo ==
    \A t \in Tiles :
        <>[]Silent(t) /\ <>[][~SetAlive(t)]_tileVars
          => []<>(t \notin DOMAIN tMap \/ ~tMap[t].alive)
=============================================================================
