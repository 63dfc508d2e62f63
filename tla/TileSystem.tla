---------------------------- MODULE TileSystem ----------------------------
(***************************************************************************)
(* Registry and TileWatch together, as Coordinator/main.cpp wires them:    *)
(* a token that is set keeps its tile alive (Coordinator::setMtkn calls    *)
(* XBeeController::setAlive), and a tile found dead loses its module       *)
(* (XBeeController::deadCheck calls Coordinator::deleteMtkn).              *)
(***************************************************************************)
EXTENDS Registry

CONSTANTS Radios, Claims, TH, MaxSwitches

VARIABLES tMap, cursor, on, switches

W == INSTANCE TileWatch

ASSUME SystemAssumption == Tiles \subseteq Nat \ {0} /\ Claims \subseteq Radios \X Tiles

registryVars == vars
tileState == <<tMap, cursor, on, switches>>
systemVars == <<vars, tMap, cursor, on, switches>>

SystemInit == Init /\ W!WatchInit

\* The token is new: the handler went on to setAlive.
SetsToken(h) ==
    LET d == Head(toCoordinator[h]) IN d.kind = "set" /\ mtknMap[d.tile] # d.list

ReceiveAndLight(h) ==
    /\ Receive(h)
    /\ IF SetsToken(h) THEN W!SetAlive(Head(toCoordinator[h]).tile) ELSE UNCHANGED tileState

\* Slip: the tile goes, its module's token stays.
EraseTileOnly == W!EraseDead /\ UNCHANGED registryVars
\* Slip: the token goes, its module is not told.
EraseTileUntold ==
    /\ W!EraseDead
    /\ mtknMap' = [mtknMap EXCEPT ![W!NextTile] = NoList]
    /\ UNCHANGED <<modules, toCoordinator, toHost, bounds, history>>
\* co->deleteMtkn, which does nothing for a tile without a token
EraseTile ==
    /\ W!EraseDead
    /\ IF mtknMap[W!NextTile] # NoList THEN Evict(W!NextTile) ELSE UNCHANGED registryVars

WatchStep == EraseTile \/ ((W!Examine \/ W!EndDeadCheck) /\ UNCHANGED registryVars)
ServerStep == \E h \in Hosts : ReceiveAndLight(h)
OtherStep == (UserStep \/ HostStep \/ NetworkStep) /\ UNCHANGED tileState
RadioStep == W!RadioStep /\ UNCHANGED registryVars

SystemNext == WatchStep \/ ServerStep \/ OtherStep \/ RadioStep

\* porttime goes on calling deadCheck, and every server thread goes on
\* taking what has arrived.
SystemSpec ==
    /\ SystemInit /\ [][SystemNext]_systemVars
    /\ WF_systemVars(WatchStep)
    /\ \A h \in Hosts : WF_systemVars(ReceiveAndLight(h))
    /\ \A h \in Hosts : WF_systemVars(ObeyCommand(h) /\ UNCHANGED tileState)

-----------------------------------------------------------------------------
(* The Coordinator with its watchdog does nothing the Registry does not    *)
(* allow: what holds there of tokens and modules holds here.               *)
ImplementsRegistry == Spec

(* The module on a tile that lived and fell silent is deleted, on whatever *)
(* host it runs: by the watchdog, or for a module put there after it.  The *)
(* network is quiet when the tile goes; later datagrams may be lost.       *)
Settled(t, l) == mtknMap[t] = l /\ Quiet /\ t \in DOMAIN tMap /\ tMap[t].alive
DeadTilesLoseTheirModules ==
    \A t \in Tiles, l \in Lists :
        (Settled(t, l) /\ []W!Silent(t)) ~> (<<l, t>> \notin modules)
=============================================================================
