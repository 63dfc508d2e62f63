---------------------------- MODULE Connections ----------------------------
(***************************************************************************)
(* How tiles that touch come to send to each other.  A tile's frame names  *)
(* its neighbour (mode 0) or says that there is none (mode 1);             *)
(* XBeeController::parseData has the Coordinator command the module on the *)
(* tile by UDP, and Module's handlers edit its RoutingTable.  An           *)
(* application may connect tiles too (Tile::connectTo).                    *)
(* Registry says how tokens come and go, RoutingTable how one table is     *)
(* edited under a walking callback; here a token is there or not, and a    *)
(* request to a table is one step.                                         *)
(***************************************************************************)
EXTENDS Naturals, Sequences, Selection

CONSTANTS Tiles,          \* tile IDs, positive
          Sources,        \* the tiles whose frames and moves are followed
          Types,          \* what a route carries: "/Data", "/Stream"
          Hosts,
          ModulesFor,     \* the modules [ip, osc] that may stand on a tile
          NoModule,
          MAX_ANUM,       \* size of a routing table
          MaxInFlight,    \* bound: commands under way to a host
          MaxLosses,      \* bound: commands lost
          MaxChanges,     \* bound: tiles moved, erased, their modules replaced
          MaxCalls        \* bound: calls of the application

Modules == UNION {ModulesFor[t] : t \in Tiles}
Nobody == 0               \* no neighbour, as in Tile's fields data and stream

ASSUME ConnectionsAssumption ==
    /\ Sources \subseteq Tiles
    /\ Nobody \notin Tiles /\ NoModule \notin Modules
    /\ \A m \in Modules : m \in [ip : Hosts, osc : {m.osc}]
    \* a module's path ends in the number of its tile
    /\ \A t, t2 \in Tiles : t # t2 => ModulesFor[t] \cap ModulesFor[t2] = {}
    /\ MAX_ANUM \in Nat /\ MaxInFlight \in Nat /\ MaxLosses \in Nat
    /\ MaxChanges \in Nat /\ MaxCalls \in Nat

VARIABLES touching,       \* the neighbour a tile's frames name, per type
          known,          \* the tiles in tMap
          seen,           \* Tile::data and Tile::stream
          mtkn,           \* the module registered for a tile
          rTable,         \* the routes of a module
          net,            \* commands under way to a host
          losses, changes, calls,
          met             \* history: connections ever asked for

bounds == <<losses, changes, calls>>
tileFields == <<touching, known, seen>>
vars == <<tileFields, mtkn, rTable, net, bounds, met>>

Init ==
    /\ touching = [t \in Sources |-> [ty \in Types |-> Nobody]]
    /\ known = {}
    /\ seen = [t \in Sources |-> [ty \in Types |-> Nobody]]
    /\ mtkn \in [Tiles -> Modules \cup {NoModule}]
    /\ \A t \in Tiles : mtkn[t] \in ModulesFor[t] \cup {NoModule}
    /\ rTable = [m \in Modules |-> <<>>]
    /\ net = [h \in Hosts |-> <<>>]
    /\ losses = 0 /\ changes = 0 /\ calls = 0
    /\ met = {}

-----------------------------------------------------------------------------
(* The requests a module's handlers make of its table.                     *)

RouteTo(m, ty) == [ip |-> m.ip, osc |-> <<m.osc, ty>>]
RoutesOf(s) == {s[n] : n \in DOMAIN s}

\* The loop goes on behind the entry that has moved into a removed one's
\* slot: of two matching neighbours in the table the second stays.
Removed(s, gone) ==
    LET out[n \in 1 .. Len(s)] == s[n] \in gone /\ (n = 1 \/ ~out[n - 1]) IN out
DeleteAllRoute(s, gone) ==
    LET out == Removed(s, gone)
        kept == Selected([n \in 1 .. Len(s) |-> n], {n \in 1 .. Len(s) : ~out[n]})
    IN  [n \in 1 .. Len(kept) |-> s[kept[n]]]

AddRoute(s, r) == IF Len(s) >= MAX_ANUM \/ r \in RoutesOf(s) THEN s ELSE Append(s, r)

WithOsc(s, osc) == {r \in RoutesOf(s) : r.osc = osc}
OfType(s, ty) == {r \in RoutesOf(s) : r.osc[2] = ty}

SetRoute(s, r) ==
    IF WithOsc(s, r.osc) = {r} THEN s
    ELSE AddRoute(DeleteAllRoute(s, WithOsc(s, r.osc)), r)

DeleteRoute(s, r) == Selected(s, RoutesOf(s) \ {r})

Edit(s, d) ==
    CASE d.kind = "SetRoute"       -> SetRoute(s, d.route)
      [] d.kind = "AddRoute"       -> AddRoute(s, d.route)
      [] d.kind = "DeleteRoute"    -> DeleteRoute(s, d.route)
      [] d.kind = "DeleteAllRoute" -> DeleteAllRoute(s, OfType(s, d.type))

\* The server thread of a host takes a command; it is for whatever module
\* now has the path it names, if there is one.
Deliver(h) ==
    /\ net[h] # <<>>
    /\ LET d == Head(net[h])
           m == [ip |-> h, osc |-> d.to]
       IN  IF \E t \in Tiles : mtkn[t] = m
           THEN rTable' = [rTable EXCEPT ![m] = Edit(@, d)]
           ELSE UNCHANGED rTable
    /\ net' = [net EXCEPT ![h] = Tail(@)]
    /\ UNCHANGED <<tileFields, mtkn, bounds, met>>

Lose(h) ==
    /\ net[h] # <<>> /\ losses < MaxLosses
    /\ losses' = losses + 1
    /\ net' = [net EXCEPT ![h] = Tail(@)]
    /\ UNCHANGED <<tileFields, mtkn, rTable, changes, calls, met>>

-----------------------------------------------------------------------------
(* Coordinator                                                             *)

Send(t, d) ==
    /\ Len(net[mtkn[t].ip]) < MaxInFlight
    /\ net' = [net EXCEPT ![mtkn[t].ip] = Append(@, d)]

\* connect, addConnection, disconnect.  The three datagrams share a buffer
\* each strcat lengthens: the second goes to ".../SetRoute/SetRoute", where
\* no module has a method, and so does the third.
Tell(kind, t1, t2, ty) ==
    IF mtkn[t1] = NoModule \/ mtkn[t2] = NoModule THEN UNCHANGED net
    ELSE Send(t1, [to |-> mtkn[t1].osc, kind |-> kind, route |-> RouteTo(mtkn[t2], ty)])

disconnectAll(t, ty) ==
    IF mtkn[t] = NoModule THEN UNCHANGED net
    ELSE Send(t, [to |-> mtkn[t].osc, kind |-> "DeleteAllRoute", type |-> ty])

-----------------------------------------------------------------------------
(* XBeeController::parseData                                               *)

\* Slip: the neighbour is noted only when the connection is made.
FrameNeighbourUnnoted(t, ty) ==
    /\ t \in known /\ touching[t][ty] # Nobody
    /\ seen[t][ty] \in {touching[t][ty], Nobody}
    /\ Tell("SetRoute", t, touching[t][ty], ty)
    /\ seen' = [seen EXCEPT ![t][ty] = touching[t][ty]]
    /\ UNCHANGED <<touching, known, mtkn, rTable, bounds, met>>
\* Slip: the two tiles of the frame are swapped.
FrameNeighbourSwapped(t, ty) ==
    /\ t \in known /\ touching[t][ty] # Nobody
    /\ IF seen[t][ty] \in {touching[t][ty], Nobody}
       THEN Tell("SetRoute", touching[t][ty], t, ty)
       ELSE UNCHANGED net
    /\ seen' = [seen EXCEPT ![t][ty] = touching[t][ty]]
    /\ UNCHANGED <<touching, known, mtkn, rTable, bounds, met>>
\* Mode 0.  Another neighbour than the one noted is only noted: the next
\* frame connects it.
FrameNeighbour(t, ty) ==
    /\ t \in known /\ touching[t][ty] # Nobody
    /\ IF seen[t][ty] \in {touching[t][ty], Nobody}
       THEN Tell("SetRoute", t, touching[t][ty], ty)
       ELSE UNCHANGED net
    /\ seen' = [seen EXCEPT ![t][ty] = touching[t][ty]]
    /\ UNCHANGED <<touching, known, mtkn, rTable, bounds, met>>

\* Slip: a tile that has no neighbour noted is not told again.
FrameAloneOnce(t, ty) ==
    /\ t \in known /\ touching[t][ty] = Nobody
    /\ seen[t][ty] # Nobody
    /\ disconnectAll(t, ty)
    /\ seen' = [seen EXCEPT ![t][ty] = Nobody]
    /\ UNCHANGED <<touching, known, mtkn, rTable, bounds, met>>
\* Mode 1
FrameAlone(t, ty) ==
    /\ t \in known /\ touching[t][ty] = Nobody
    /\ disconnectAll(t, ty)
    /\ seen' = [seen EXCEPT ![t][ty] = Nobody]
    /\ UNCHANGED <<touching, known, mtkn, rTable, bounds, met>>

\* Mode 2: the tile starts and gets its ID.
InitTile(t) ==
    /\ t \notin known
    /\ known' = known \cup {t}
    /\ seen' = [seen EXCEPT ![t] = [ty \in Types |-> Nobody]]
    /\ UNCHANGED <<touching, mtkn, rTable, net, bounds, met>>

-----------------------------------------------------------------------------
(* The surroundings: people, the watchdog, the controllers, an application *)

Change == changes < MaxChanges /\ changes' = changes + 1

Move(t, ty, n) ==
    /\ Change
    /\ n \in (Tiles \cup {Nobody}) \ {t, touching[t][ty]}
    /\ touching' = [touching EXCEPT ![t][ty] = n]
    /\ met' = met \cup {<<t, ty, n>>}
    /\ UNCHANGED <<known, seen, mtkn, rTable, net, losses, calls>>

\* A new module starts with an empty table.
Placed(t, m) ==
    /\ mtkn' = [mtkn EXCEPT ![t] = m]
    /\ rTable' = [x \in Modules |-> IF x \in {m, mtkn[t]} THEN <<>> ELSE rTable[x]]

Replace(t, m) ==
    /\ Change
    /\ m \in ModulesFor[t]
    /\ Placed(t, m)
    /\ UNCHANGED <<tileFields, net, losses, calls, met>>

\* XBeeController::deadCheck: the tile fell silent; deleteMtkn.
EraseTile(t) ==
    /\ Change
    /\ t \in known
    /\ known' = known \ {t}
    /\ Placed(t, NoModule)
    /\ UNCHANGED <<touching, seen, net, losses, calls, met>>

Call == calls < MaxCalls /\ calls' = calls + 1

\* Tile::connectTo, connectDataTo, connectAudioTo; disconnectFrom ...
AppConnects(kind, t1, t2, ty) ==
    /\ Call
    /\ kind \in {"AddRoute", "DeleteRoute"}
    /\ Tell(kind, t1, t2, ty)
    /\ met' = IF kind = "AddRoute" THEN met \cup {<<t1, ty, t2>>} ELSE met
    /\ UNCHANGED <<tileFields, mtkn, rTable, losses, changes>>

\* Tile::disconnectAll, disconnectDataAll, disconnectAudioAll
AppDisconnects(t, ty) ==
    /\ Call
    /\ disconnectAll(t, ty)
    /\ UNCHANGED <<tileFields, mtkn, rTable, losses, changes, met>>

-----------------------------------------------------------------------------
Frame(t, ty) == FrameNeighbour(t, ty) \/ FrameAlone(t, ty)

RadioStep == \E t \in Sources : InitTile(t) \/ \E ty \in Types : Frame(t, ty)
HostStep == \E h \in Hosts : Deliver(h)
NetworkStep == \E h \in Hosts : Lose(h)
PeopleStep ==
    \/ \E t \in Tiles, m \in Modules : Replace(t, m)
    \/ \E t \in Sources : EraseTile(t)
    \/ \E t \in Sources, ty \in Types, n \in Tiles \cup {Nobody} : Move(t, ty, n)
AppStep == \E t \in Sources, ty \in Types :
    \/ AppDisconnects(t, ty)
    \/ \E n \in Tiles, kind \in {"AddRoute", "DeleteRoute"} : AppConnects(kind, t, n, ty)

Next == RadioStep \/ HostStep \/ NetworkStep \/ PeopleStep \/ AppStep

\* Tiles repeat their frames (Tile::deadCheck counts on it), and the server
\* threads go on taking what has arrived.  Strong fairness for the frames: it
\* is the bound MaxInFlight, not the program, that holds one back at times.
Spec ==
    /\ Init /\ [][Next]_vars
    /\ \A t \in Sources, ty \in Types : SF_vars(Frame(t, ty))
    /\ \A h \in Hosts : WF_vars(Deliver(h))

-----------------------------------------------------------------------------
(* A module sends only where its tile once touched another or where the    *)
(* application connected it, and never to itself: whatever was lost,       *)
(* replaced or erased while the command was under way.  Routes to earlier  *)
(* neighbours may be left.                                                 *)
NoInventedRoutes ==
    \A t \in Tiles :
        mtkn[t] # NoModule =>
            \A r \in RoutesOf(rTable[mtkn[t]]) :
                \E t2 \in Tiles : /\ <<t, r.osc[2], t2>> \in met
                                  /\ \E m \in ModulesFor[t2] : r = RouteTo(m, r.osc[2])

(* The tile t goes on touching n, both known and with their modules.       *)
Touches(t, n, ty) == touching[t][ty] = n /\ t \in known
Together(t, n, ty, m1, m2) == Touches(t, n, ty) /\ mtkn[t] = m1 /\ mtkn[n] = m2

(* Tiles that go on touching, whatever happened before and whichever       *)
(* commands are lost: the module on the one comes to send to the module on *)
(* the other, and to no other host under that path, while its table has    *)
(* room (stale routes to earlier neighbours are never cleared and take it). *)
ConnectedIsRouted ==
    \A t \in Sources, n \in Tiles, ty \in Types : \A m1 \in ModulesFor[t], m2 \in ModulesFor[n] :
        t # n =>
        (<>[](Together(t, n, ty, m1, m2) /\ Len(rTable[m1]) < MAX_ANUM)
            => <>[](WithOsc(rTable[m1], <<m2.osc, ty>>) = {RouteTo(m2, ty)}))

(* A tile that goes on touching none for a type: its module comes to send  *)
(* nothing of that type, although one DeleteAllRoute skips entries and     *)
(* may be lost.                                                            *)
AloneIsSilent ==
    \A t \in Sources, ty \in Types : \A m \in ModulesFor[t] :
        <>[](Touches(t, Nobody, ty) /\ mtkn[t] = m)
            => <>[](OfType(rTable[m], ty) = {})
=============================================================================
