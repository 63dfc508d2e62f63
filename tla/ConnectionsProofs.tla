-------------------------- MODULE ConnectionsProofs --------------------------
(***************************************************************************)
(* A module sends only where its tile has touched another or where the     *)
(* application connected it, for any number of tiles, modules and hosts:   *)
(* what the frames and calls have sent under way keeps to that, however    *)
(* late it comes and whatever has been replaced in the meantime, because a *)
(* module's path tells its tile.                                           *)
(***************************************************************************)
EXTENDS Connections, SelectionProofs

Names == {m.osc : m \in Modules}
Route == {RouteTo(m, ty) : m \in Modules, ty \in Types}
Command ==
    [to : Names, kind : {"SetRoute", "AddRoute", "DeleteRoute"}, route : Route]
        \cup [to : Names, kind : {"DeleteAllRoute"}, type : Types]

ConnectionsTypeOK ==
    /\ touching \in [Sources -> [Types -> Tiles \cup {Nobody}]]
    /\ mtkn \in [Tiles -> Modules \cup {NoModule}]
    /\ \A t \in Tiles : mtkn[t] \in ModulesFor[t] \cup {NoModule}
    /\ rTable \in [Modules -> Seq(Route)]
    /\ net \in [Hosts -> Seq(Command)]

\* One of the pairs says that the tile t has met the tile of r's module.
IsMet(pairs, t, r) ==
    \E t2 \in Tiles : \E m \in ModulesFor[t2] :
        <<t, r.osc[2], t2>> \in pairs /\ r = RouteTo(m, r.osc[2])

\* What the frames name is met,
TouchingIsMet ==
    \A t \in Sources, ty \in Types : touching[t][ty] # Nobody => <<t, ty, touching[t][ty]>> \in met

\* so is what commands under way will add to a module's table,
CommandsAreMet ==
    \A h \in Hosts : \A n \in DOMAIN net[h] : \A t \in Tiles :
        net[h][n].kind \in {"SetRoute", "AddRoute"} =>
            ([ip |-> h, osc |-> net[h][n].to] \in ModulesFor[t] => IsMet(met, t, net[h][n].route))

\* and what the tables hold, those of modules that stand on no tile too.
RoutesAreMet ==
    \A t \in Tiles : \A m \in ModulesFor[t] : \A r \in RoutesOf(rTable[m]) : IsMet(met, t, r)

ConnectionsInv == ConnectionsTypeOK /\ TouchingIsMet /\ CommandsAreMet /\ RoutesAreMet

-----------------------------------------------------------------------------
LEMMA ModulesAre ==
    ASSUME NEW m \in Modules
    PROVE  m.ip \in Hosts /\ m.osc \in Names /\ m = [ip |-> m.ip, osc |-> m.osc]
  <1>1. m \in [ip : Hosts, osc : {m.osc}]
    BY ConnectionsAssumption
  <1> QED BY <1>1 DEF Names

LEMMA OwnTile ==
    ASSUME NEW t \in Tiles, NEW t2 \in Tiles, NEW m \in ModulesFor[t], m \in ModulesFor[t2]
    PROVE  t = t2
  BY ConnectionsAssumption

LEMMA RouteToType ==
    ASSUME NEW m \in Modules, NEW ty \in Types
    PROVE  RouteTo(m, ty) \in Route /\ RouteTo(m, ty).osc[2] = ty
  <1>1. RouteTo(m, ty).osc[2] = ty
    BY DEF RouteTo
  <1> QED BY <1>1 DEF Route

LEMMA StaysMet ==
    ASSUME NEW t, NEW r, IsMet(met, t, r), met \subseteq met'
    PROVE  IsMet(met', t, r)
  BY DEF IsMet

\* A request leaves in the table what was there or what it names.
LEMMA SelectedRoutes ==
    ASSUME NEW s \in Seq(Route), NEW T
    PROVE  Selected(s, T) \in Seq(Route) /\ RoutesOf(Selected(s, T)) \subseteq RoutesOf(s)
  <1>1. Selected(s, T) \in Seq(Route)
    BY SelectedType
  <1>2. ASSUME NEW x \in RoutesOf(Selected(s, T)) PROVE x \in RoutesOf(s)
    <2>1. Occurs(x, Selected(s, T))
      BY <1>2 DEF RoutesOf, Occurs
    <2>2. Occurs(x, s)
      BY <2>1, SelectedRange
    <2> QED BY <2>2 DEF RoutesOf, Occurs
  <1> QED BY <1>1, <1>2

LEMMA DeleteAllRoutes ==
    ASSUME NEW s \in Seq(Route), NEW gone
    PROVE  DeleteAllRoute(s, gone) \in Seq(Route) /\ RoutesOf(DeleteAllRoute(s, gone)) \subseteq RoutesOf(s)
  <1> DEFINE all == [n \in 1 .. Len(s) |-> n]
             kept == Selected(all, {n \in 1 .. Len(s) : ~Removed(s, gone)[n]})
             t == [n \in 1 .. Len(kept) |-> s[kept[n]]]
  <1>1. Len(s) \in Nat /\ DOMAIN s = 1 .. Len(s) /\ \A n \in 1 .. Len(s) : s[n] \in Route
    BY LenProperties, ElementOfSeq
  <1>2. all \in Seq(1 .. Len(s))
    BY <1>1, IsASeq
  <1> HIDE DEF all
  <1>3. kept \in Seq(1 .. Len(s))
    BY <1>2, SelectedType
  <1>4. DeleteAllRoute(s, gone) = t
    BY DEF DeleteAllRoute, all
  <1> HIDE DEF kept
  <1>5. Len(kept) \in Nat /\ \A n \in 1 .. Len(kept) : kept[n] \in 1 .. Len(s)
    BY <1>3, LenProperties, ElementOfSeq
  <1>6. t \in Seq(Route)
    BY <1>1, <1>5, IsASeq
  <1>7. DOMAIN t = 1 .. Len(kept)
    OBVIOUS
  <1>8. RoutesOf(t) \subseteq RoutesOf(s)
    BY <1>1, <1>5, <1>7 DEF RoutesOf
  <1> QED BY <1>4, <1>6, <1>8

LEMMA AddRoutes ==
    ASSUME NEW s \in Seq(Route), NEW r \in Route
    PROVE  AddRoute(s, r) \in Seq(Route) /\ RoutesOf(AddRoute(s, r)) \subseteq RoutesOf(s) \cup {r}
  <1>1. CASE AddRoute(s, r) = s
    BY <1>1
  <1>2. CASE AddRoute(s, r) = Append(s, r)
    <2>1. /\ Append(s, r) \in Seq(Route) /\ Len(s) \in Nat /\ Len(Append(s, r)) = Len(s) + 1
          /\ DOMAIN s = 1 .. Len(s) /\ DOMAIN Append(s, r) = 1 .. Len(s) + 1
          /\ Append(s, r)[Len(s) + 1] = r /\ \A n \in 1 .. Len(s) : Append(s, r)[n] = s[n]
      BY AppendProperties, LenProperties
    <2>2. \A n \in 1 .. Len(s) + 1 : n \in 1 .. Len(s) \/ n = Len(s) + 1
      BY <2>1
    <2> QED BY <1>2, <2>1, <2>2 DEF RoutesOf
  <1> QED BY <1>1, <1>2 DEF AddRoute

Added(d) == IF d.kind \in {"SetRoute", "AddRoute"} THEN {d.route} ELSE {}

LEMMA CommandIs ==
    ASSUME NEW d \in Command
    PROVE  /\ d.kind \in {"SetRoute", "AddRoute", "DeleteRoute", "DeleteAllRoute"}
           /\ d.kind \in {"SetRoute", "AddRoute", "DeleteRoute"} => d.route \in Route
  BY DEF Command

LEMMA EditsKeep ==
    ASSUME NEW s \in Seq(Route), NEW d \in Command
    PROVE  Edit(s, d) \in Seq(Route) /\ RoutesOf(Edit(s, d)) \subseteq RoutesOf(s) \cup Added(d)
  <1>1. CASE d.kind = "SetRoute"
    <2>1. d.route \in Route /\ Added(d) = {d.route} /\ Edit(s, d) = SetRoute(s, d.route)
      BY <1>1, CommandIs DEF Added, Edit
    <2>2. CASE SetRoute(s, d.route) = s
      BY <2>1, <2>2
    <2>3. CASE SetRoute(s, d.route) = AddRoute(DeleteAllRoute(s, WithOsc(s, d.route.osc)), d.route)
      BY <2>1, <2>3, AddRoutes, DeleteAllRoutes
    <2> QED BY <2>2, <2>3 DEF SetRoute
  <1>2. CASE d.kind = "AddRoute"
    <2>1. d.route \in Route /\ Added(d) = {d.route} /\ Edit(s, d) = AddRoute(s, d.route)
      BY <1>2, CommandIs DEF Added, Edit
    <2> QED BY <2>1, AddRoutes
  <1>3. CASE d.kind = "DeleteRoute"
    <2>1. Edit(s, d) = Selected(s, RoutesOf(s) \ {d.route})
      BY <1>3 DEF Edit, DeleteRoute
    <2> QED BY <2>1, SelectedRoutes
  <1>4. CASE d.kind = "DeleteAllRoute"
    <2>1. Edit(s, d) = DeleteAllRoute(s, OfType(s, d.type))
      BY <1>4 DEF Edit
    <2> QED BY <2>1, DeleteAllRoutes
  <1> QED BY <1>1, <1>2, <1>3, <1>4, CommandIs

-----------------------------------------------------------------------------
(* The steps                                                               *)

LEMMA InitConnections == Init => ConnectionsInv
  <1> SUFFICES ASSUME Init PROVE ConnectionsInv
    OBVIOUS
  <1>1. <<>> \in Seq(Route) /\ <<>> \in Seq(Command) /\ DOMAIN <<>> = {}
    BY EmptySeq
  <1>2. touching = [t \in Sources |-> [ty \in Types |-> Nobody]] /\ rTable = [m \in Modules |-> <<>>]
        /\ net = [h \in Hosts |-> <<>>]
    BY DEF Init
  <1>3. ConnectionsTypeOK
    <2>1. touching \in [Sources -> [Types -> Tiles \cup {Nobody}]]
      BY <1>2
    <2>2. rTable \in [Modules -> Seq(Route)] /\ net \in [Hosts -> Seq(Command)]
      BY <1>1, <1>2
    <2> QED BY <2>1, <2>2 DEF ConnectionsTypeOK, Init
  <1>4. TouchingIsMet
    BY <1>2 DEF TouchingIsMet
  <1>5. CommandsAreMet
    BY <1>1, <1>2 DEF CommandsAreMet
  <1>6. RoutesAreMet
    <2>1. \A t \in Tiles : \A m \in ModulesFor[t] : rTable[m] = <<>>
      BY <1>2 DEF Modules
    <2> QED BY <1>1, <2>1 DEF RoutesAreMet, RoutesOf
  <1> QED BY <1>3, <1>4, <1>5, <1>6 DEF ConnectionsInv

\* What is not touched stays met.
LEMMA RestKeeps ==
    ASSUME ConnectionsInv, met \subseteq met'
    PROVE  /\ UNCHANGED touching => TouchingIsMet'
           /\ UNCHANGED net => CommandsAreMet'
           /\ UNCHANGED rTable => RoutesAreMet'
  <1>1. UNCHANGED touching => TouchingIsMet'
    BY DEF ConnectionsInv, TouchingIsMet
  <1>2. ASSUME UNCHANGED net PROVE CommandsAreMet'
    <2> SUFFICES ASSUME NEW h \in Hosts, NEW n \in DOMAIN net[h], NEW t \in Tiles,
                        net[h][n].kind \in {"SetRoute", "AddRoute"},
                        [ip |-> h, osc |-> net[h][n].to] \in ModulesFor[t]
                 PROVE  IsMet(met', t, net[h][n].route)
      BY <1>2 DEF CommandsAreMet
    <2>1. IsMet(met, t, net[h][n].route)
      BY DEF ConnectionsInv, CommandsAreMet
    <2> QED BY <1>2, <2>1 DEF IsMet
  <1>3. ASSUME UNCHANGED rTable PROVE RoutesAreMet'
    <2> SUFFICES ASSUME NEW t \in Tiles, NEW m \in ModulesFor[t], NEW r \in RoutesOf(rTable[m])
                 PROVE  IsMet(met', t, r)
      BY <1>3 DEF RoutesAreMet
    <2>1. IsMet(met, t, r)
      BY DEF ConnectionsInv, RoutesAreMet
    <2> QED BY <2>1, StaysMet
  <1> QED BY <1>1, <1>2, <1>3

LEMMA SendKeeps ==
    ASSUME ConnectionsInv, met \subseteq met', NEW t \in Tiles, mtkn[t] # NoModule,
           NEW d \in Command, d.to = mtkn[t].osc,
           d.kind \in {"SetRoute", "AddRoute"} => IsMet(met', t, d.route), Send(t, d)
    PROVE  net' \in [Hosts -> Seq(Command)] /\ CommandsAreMet'
  <1>0. /\ mtkn[t] \in ModulesFor[t] /\ mtkn[t] \in Modules /\ net \in [Hosts -> Seq(Command)]
    BY DEF ConnectionsInv, ConnectionsTypeOK, Modules
  <1> DEFINE h == mtkn[t].ip
  <1>1. h \in Hosts /\ mtkn[t] = [ip |-> h, osc |-> d.to]
    BY <1>0, ModulesAre
  <1>2. net' = [net EXCEPT ![h] = Append(@, d)]
    BY DEF Send
  <1> HIDE DEF h
  <1>3. /\ Append(net[h], d) \in Seq(Command) /\ Len(net[h]) \in Nat
        /\ DOMAIN net[h] = 1 .. Len(net[h]) /\ DOMAIN Append(net[h], d) = 1 .. Len(net[h]) + 1
        /\ Append(net[h], d)[Len(net[h]) + 1] = d
        /\ \A n \in 1 .. Len(net[h]) : Append(net[h], d)[n] = net[h][n]
    BY <1>0, <1>1, AppendProperties, LenProperties
  <1>4. net' \in [Hosts -> Seq(Command)]
    BY <1>0, <1>2, <1>3
  <1>5. ASSUME NEW x \in Hosts, NEW n \in DOMAIN net'[x], NEW t2 \in Tiles,
               net'[x][n].kind \in {"SetRoute", "AddRoute"},
               [ip |-> x, osc |-> net'[x][n].to] \in ModulesFor[t2]
        PROVE  IsMet(met', t2, net'[x][n].route)
    <2>1. CASE x = h /\ n = Len(net[h]) + 1
      <3>1. net'[x][n] = d
        BY <1>0, <1>1, <1>2, <1>3, <2>1
      <3>2. mtkn[t] \in ModulesFor[t2]
        BY <1>1, <1>5, <2>1, <3>1
      <3>3. t2 = t
        BY <1>0, <3>2, OwnTile
      <3>4. IsMet(met', t, d.route)
        BY <1>5, <3>1
      <3> QED BY <3>1, <3>3, <3>4 DEF IsMet
    <2>2. CASE ~(x = h /\ n = Len(net[h]) + 1)
      <3>1. n \in DOMAIN net[x] /\ net'[x][n] = net[x][n]
        BY <1>0, <1>1, <1>2, <1>3, <2>2
      <3>2. IsMet(met, t2, net[x][n].route)
        BY <1>5, <3>1 DEF ConnectionsInv, CommandsAreMet
      <3> QED BY <3>1, <3>2 DEF IsMet
    <2> QED BY <2>1, <2>2
  <1>6. CommandsAreMet'
    BY <1>5 DEF CommandsAreMet
  <1> QED BY <1>4, <1>6

LEMMA TellKeeps ==
    ASSUME ConnectionsInv, met \subseteq met', NEW t1 \in Tiles, NEW t2 \in Tiles, NEW ty \in Types,
           NEW kind \in {"SetRoute", "AddRoute", "DeleteRoute"},
           kind \in {"SetRoute", "AddRoute"} => <<t1, ty, t2>> \in met', Tell(kind, t1, t2, ty)
    PROVE  net' \in [Hosts -> Seq(Command)] /\ CommandsAreMet'
  <1>1. CASE UNCHANGED net
    BY <1>1, RestKeeps DEF ConnectionsInv, ConnectionsTypeOK
  <1>2. CASE ~UNCHANGED net
    <2> DEFINE r == RouteTo(mtkn[t2], ty)
               d == [to |-> mtkn[t1].osc, kind |-> kind, route |-> r]
    <2>1. mtkn[t1] # NoModule /\ mtkn[t2] # NoModule /\ Send(t1, d)
      BY <1>2 DEF Tell
    <2>2. /\ mtkn[t1] \in ModulesFor[t1] /\ mtkn[t1] \in Modules
          /\ mtkn[t2] \in ModulesFor[t2] /\ mtkn[t2] \in Modules
      BY <2>1 DEF ConnectionsInv, ConnectionsTypeOK, Modules
    <2>3. r \in Route /\ r.osc[2] = ty /\ mtkn[t1].osc \in Names
      BY <2>2, RouteToType, ModulesAre
    <2>4. d \in Command /\ d.to = mtkn[t1].osc /\ d.route = r /\ d.kind = kind
      BY <2>3 DEF Command
    <2>5. kind \in {"SetRoute", "AddRoute"} => IsMet(met', t1, r)
      BY <2>2, <2>3 DEF IsMet
    <2> HIDE DEF r
    <2>6. d.kind \in {"SetRoute", "AddRoute"} => IsMet(met', t1, d.route)
      BY <2>4, <2>5 DEF IsMet
    <2> HIDE DEF d
    <2> QED BY <2>1, <2>4, <2>6, SendKeeps
  <1> QED BY <1>1, <1>2

LEMMA DisconnectKeeps ==
    ASSUME ConnectionsInv, met \subseteq met', NEW t \in Tiles, NEW ty \in Types, disconnectAll(t, ty)
    PROVE  net' \in [Hosts -> Seq(Command)] /\ CommandsAreMet'
  <1>1. CASE UNCHANGED net
    BY <1>1, RestKeeps DEF ConnectionsInv, ConnectionsTypeOK
  <1>2. CASE ~UNCHANGED net
    <2> DEFINE d == [to |-> mtkn[t].osc, kind |-> "DeleteAllRoute", type |-> ty]
    <2>1. mtkn[t] # NoModule /\ Send(t, d)
      BY <1>2 DEF disconnectAll
    <2>2. mtkn[t] \in Modules
      BY <2>1 DEF ConnectionsInv, ConnectionsTypeOK, Modules
    <2>3. d \in Command /\ d.to = mtkn[t].osc /\ d.kind = "DeleteAllRoute"
      BY <2>2, ModulesAre DEF Command
    <2> HIDE DEF d
    <2> QED BY <2>1, <2>3, SendKeeps
  <1> QED BY <1>1, <1>2

\* A frame or a call sends a command and leaves tokens and tables alone.
LEMMA CommandKeeps ==
    ASSUME ConnectionsInv, met \subseteq met', UNCHANGED <<touching, mtkn, rTable>>,
           net' \in [Hosts -> Seq(Command)], CommandsAreMet'
    PROVE  ConnectionsInv'
  <1>1. ConnectionsTypeOK'
    BY DEF ConnectionsInv, ConnectionsTypeOK
  <1> QED BY <1>1, RestKeeps DEF ConnectionsInv

LEMMA FrameKeeps ==
    ASSUME ConnectionsInv, NEW t \in Sources, NEW ty \in Types, Frame(t, ty)
    PROVE  ConnectionsInv'
  <1>1. t \in Tiles
    BY ConnectionsAssumption
  <1>2. CASE FrameNeighbour(t, ty)
    <2>1. /\ touching[t][ty] \in Tiles /\ <<t, ty, touching[t][ty]>> \in met
          /\ UNCHANGED <<touching, mtkn, rTable, met>>
          /\ Tell("SetRoute", t, touching[t][ty], ty) \/ UNCHANGED net
      BY <1>2 DEF FrameNeighbour, ConnectionsInv, ConnectionsTypeOK, TouchingIsMet
    <2>2. CASE Tell("SetRoute", t, touching[t][ty], ty)
      <3>1. net' \in [Hosts -> Seq(Command)] /\ CommandsAreMet'
        BY <1>1, <2>1, <2>2, TellKeeps
      <3> QED BY <2>1, <3>1, CommandKeeps
    <2>3. CASE UNCHANGED net
      <3>1. net' \in [Hosts -> Seq(Command)] /\ CommandsAreMet'
        BY <2>1, <2>3, RestKeeps DEF ConnectionsInv, ConnectionsTypeOK
      <3> QED BY <2>1, <3>1, CommandKeeps
    <2> QED BY <2>1, <2>2, <2>3
  <1>3. CASE FrameAlone(t, ty)
    <2>1. disconnectAll(t, ty) /\ UNCHANGED <<touching, mtkn, rTable, met>>
      BY <1>3 DEF FrameAlone
    <2>2. net' \in [Hosts -> Seq(Command)] /\ CommandsAreMet'
      BY <1>1, <2>1, DisconnectKeeps
    <2> QED BY <2>1, <2>2, CommandKeeps
  <1> QED BY <1>2, <1>3 DEF Frame

\* A host's queue without its head.
LEMMA TailKeeps ==
    ASSUME ConnectionsInv, NEW h \in Hosts, net[h] # <<>>, net' = [net EXCEPT ![h] = Tail(@)],
           UNCHANGED met
    PROVE  net' \in [Hosts -> Seq(Command)] /\ CommandsAreMet'
  <1>1. net \in [Hosts -> Seq(Command)]
    BY DEF ConnectionsInv, ConnectionsTypeOK
  <1>2. /\ Tail(net[h]) \in Seq(Command) /\ Len(net[h]) \in Nat /\ DOMAIN net[h] = 1 .. Len(net[h])
        /\ Len(Tail(net[h])) = Len(net[h]) - 1 /\ DOMAIN Tail(net[h]) = 1 .. Len(net[h]) - 1
        /\ \A n \in 1 .. Len(net[h]) - 1 : Tail(net[h])[n] = net[h][n + 1]
    BY <1>1, HeadTailProperties, LenProperties
  <1>3. net' \in [Hosts -> Seq(Command)]
    BY <1>1, <1>2
  <1>4. \A x \in Hosts : \A n \in DOMAIN net'[x] : \E k \in DOMAIN net[x] : net'[x][n] = net[x][k]
    <2> SUFFICES ASSUME NEW x \in Hosts, NEW n \in DOMAIN net'[x]
                 PROVE  \E k \in DOMAIN net[x] : net'[x][n] = net[x][k]
      OBVIOUS
    <2>1. CASE x = h
      <3>1. n \in 1 .. Len(net[h]) - 1 /\ net'[x][n] = net[h][n + 1] /\ n + 1 \in DOMAIN net[h]
        BY <1>1, <1>2, <2>1
      <3> QED BY <2>1, <3>1
    <2>2. CASE x # h
      BY <1>1, <2>2
    <2> QED BY <2>1, <2>2
  <1>5. CommandsAreMet'
    <2> SUFFICES ASSUME NEW x \in Hosts, NEW n \in DOMAIN net'[x], NEW t \in Tiles,
                        net'[x][n].kind \in {"SetRoute", "AddRoute"},
                        [ip |-> x, osc |-> net'[x][n].to] \in ModulesFor[t]
                 PROVE  IsMet(met, t, net'[x][n].route)
      BY DEF CommandsAreMet
    <2>1. PICK k \in DOMAIN net[x] : net'[x][n] = net[x][k]
      BY <1>4
    <2>2. net[x][k].kind \in {"SetRoute", "AddRoute"} /\ [ip |-> x, osc |-> net[x][k].to] \in ModulesFor[t]
      BY <2>1
    <2>3. IsMet(met, t, net[x][k].route)
      BY <2>2 DEF ConnectionsInv, CommandsAreMet
    <2> QED BY <2>1, <2>3
  <1> QED BY <1>3, <1>5

LEMMA DeliverKeeps == ASSUME ConnectionsInv, NEW h \in Hosts, Deliver(h) PROVE ConnectionsInv'
  <1> DEFINE d == Head(net[h])
             m == [ip |-> h, osc |-> d.to]
  <1>1. /\ net[h] # <<>> /\ net' = [net EXCEPT ![h] = Tail(@)] /\ UNCHANGED <<touching, mtkn, met>>
        /\ \/ \E t \in Tiles : mtkn[t] = m /\ rTable' = [rTable EXCEPT ![m] = Edit(@, d)]
           \/ UNCHANGED rTable
    BY DEF Deliver, tileFields
  <1>2. net' \in [Hosts -> Seq(Command)] /\ CommandsAreMet'
    BY <1>1, TailKeeps
  <1>3. CASE UNCHANGED rTable
    BY <1>1, <1>2, <1>3, CommandKeeps
  <1>4. ASSUME NEW t \in Tiles, mtkn[t] = m, rTable' = [rTable EXCEPT ![m] = Edit(@, d)]
        PROVE  ConnectionsInv'
    <2>1. /\ net[h] \in Seq(Command) /\ rTable \in [Modules -> Seq(Route)]
          /\ m \in ModulesFor[t] \cup {NoModule} /\ m \in Modules \cup {NoModule}
      BY <1>4 DEF ConnectionsInv, ConnectionsTypeOK
    <2>2. d \in Command /\ 1 \in DOMAIN net[h] /\ d = net[h][1]
      BY <1>1, <2>1, HeadTailProperties, LenProperties
    <2>3. ASSUME m \in Modules PROVE ConnectionsInv'
      <3>1. rTable[m] \in Seq(Route)
        BY <2>1, <2>3
      <3> HIDE DEF d
      <3>2. Edit(rTable[m], d) \in Seq(Route) /\ RoutesOf(Edit(rTable[m], d)) \subseteq RoutesOf(rTable[m]) \cup Added(d)
        BY <2>2, <3>1, EditsKeep
      <3>3. rTable' \in [Modules -> Seq(Route)] /\ rTable'[m] = Edit(rTable[m], d)
            /\ \A x \in Modules : x # m => rTable'[x] = rTable[x]
        BY <1>4, <2>1, <2>3, <3>2
      <3>4. ConnectionsTypeOK'
        BY <1>1, <1>2, <3>3 DEF ConnectionsInv, ConnectionsTypeOK
      <3>5. ASSUME NEW x \in Tiles, NEW y \in ModulesFor[x], NEW r \in RoutesOf(rTable'[y])
            PROVE  IsMet(met', x, r)
        <4>1. y \in Modules
          BY DEF Modules
        <4>2. CASE r \in RoutesOf(rTable[y])
          BY <1>1, <4>2 DEF ConnectionsInv, RoutesAreMet
        <4>3. CASE r \notin RoutesOf(rTable[y])
          <5>1. y = m /\ r \in Added(d)
            BY <3>2, <3>3, <3>5, <4>1, <4>3
          <5>2. d.kind \in {"SetRoute", "AddRoute"} /\ r = d.route
            BY <5>1 DEF Added
          <5>3. IsMet(met, x, d.route)
            BY <2>2, <5>1, <5>2 DEF ConnectionsInv, CommandsAreMet
          <5> QED BY <1>1, <5>2, <5>3
        <4> QED BY <4>2, <4>3
      <3>6. RoutesAreMet'
        BY <3>5 DEF RoutesAreMet, RoutesOf
      <3> QED BY <1>1, <1>2, <3>4, <3>6, RestKeeps DEF ConnectionsInv
    <2>4. ASSUME m = NoModule, m \notin Modules PROVE ConnectionsInv'
      <3>1. UNCHANGED rTable
        BY <1>4, <2>1, <2>4
      <3> QED BY <1>1, <1>2, <3>1, CommandKeeps
    <2> QED BY <2>1, <2>3, <2>4
  <1> QED BY <1>1, <1>3, <1>4

LEMMA PlacedKeeps ==
    ASSUME ConnectionsInv, NEW t \in Tiles, NEW m \in ModulesFor[t] \cup {NoModule}, Placed(t, m),
           UNCHANGED <<touching, net, met>>
    PROVE  ConnectionsInv'
  <1>1. /\ rTable' = [x \in Modules |-> IF x \in {m, mtkn[t]} THEN <<>> ELSE rTable[x]]
        /\ mtkn' = [mtkn EXCEPT ![t] = m] /\ m \in Modules \cup {NoModule}
    BY DEF Placed, Modules
  <1>2. <<>> \in Seq(Route) /\ DOMAIN <<>> = {}
    BY EmptySeq
  <1>3. ConnectionsTypeOK'
    <2>1. rTable \in [Modules -> Seq(Route)] /\ mtkn \in [Tiles -> Modules \cup {NoModule}]
      BY DEF ConnectionsInv, ConnectionsTypeOK
    <2>2. rTable' \in [Modules -> Seq(Route)]
      BY <1>1, <1>2, <2>1
    <2>3. mtkn' \in [Tiles -> Modules \cup {NoModule}]
      BY <1>1, <2>1
    <2>4. \A x \in Tiles : mtkn'[x] \in ModulesFor[x] \cup {NoModule}
      BY <1>1, <2>1 DEF ConnectionsInv, ConnectionsTypeOK
    <2> QED BY <2>2, <2>3, <2>4 DEF ConnectionsInv, ConnectionsTypeOK
  <1>4. RoutesAreMet'
    <2> SUFFICES ASSUME NEW x \in Tiles, NEW y \in ModulesFor[x], NEW r \in RoutesOf(rTable'[y])
                 PROVE  IsMet(met, x, r)
      BY DEF RoutesAreMet, RoutesOf
    <2>1. rTable'[y] = <<>> \/ rTable'[y] = rTable[y]
      BY <1>1 DEF Modules
    <2>2. rTable'[y] # <<>>
      BY <1>2 DEF RoutesOf
    <2> QED BY <2>1, <2>2 DEF ConnectionsInv, RoutesAreMet
  <1> QED BY <1>3, <1>4, RestKeeps DEF ConnectionsInv

LEMMA MoveKeeps ==
    ASSUME ConnectionsInv, NEW t \in Sources, NEW ty \in Types, NEW n \in Tiles \cup {Nobody}, Move(t, ty, n)
    PROVE  ConnectionsInv'
  <1>1. /\ touching' = [touching EXCEPT ![t][ty] = n] /\ met' = met \cup {<<t, ty, n>>}
        /\ UNCHANGED <<mtkn, rTable, net>>
    BY DEF Move
  <1>2. touching \in [Sources -> [Types -> Tiles \cup {Nobody}]]
    BY DEF ConnectionsInv, ConnectionsTypeOK
  <1>3. ConnectionsTypeOK'
    BY <1>1, <1>2 DEF ConnectionsInv, ConnectionsTypeOK
  <1>4. TouchingIsMet'
    BY <1>1, <1>2 DEF ConnectionsInv, TouchingIsMet
  <1> QED BY <1>1, <1>3, <1>4, RestKeeps DEF ConnectionsInv

LEMMA AppKeeps ==
    ASSUME ConnectionsInv, AppStep
    PROVE  ConnectionsInv'
  <1>1. PICK t \in Sources, ty \in Types : \/ AppDisconnects(t, ty)
                                          \/ \E n \in Tiles, kind \in {"AddRoute", "DeleteRoute"} : AppConnects(kind, t, n, ty)
    BY DEF AppStep
  <1>2. t \in Tiles
    BY ConnectionsAssumption
  <1>3. CASE AppDisconnects(t, ty)
    <2>1. disconnectAll(t, ty) /\ UNCHANGED <<touching, mtkn, rTable, met>>
      BY <1>3 DEF AppDisconnects, tileFields
    <2>2. net' \in [Hosts -> Seq(Command)] /\ CommandsAreMet'
      BY <1>2, <2>1, DisconnectKeeps
    <2> QED BY <2>1, <2>2, CommandKeeps
  <1>4. ASSUME NEW n \in Tiles, NEW kind \in {"AddRoute", "DeleteRoute"}, AppConnects(kind, t, n, ty)
        PROVE  ConnectionsInv'
    <2>1. /\ Tell(kind, t, n, ty) /\ UNCHANGED <<touching, mtkn, rTable>> /\ met \subseteq met'
          /\ kind \in {"SetRoute", "AddRoute"} => <<t, ty, n>> \in met'
      BY <1>4 DEF AppConnects, tileFields
    <2>2. net' \in [Hosts -> Seq(Command)] /\ CommandsAreMet'
      BY <1>2, <2>1, TellKeeps
    <2> QED BY <2>1, <2>2, CommandKeeps
  <1> QED BY <1>1, <1>3, <1>4

LEMMA StepsKeep == ConnectionsInv /\ [Next]_vars => ConnectionsInv'
  <1> SUFFICES ASSUME ConnectionsInv, [Next]_vars PROVE ConnectionsInv'
    OBVIOUS
  <1>0. net \in [Hosts -> Seq(Command)] /\ CommandsAreMet
    BY DEF ConnectionsInv, ConnectionsTypeOK
  <1>1. ASSUME NEW t \in Sources, InitTile(t) PROVE ConnectionsInv'
    <2>1. UNCHANGED <<touching, mtkn, rTable, net, met>>
      BY <1>1 DEF InitTile
    <2> QED BY <1>0, <2>1, RestKeeps, CommandKeeps
  <1>2. ASSUME NEW t \in Sources, NEW ty \in Types, Frame(t, ty) PROVE ConnectionsInv'
    BY <1>2, FrameKeeps
  <1>3. ASSUME NEW h \in Hosts, Deliver(h) PROVE ConnectionsInv'
    BY <1>3, DeliverKeeps
  <1>4. ASSUME NEW h \in Hosts, Lose(h) PROVE ConnectionsInv'
    <2>1. net[h] # <<>> /\ net' = [net EXCEPT ![h] = Tail(@)] /\ UNCHANGED <<touching, mtkn, rTable, met>>
      BY <1>4 DEF Lose, tileFields
    <2>2. net' \in [Hosts -> Seq(Command)] /\ CommandsAreMet'
      BY <2>1, TailKeeps
    <2> QED BY <2>1, <2>2, CommandKeeps
  <1>5. ASSUME NEW t \in Tiles, NEW m \in Modules, Replace(t, m) PROVE ConnectionsInv'
    BY <1>5, PlacedKeeps DEF Replace, tileFields
  <1>6. ASSUME NEW t \in Sources, EraseTile(t) PROVE ConnectionsInv'
    BY <1>6, PlacedKeeps, ConnectionsAssumption DEF EraseTile
  <1>7. ASSUME NEW t \in Sources, NEW ty \in Types, NEW n \in Tiles \cup {Nobody}, Move(t, ty, n)
        PROVE  ConnectionsInv'
    BY <1>7, MoveKeeps
  <1>8. CASE UNCHANGED vars
    <2>1. UNCHANGED <<touching, mtkn, rTable, net, met>>
      BY <1>8 DEF vars, tileFields
    <2> QED BY <1>0, <2>1, RestKeeps, CommandKeeps
  <1> QED BY <1>1, <1>2, <1>3, <1>4, <1>5, <1>6, <1>7, <1>8, AppKeeps
          DEF Next, RadioStep, HostStep, NetworkStep, PeopleStep

(* However late a command is delivered and whatever has been lost, moved,  *)
(* replaced or erased since it was sent: no table of any module has a      *)
(* route to a tile that its own tile never touched and was not connected   *)
(* to by the application (parseData, Coordinator::connect, setRoute).      *)
THEOREM RoutesComeFromTiles == Spec => []NoInventedRoutes
  <1>1. ConnectionsInv => NoInventedRoutes
    <2> SUFFICES ASSUME ConnectionsInv, NEW t \in Tiles, mtkn[t] # NoModule, NEW r \in RoutesOf(rTable[mtkn[t]])
                 PROVE  \E t2 \in Tiles : /\ <<t, r.osc[2], t2>> \in met
                                         /\ \E m \in ModulesFor[t2] : r = RouteTo(m, r.osc[2])
      BY DEF NoInventedRoutes
    <2>1. mtkn[t] \in ModulesFor[t]
      BY DEF ConnectionsInv, ConnectionsTypeOK
    <2>2. IsMet(met, t, r)
      BY <2>1 DEF ConnectionsInv, RoutesAreMet
    <2> QED BY <2>2 DEF IsMet
  <1> QED BY InitConnections, StepsKeep, <1>1, PTL DEF Spec
=============================================================================
