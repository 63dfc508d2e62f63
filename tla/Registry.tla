----------------------------- MODULE Registry -----------------------------
(***************************************************************************)
(* Which module stands on which tile, as the Coordinator's token map and   *)
(* the module lists of the ModuleControllers know it.  A controller tells  *)
(* the Coordinator of a new module (SetMdtkn) and of a deleted one         *)
(* (DeleteMdtkn) in bursts of equal datagrams; the Coordinator has a       *)
(* superseded module deleted by one command.  Every one of these is UDP.   *)
(* Each handler runs in the server thread of its process.                  *)
(***************************************************************************)
EXTENDS Naturals, Sequences

CONSTANTS Hosts,            \* IP addresses with a ModuleController
          Lists,            \* module lists (dacList, sineList, ...) of all hosts
          DACLists,         \* the dacLists among them
          HostOf,           \* the host of a list
          Tiles,            \* tile IDs
          NoList,           \* no token
          MaxRequests,      \* bound: user commands
          MaxLosses,        \* bound: datagrams of bursts lost
          MaxLostCommands   \* bound: the Coordinator's commands lost

ASSUME RegistryAssumption ==
    /\ DACLists \subseteq Lists /\ NoList \notin Lists
    /\ HostOf \in [Lists -> Hosts]
    /\ MaxRequests \in Nat /\ MaxLosses \in Nat /\ MaxLostCommands \in Nat

VARIABLES modules,        \* the modules that live: <<list, tile>>
          mtknMap,        \* the list of the module registered for a tile
          toCoordinator,  \* datagrams under way, per sending host
          toHost,         \* delete commands under way, per host
          requests, losses, lostCommands,
          unheard,        \* history: created, but no copy of that received yet
          newest          \* history: the list of the module that registered last

bounds == <<requests, losses, lostCommands>>
history == <<unheard, newest>>
vars == <<modules, mtknMap, toCoordinator, toHost, bounds, history>>

\* Slip: one copy fewer.
CopiesTwo == 2
Copies == 3

Burst(kind, l, t, n) == [c \in 1 .. n |-> [kind |-> kind, list |-> l, tile |-> t]]

Broadcast(l, datagrams) ==
    toCoordinator' = [toCoordinator EXCEPT ![HostOf[l]] = @ \o datagrams]

Init ==
    /\ modules = {}
    /\ mtknMap = [t \in Tiles |-> NoList]
    /\ toCoordinator = [h \in Hosts |-> <<>>]
    /\ toHost = [h \in Hosts |-> <<>>]
    /\ requests = 0 /\ losses = 0 /\ lostCommands = 0
    /\ unheard = {} /\ newest = [t \in Tiles |-> NoList]

-----------------------------------------------------------------------------
(* ModuleController: the handler of a list (dac, adc, sine, ...).           *)

\* First argument 1; a module of that name already there is an error.
CreateModule(l, t) ==
    /\ requests < MaxRequests
    /\ requests' = requests + 1
    /\ <<l, t>> \notin modules
    /\ modules' = modules \cup {<<l, t>>}
    /\ unheard' = unheard \cup {<<l, t>>}
    /\ Broadcast(l, Burst("set", l, t, Copies))
    /\ UNCHANGED <<mtknMap, toHost, losses, lostCommands, newest>>

\* First argument 0.  The destructor broadcasts; dac() does so itself before.
Remove(l, t) ==
    /\ modules' = modules \ {<<l, t>>}
    /\ IF <<l, t>> \in modules
       THEN Broadcast(l, Burst("delete", l, t, IF l \in DACLists THEN 2 * Copies ELSE Copies))
       ELSE UNCHANGED toCoordinator

\* The user's command.
DeleteModule(l, t) ==
    /\ requests < MaxRequests
    /\ requests' = requests + 1
    /\ <<l, t>> \in modules
    /\ Remove(l, t)
    /\ unheard' = unheard \ {<<l, t>>}
    /\ newest' = [newest EXCEPT ![t] = IF @ = l THEN NoList ELSE @]
    /\ UNCHANGED <<mtknMap, toHost, losses, lostCommands>>

\* The Coordinator's command.
ObeyCommand(h) ==
    /\ toHost[h] # <<>>
    /\ Remove(Head(toHost[h])[1], Head(toHost[h])[2])
    /\ toHost' = [toHost EXCEPT ![h] = Tail(@)]
    /\ UNCHANGED <<mtknMap, bounds, history>>

-----------------------------------------------------------------------------
(* Coordinator                                                             *)

\* deleteMtkn(int tID), as far as it sends: the module is told to go.
SendDelete(t) ==
    toHost' = IF mtknMap[t] = NoList THEN toHost
              ELSE [toHost EXCEPT ![HostOf[mtknMap[t]]] = Append(@, <<mtknMap[t], t>>)]

\* Slip: the earlier token is overwritten, its module left running.
SetMtknOverwriting(l, t) ==
    /\ mtknMap' = [mtknMap EXCEPT ![t] = l]
    /\ UNCHANGED toHost
SetMtkn(l, t) ==
    IF mtknMap[t] = l THEN UNCHANGED <<mtknMap, toHost>>
    ELSE mtknMap' = [mtknMap EXCEPT ![t] = l] /\ SendDelete(t)

DeleteMtkn(l, t) ==
    /\ mtknMap' = [mtknMap EXCEPT ![t] = IF @ = l THEN NoList ELSE @]
    /\ UNCHANGED toHost

Receive(h) ==
    /\ toCoordinator[h] # <<>>
    /\ LET d == Head(toCoordinator[h])
       IN  /\ IF d.kind = "set" THEN SetMtkn(d.list, d.tile) ELSE DeleteMtkn(d.list, d.tile)
           /\ IF d.kind = "set" /\ <<d.list, d.tile>> \in unheard
              THEN /\ unheard' = unheard \ {<<d.list, d.tile>>}
                   /\ newest' = [newest EXCEPT ![d.tile] = d.list]
              ELSE UNCHANGED history
    /\ toCoordinator' = [toCoordinator EXCEPT ![h] = Tail(@)]
    /\ UNCHANGED <<modules, bounds>>

\* XBeeController::deadCheck has the Coordinator drop a dead tile's module.
Evict(t) ==
    /\ SendDelete(t)
    /\ mtknMap' = [mtknMap EXCEPT ![t] = NoList]
    /\ newest' = [newest EXCEPT ![t] = NoList]
    /\ UNCHANGED <<modules, toCoordinator, bounds, unheard>>

-----------------------------------------------------------------------------
(* The network.                                                            *)

Lose(h) ==
    /\ losses < MaxLosses /\ toCoordinator[h] # <<>>
    /\ losses' = losses + 1
    /\ toCoordinator' = [toCoordinator EXCEPT ![h] = Tail(@)]
    /\ UNCHANGED <<modules, mtknMap, toHost, requests, lostCommands, history>>

LoseCommand(h) ==
    /\ lostCommands < MaxLostCommands /\ toHost[h] # <<>>
    /\ lostCommands' = lostCommands + 1
    /\ toHost' = [toHost EXCEPT ![h] = Tail(@)]
    /\ UNCHANGED <<modules, mtknMap, toCoordinator, requests, losses, history>>

UserStep == \E l \in Lists, t \in Tiles : CreateModule(l, t) \/ DeleteModule(l, t)
HostStep == \E h \in Hosts : ObeyCommand(h)
CoordinatorStep == \E h \in Hosts : Receive(h)
NetworkStep == \E h \in Hosts : Lose(h) \/ LoseCommand(h)
TileStep == \E t \in Tiles : mtknMap[t] # NoList /\ Evict(t)

Next == UserStep \/ HostStep \/ CoordinatorStep \/ NetworkStep \/ TileStep

Spec == Init /\ [][Next]_vars

\* Nobody deletes a module, no tile dies and nothing is lost.
PlacingStep == \E l \in Lists, t \in Tiles : CreateModule(l, t)
PlacingSpec == Init /\ [][PlacingStep \/ HostStep \/ CoordinatorStep]_vars

-----------------------------------------------------------------------------
Quiet == \A h \in Hosts : toCoordinator[h] = <<>> /\ toHost[h] = <<>>
Registered == {<<mtknMap[t], t>> : t \in {s \in Tiles : mtknMap[s] # NoList}}

(* Once the network is quiet every token names a module that lives, even   *)
(* when commands of the Coordinator were lost: no connection is asked of a *)
(* module that has gone.                                                   *)
TokensNameModules == Quiet => Registered \subseteq modules

(* With no command lost, every module that lives has its tile's token:     *)
(* none plays on where no tile can reach it.                               *)
ModulesAreRegistered == Quiet /\ lostCommands = 0 => modules \subseteq Registered

(* "If one is registered there first, that module is deleted"              *)
(* (Coordinator.cpp:92): of the modules that registered on a tile, the last *)
(* to do so is not the one deleted.                                        *)
NewestStays ==
    Quiet /\ lostCommands = 0
      => \A t \in Tiles : newest[t] # NoList => <<newest[t], t>> \in modules
=============================================================================
