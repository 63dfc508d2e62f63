----------------------------- MODULE Catalogue -----------------------------
(***************************************************************************)
(* The ModuleList: which kinds of module the hosts of the network offer.   *)
(* Somebody asks for it by broadcast (ModuleList::requestML); every host   *)
(* answers for each kind it offers (sendModuleList), each datagram three   *)
(* times; the list numbers the kinds as they come, and a module is created *)
(* by that number (ModuleList::createModule).                              *)
(* Two programs answer: ModuleController (and MLTest's ModuleManager) with *)
(* a list of kinds, and ModuleManager with one.  A ModuleController opens  *)
(* a socket for each kind and closes the last one only.  The main thread   *)
(* of a program announces it with the same call when it starts, beside the *)
(* server thread.  No program says goodbye: nothing calls deleteModuleList.*)
(***************************************************************************)
EXTENDS Naturals, Sequences, FiniteSets

CONSTANTS Controllers,   \* hosts with a ModuleController
          Managers,      \* hosts with a program derived from ModuleManager
          Kinds,         \* the kinds [osc, mColor] a host offers, in order
          Starting,      \* sets of hosts that may start beside the list, the others
                         \* having announced themselves before it
          Colours,       \* what an mColor that was never set may hold
          Unset,         \* the mColor setMList refuses, -1
          TileIDs,       \* tile IDs, of at most three digits
          Commands,      \* what is ordered: "create", "delete"
          MaxSockets,    \* descriptors a process may have open
          MaxRequests,   \* bound: requestML by the user
          MaxLosses,     \* bound: datagrams lost
          MaxOrders      \* bound: modules ordered or given up by number

Hosts == Controllers \cup Managers
\* Slip: one copy fewer.
CopiesTwo == 2
Copies == 3

ASSUME CatalogueAssumption ==
    /\ Controllers \cap Managers = {}
    /\ \A h \in Hosts : Len(Kinds[h]) \in Nat /\ DOMAIN Kinds[h] = 1 .. Len(Kinds[h])
    /\ \A h \in Managers : Len(Kinds[h]) = 1
    /\ \A h \in Hosts : \A n \in DOMAIN Kinds[h] : Kinds[h][n].mColor # Unset
    /\ Starting \subseteq SUBSET Hosts
    /\ MaxSockets \in Nat /\ MaxRequests \in Nat /\ MaxLosses \in Nat /\ MaxOrders \in Nat

VARIABLES mList,        \* the list: [ip, osc, mColor, tID], tID its number
          toList,       \* datagrams from a host to the list
          toHost,       \* requests and commands to a host
          sockets,      \* descriptors a host's process has left open
          announced,    \* kinds a host's main thread has announced
          requests, losses, orders

bounds == <<requests, losses, orders>>
network == <<toList, toHost>>
vars == <<mList, network, sockets, announced, bounds>>

Times(n, d) == [c \in 1 .. n |-> d]

Init ==
    /\ mList = <<>>
    /\ toList = [h \in Hosts |-> <<>>] /\ toHost = [h \in Hosts |-> <<>>]
    /\ sockets = [h \in Hosts |-> 0]
    /\ \E new \in Starting : announced = [h \in Hosts |-> IF h \in new THEN 0 ELSE Len(Kinds[h])]
    /\ requests = 0 /\ losses = 0 /\ orders = 0

-----------------------------------------------------------------------------
(* ModuleList                                                              *)

requestML ==
    /\ requests < MaxRequests
    /\ requests' = requests + 1
    /\ toHost' = [h \in Hosts |-> toHost[h] \o Times(Copies, [kind |-> "request"])]
    /\ UNCHANGED <<mList, toList, sockets, announced, losses, orders>>

ListedAt(h, osc) == {n \in DOMAIN mList : mList[n].ip = h /\ mList[n].osc = osc}

\* Slip: the same kind is listed again.
setMListAgain(h, d) ==
    IF d.mColor = Unset THEN mList
    ELSE Append(mList, [ip |-> h, osc |-> d.osc, mColor |-> d.mColor, tID |-> Len(mList) + 1])
\* The number is the entry's place when it comes; the sender's address
\* stands for the one in the message.
setMList(h, d) ==
    IF ListedAt(h, d.osc) # {} \/ d.mColor = Unset THEN mList
    ELSE Append(mList, [ip |-> h, osc |-> d.osc, mColor |-> d.mColor, tID |-> Len(mList) + 1])

TakeAnswer(h) ==
    /\ toList[h] # <<>>
    /\ mList' = setMList(h, Head(toList[h]))
    /\ toList' = [toList EXCEPT ![h] = Tail(@)]
    /\ UNCHANGED <<toHost, sockets, announced, bounds>>

\* The tile ID as the four deciders of createModule and deleteModule write it:
\* whatever the first of three digits is, 1 is written.
Digits(t) == IF t < 100 THEN t ELSE 100 + (t % 100)

\* createModule(tID, mc), deleteModule(tID, mc): the first entry numbered mc.
First(mc) == CHOOSE n \in DOMAIN mList :
                 mList[n].tID = mc /\ \A k \in 1 .. n - 1 : mList[k].tID # mc
Order(what, t, mc) ==
    /\ orders < MaxOrders
    /\ orders' = orders + 1
    /\ \E n \in DOMAIN mList : mList[n].tID = mc
    /\ LET e == mList[First(mc)]
       IN  toHost' = [toHost EXCEPT ![e.ip] =
                         Append(@, [kind |-> what, osc |-> e.osc, tile |-> Digits(t)])]
    /\ UNCHANGED <<mList, toList, sockets, announced, requests, losses>>
-----------------------------------------------------------------------------
(* ModuleController, ModuleManager                                         *)

SetDatagram(osc, c) == [kind |-> "set", osc |-> osc, mColor |-> c]

\* The copies of one kind: equal, and the list takes the first only.
AnswerOf(h, n) == Times(Copies, SetDatagram(Kinds[h][n].osc, Kinds[h][n].mColor))

\* A kind for which no socket could be opened is not sent.
Answer(h) ==
    LET one(n) == IF sockets[h] + n <= MaxSockets THEN AnswerOf(h, n) ELSE <<>>
        all[n \in 0 .. Len(Kinds[h])] == IF n = 0 THEN <<>> ELSE all[n - 1] \o one(n)
    IN  all[Len(Kinds[h])]

\* close(sock) stands behind the loop.
LeftOpen(h) ==
    LET opened == {n \in DOMAIN Kinds[h] : sockets[h] + n <= MaxSockets}
    IN  IF Cardinality(opened) = Len(Kinds[h]) THEN Cardinality(opened) - 1
                                               ELSE Cardinality(opened)

ControllerSends(h) ==
    /\ toList' = [toList EXCEPT ![h] = @ \o Answer(h)]
    /\ sockets' = [sockets EXCEPT ![h] = @ + LeftOpen(h)]

\* The local mColor hides the field and is never set.
ManagerSends(h) ==
    /\ \E c \in Colours \cup {Unset} :
           toList' = [toList EXCEPT ![h] = @ \o Times(Copies, SetDatagram(Kinds[h][1].osc, c))]
    /\ UNCHANGED sockets

sendModuleList(h) == IF h \in Controllers THEN ControllerSends(h) ELSE ManagerSends(h)

\* The server thread of a host takes a request, or a command: what the
\* handler of a kind does with that is Registry's.
TakeRequest(h) ==
    /\ toHost[h] # <<>> /\ Head(toHost[h]).kind = "request"
    /\ sendModuleList(h)
    /\ toHost' = [toHost EXCEPT ![h] = Tail(@)]
    /\ UNCHANGED <<mList, announced, bounds>>

TakeCommand(h) ==
    /\ toHost[h] # <<>> /\ Head(toHost[h]).kind # "request"
    /\ toHost' = [toHost EXCEPT ![h] = Tail(@)]
    /\ UNCHANGED <<mList, toList, sockets, announced, bounds>>

\* The main thread's sendModuleList, a kind at a time.
Announce(h) ==
    LET n == announced[h] + 1
        opens == sockets[h] < MaxSockets
    IN  /\ n \in DOMAIN Kinds[h]
        /\ announced' = [announced EXCEPT ![h] = n]
        /\ IF h \in Managers THEN ManagerSends(h)
           ELSE /\ toList' = IF opens THEN [toList EXCEPT ![h] = @ \o AnswerOf(h, n)] ELSE toList
                /\ sockets' = IF opens /\ n < Len(Kinds[h]) THEN [sockets EXCEPT ![h] = @ + 1]
                                                            ELSE sockets
        /\ UNCHANGED <<mList, toHost, bounds>>

-----------------------------------------------------------------------------
LoseAny(queue, h) ==
    /\ queue[h] # <<>> /\ losses < MaxLosses
    /\ losses' = losses + 1
LoseAnswer(h) ==
    /\ LoseAny(toList, h)
    /\ toList' = [toList EXCEPT ![h] = Tail(@)]
    /\ UNCHANGED <<mList, toHost, sockets, announced, requests, orders>>
LoseCommand(h) ==
    /\ LoseAny(toHost, h)
    /\ toHost' = [toHost EXCEPT ![h] = Tail(@)]
    /\ UNCHANGED <<mList, toList, sockets, announced, requests, orders>>

UserStep ==
    \/ requestML
    \/ \E t \in TileIDs, n \in DOMAIN mList :
           \E what \in Commands : Order(what, t, mList[n].tID)
MainStep == \E h \in Hosts : Announce(h)
ServerStep == \E h \in Hosts : TakeAnswer(h) \/ TakeRequest(h) \/ TakeCommand(h)
NetworkStep == \E h \in Hosts : LoseAnswer(h) \/ LoseCommand(h)

Next == UserStep \/ MainStep \/ ServerStep \/ NetworkStep

\* The server threads go on taking what has arrived, the main threads announcing.
Fairness ==
    \A h \in Hosts : WF_vars(Announce(h)) /\ WF_vars(TakeAnswer(h)) /\ WF_vars(TakeRequest(h)) /\ WF_vars(TakeCommand(h))
Spec == Init /\ [][Next]_vars /\ Fairness

-----------------------------------------------------------------------------
\* What h offers, and what it is asked to make or give up.
Offers(h) == {Kinds[h][n].osc : n \in DOMAIN Kinds[h]}
Ordered(h) == {toHost[h][k].osc : k \in {n \in DOMAIN toHost[h] : toHost[h][n].kind # "request"}}

(* The numbers of the list can be ordered by: no kind of a host is in it   *)
(* twice, although every answer comes three times, to every copy of a      *)
(* request and to none, and mixed from two threads; an entry keeps the     *)
(* number of its place and names what its host offers; and whatever is     *)
(* ordered by a number reaches a host that is listed with it.              *)
ListNamesOffers ==
    /\ \A n, k \in DOMAIN mList :
           (mList[n].ip = mList[k].ip /\ mList[n].osc = mList[k].osc) => n = k
    /\ \A n \in DOMAIN mList : mList[n].tID = n /\ mList[n].osc \in Offers(mList[n].ip)
    /\ \A h \in Hosts : \A osc \in Ordered(h) : ListedAt(h, osc) # {}

(* A request that is under way in all its copies has every kind of every   *)
(* controller with descriptors left (for what it has still to announce as  *)
(* well) listed in the end, if fewer datagrams are lost than there are     *)
(* copies.  (Each answer leaves all but one of its sockets open: a         *)
(* controller asked often enough is not heard of any more.)                *)
Waiting(h) == Len(SelectSeq(toHost[h], LAMBDA d : d.kind = "request"))
RequestsAreAnswered ==
    \A h \in Controllers : \A n \in DOMAIN Kinds[h] :
        (Waiting(h) >= Copies /\ sockets[h] + 2 * Len(Kinds[h]) - announced[h] <= MaxSockets)
            ~> (ListedAt(h, Kinds[h][n].osc) # {})

(* A kind is listed in the colour its module has (the field Module.h:38,   *)
(* which sendModuleList's local variable hides).                           *)
ListedInItsColour ==
    \A n \in DOMAIN mList : \A k \in DOMAIN Kinds[mList[n].ip] :
        Kinds[mList[n].ip][k].osc = mList[n].osc => mList[n].mColor = Kinds[mList[n].ip][k].mColor
=============================================================================
