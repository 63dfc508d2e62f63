---------------------------- MODULE RoutingTable ----------------------------
(***************************************************************************)
(* The routing table of one Module (RoutingTable.cpp) with the four OSC    *)
(* handlers that edit it (Module.cpp) and the send loops that walk it      *)
(* (Module::sendAudio).  Two threads touch it without a lock:              *)
(*   - the liblo server thread runs the handlers one after another;        *)
(*   - a PortAudio or PortTime callback (ADC, AudioClock) walks it to send.*)
(* An edit is split at the writes a walking callback can tell apart.       *)
(***************************************************************************)
EXTENDS Naturals, Sequences, FiniteSets, Selection

CONSTANTS Ip,          \* host addresses
          Osc,         \* OSC paths a route can name
          SubPath,     \* <<p, q>> : strstr(p, q) finds q in the path p
          Sends,       \* the paths the send loop selects (strstr(p, "/Stream"))
          MAX_ANUM,    \* slots of the table
          Target,      \* the route a tile's repeated frame keeps asking for
          MaxRequests  \* bound: requests other than those repetitions

CONSTANTS NULL, FREED, NoOsc   \* a cleared slot, a released address, ""

Route == [ip : Ip, osc : Osc]

ASSUME TableAssumption ==
    /\ MAX_ANUM \in Nat \ {0}
    /\ MaxRequests \in Nat
    /\ SubPath \subseteq Osc \X Osc
    /\ \A p \in Osc : <<p, p>> \in SubPath
    /\ Sends \subseteq Osc
    /\ Target \in Route
    /\ NULL \notin Ip /\ FREED \notin Ip /\ NULL # FREED
    /\ NoOsc \notin Osc

Slots == 0 .. MAX_ANUM - 1
Kinds == {"SetRoute", "AddRoute", "DeleteRoute", "DeleteAllRoute"}
Removing == {"shrink", "shift"}            \* pc while an entry is taken out
Appending == {"hostname", "path", "publish"}

VARIABLES loAddr, oscAddr, aNum,   \* the table
          pc, req, i, j,           \* the handler that is running
          requests,                \* requests handled so far, up to MaxRequests
          walking, k, sent,        \* the callback's pass over the table
          start, torn              \* history: table at its start, removal since

table == <<loAddr, oscAddr, aNum>>
handler == <<pc, req, i, j>>
walk == <<walking, k, sent, start, torn>>
vars == <<table, handler, requests, walk>>

Entry(n) == [ip |-> loAddr[n], osc |-> oscAddr[n]]
Entries == {Entry(n) : n \in 0 .. aNum - 1}
AsSequence == [n \in 1 .. aNum |-> Entry(n - 1)]
Sendable(s) == Selected(s, {r \in Route : r.osc \in Sends})

Contains(p, q) == p \in Osc /\ <<p, q>> \in SubPath

IsRouting(r) == r \in Entries

Matching(osc) == {n \in 0 .. aNum - 1 : Contains(oscAddr[n], osc)}
NumRoute(osc) == Cardinality(Matching(osc))

Init ==
    /\ loAddr = [n \in Slots |-> NULL]
    /\ oscAddr = [n \in Slots |-> NoOsc]
    /\ aNum = 0
    /\ pc = "idle" /\ req = [kind |-> "AddRoute", route |-> Target]
    /\ i = 0 /\ j = 0
    /\ requests = 0
    /\ walking = FALSE /\ k = 0 /\ sent = <<>> /\ start = <<>> /\ torn = FALSE

-----------------------------------------------------------------------------
(* The server thread: one request at a time.                               *)

\* Slip: the route being there is enough, whatever else goes to its path.
AlreadySetAmongOthers(r) == IsRouting(r)
\* Module::setRoute returns at once when the route is the only one to its path.
AlreadySet(r) == IsRouting(r) /\ NumRoute(r.osc) = 1

FirstStep(kind, r) ==
    IF kind = "AddRoute" THEN "hostname"
    ELSE IF kind = "SetRoute" /\ AlreadySet(r) THEN "idle" ELSE "scan"

Handle(kind, r) ==
    /\ pc = "idle"
    /\ pc' = FirstStep(kind, r)
    /\ req' = [kind |-> kind, route |-> r]
    /\ i' = 0
    /\ UNCHANGED <<table, j, walk>>

Request ==
    /\ requests < MaxRequests
    /\ requests' = requests + 1
    /\ \E kind \in Kinds, r \in Route : Handle(kind, r)

\* The tile sends its frame again and the Coordinator its SetRoute.
Repeat == Handle("SetRoute", Target) /\ UNCHANGED requests

\* Slip: deleteRoute compares the path and not the host.
MatchesAnyHost(n) == Contains(oscAddr[n], req.route.osc)
Matches(n) ==
    IF req.kind = "DeleteRoute" THEN Entry(n) = req.route
                                ELSE Contains(oscAddr[n], req.route.osc)

ScanOn ==
    /\ pc = "scan" /\ i < aNum /\ ~Matches(i)
    /\ i' = i + 1
    /\ UNCHANGED <<table, pc, req, j, requests, walk>>

ScanEnd ==
    /\ pc = "scan" /\ i >= aNum
    /\ pc' = IF req.kind = "SetRoute" THEN "hostname" ELSE "idle"
    /\ UNCHANGED <<table, req, i, j, requests, walk>>

\* lo_address_free(loAddr[i]), memset(oscAddr[i], 0)
Release ==
    /\ pc = "scan" /\ i < aNum /\ Matches(i)
    /\ loAddr' = [loAddr EXCEPT ![i] = FREED]
    /\ oscAddr' = [oscAddr EXCEPT ![i] = NoOsc]
    /\ pc' = "shrink"
    /\ torn' = TRUE
    /\ UNCHANGED <<aNum, req, i, j, requests, walking, k, sent, start>>

Shrink ==
    /\ pc = "shrink"
    /\ aNum' = aNum - 1
    /\ j' = i
    /\ pc' = "shift"
    /\ UNCHANGED <<loAddr, oscAddr, req, i, requests, walk>>

ShiftOn ==
    /\ pc = "shift" /\ j < aNum
    /\ loAddr' = [loAddr EXCEPT ![j] = loAddr[j + 1]]
    /\ oscAddr' = [oscAddr EXCEPT ![j] = oscAddr[j + 1]]
    /\ j' = j + 1
    /\ UNCHANGED <<aNum, pc, req, i, requests, walk>>

\* deleteRoute leaves its loop here; deleteAllRoute goes on at i + 1, past
\* the entry that has just moved into slot i.
AfterRemoval ==
    IF req.kind = "DeleteRoute" THEN pc' = "idle" /\ i' = i
                                ELSE pc' = "scan" /\ i' = i + 1

\* Slip: the slot the last entry has left is not cleared.
ShiftEndUncleared ==
    /\ pc = "shift" /\ j >= aNum
    /\ AfterRemoval
    /\ UNCHANGED <<table, req, j, requests, walk>>
ShiftEnd ==
    /\ pc = "shift" /\ j >= aNum
    /\ loAddr' = [loAddr EXCEPT ![aNum] = NULL]
    /\ oscAddr' = [oscAddr EXCEPT ![aNum] = NoOsc]
    /\ AfterRemoval
    /\ UNCHANGED <<aNum, req, j, requests, walk>>

Full == aNum > MAX_ANUM - 1

\* RoutingTable::setRoute: full, already there, or append.
AppendRefused ==
    /\ pc = "hostname" /\ (Full \/ IsRouting(req.route))
    /\ pc' = "idle"
    /\ UNCHANGED <<table, req, i, j, requests, walk>>

AppendHostname ==
    /\ pc = "hostname" /\ ~Full /\ ~IsRouting(req.route)
    /\ loAddr' = [loAddr EXCEPT ![aNum] = req.route.ip]
    /\ pc' = "path"
    /\ UNCHANGED <<oscAddr, aNum, req, i, j, requests, walk>>

AppendPath ==
    /\ pc = "path"
    /\ oscAddr' = [oscAddr EXCEPT ![aNum] = req.route.osc]
    /\ pc' = "publish"
    /\ UNCHANGED <<loAddr, aNum, req, i, j, requests, walk>>

Publish ==
    /\ pc = "publish"
    /\ aNum' = aNum + 1
    /\ pc' = "idle"
    /\ UNCHANGED <<loAddr, oscAddr, req, i, j, requests, walk>>

HandlerStep ==
    \/ ScanOn \/ ScanEnd \/ Release \/ Shrink \/ ShiftOn \/ ShiftEnd
    \/ AppendRefused \/ AppendHostname \/ AppendPath \/ Publish

-----------------------------------------------------------------------------
(* The callback: for (i = 0; i < aNum; i++) lo_send(loAddr[i], oscAddr[i]) *)

BeginPass ==
    /\ ~walking
    /\ walking' = TRUE /\ k' = 0 /\ sent' = <<>>
    /\ start' = AsSequence
    /\ torn' = (pc \in Removing)
    /\ UNCHANGED <<table, handler, requests>>

\* Slip: the loop also visits the slot behind the last entry.
WalkPastEnd ==
    /\ walking /\ k <= aNum /\ k \in Slots
    /\ sent' = IF oscAddr[k] \in Sends THEN Append(sent, Entry(k)) ELSE sent
    /\ k' = k + 1
    /\ UNCHANGED <<table, handler, requests, walking, start, torn>>
\* strstr(oscAddr[k], "/Stream") decides whether slot k is sent to.
Walk ==
    /\ walking /\ k < aNum
    /\ sent' = IF oscAddr[k] \in Sends THEN Append(sent, Entry(k)) ELSE sent
    /\ k' = k + 1
    /\ UNCHANGED <<table, handler, requests, walking, start, torn>>

EndPass ==
    /\ walking /\ k >= aNum
    /\ walking' = FALSE
    /\ UNCHANGED <<table, handler, requests, k, sent, start, torn>>

SenderStep == BeginPass \/ Walk \/ EndPass

Next == Request \/ Repeat \/ HandlerStep \/ SenderStep

Spec == Init /\ [][Next]_vars

\* The handlers alone.  The server thread finishes what it started, and the
\* tile repeats its frame for as long as it is connected.
EditNext == Request \/ Repeat \/ HandlerStep
EditSpec == Init /\ [][EditNext]_vars /\ WF_vars(HandlerStep) /\ WF_vars(Repeat)

-----------------------------------------------------------------------------
TypeOK ==
    /\ loAddr \in [Slots -> Ip \cup {NULL, FREED}]
    /\ oscAddr \in [Slots -> Osc \cup {NoOsc}]
    /\ aNum \in 0 .. MAX_ANUM
    /\ pc \in {"idle", "scan"} \cup Removing \cup Appending
    /\ req \in [kind : Kinds, route : Route]
    /\ i \in Nat /\ j \in Nat /\ k \in Nat
    /\ requests \in 0 .. MaxRequests
    /\ walking \in BOOLEAN /\ torn \in BOOLEAN

\* The slots that hold a route: all below aNum, and while an entry is being
\* taken out all but the one it leaves (slot i, then slot j).
Holds(n) == IF pc = "shift" THEN n <= aNum /\ n # j
                            ELSE n < aNum /\ (pc = "shrink" => n # i)
Held == {n \in Slots : Holds(n)}

(* No route is ever in two slots, not even while the entries behind a      *)
(* removed one move up: a second copy would be sent to twice, and its      *)
(* address released twice by the destructor.                               *)
NoDuplicateRoutes == \A m, n \in Held : Entry(m) = Entry(n) => m = n

(* Each held slot has a live address and a path; when no handler runs      *)
(* every other slot is cleared, so the destructor, which frees every       *)
(* address that is not NULL, frees each one once and forgets none.         *)
SlotsAccountedFor ==
    /\ \A n \in Held : Entry(n) \in Route
    /\ pc \in {"idle", "scan"} =>
         \A n \in Slots \ Held : loAddr[n] = NULL /\ oscAddr[n] = NoOsc

(* A callback pass that overlaps no removal sends, in table order and once *)
(* each, to every selected route that was in the table when it began, and  *)
(* to nothing that the table does not hold: routes appended during the     *)
(* pass are seen complete or not at all.                                   *)
CleanPassIsTheTable ==
    ~walking /\ ~torn =>
        LET now == Sendable(AsSequence)
            old == Sendable(start)
        IN  /\ Len(old) <= Len(sent) /\ Len(sent) <= Len(now)
            /\ sent = SubSeq(now, 1, Len(sent))
            /\ old = SubSeq(now, 1, Len(old))

(* An edit adds at most the route the request names, and removes only what *)
(* the request's address matches: entries that only move keep their route. *)
Routes == {Entry(n) : n \in Held}
EditsOnlyWhatWasAsked ==
    [][/\ Routes' \ Routes \subseteq
            (IF req.kind \in {"SetRoute", "AddRoute"} THEN {req.route} ELSE {})
       /\ \A r \in Routes \ Routes' :
            CASE req.kind = "AddRoute"    -> FALSE
              [] req.kind = "DeleteRoute" -> r = req.route
              [] OTHER                    -> Contains(r.osc, req.route.osc)]_vars

(* deleteAllRoute steps over the entry behind each one it removes, so one  *)
(* SetRoute can leave older routes to the same path.  Repeated, it settles *)
(* on the requested route alone, unless the table is full of other paths.  *)
Settled ==
    \/ IsRouting(Target) /\ NumRoute(Target.osc) = 1
    \/ aNum = MAX_ANUM /\ NumRoute(Target.osc) = 0
RepeatedSetRouteSettles == <>[]Settled
=============================================================================
