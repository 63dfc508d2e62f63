----------------------------- MODULE OscServer -----------------------------
(***************************************************************************)
(* liblo's server and the thread that drives it (server.c,                 *)
(* server_thread.c): datagrams are read one at a time; the elements of a   *)
(* bundle are dispatched at once or, if their time tag lies ahead, queued  *)
(* until it comes.  Every handler of RTSOSC runs in this thread.           *)
(* Time is counted in ticks; a queued element may be dispatched EARLY      *)
(* ticks (10 ms) before its time.  A plain message is a bundle of one      *)
(* element that is tagged Immediate.                                       *)
(***************************************************************************)
EXTENDS Naturals, Sequences

CONSTANTS Bundles,        \* [ts, elements, invalid]: time tag, number of
                          \* elements, the first that cannot be parsed or 0
          Immediate,      \* LO_TT_IMMEDIATE, earlier than every time
          EARLY,
          EndOfTime,      \* bound: ticks
          MaxBundles,     \* bound: datagrams that arrive
          MaxStops        \* bound: calls of lo_server_thread_stop

ASSUME OscServerAssumption ==
    /\ Immediate = 0 /\ EARLY \in Nat \ {0}
    /\ EndOfTime \in Nat /\ MaxBundles \in Nat /\ MaxStops \in Nat
    /\ \A b \in Bundles : b.ts \in 0 .. EndOfTime /\ b.elements \in Nat /\ b.invalid \in 0 .. b.elements

VARIABLES clock,
          socket,         \* datagrams that wait in the socket
          arrived,        \* how many there have been
          queued,         \* s->queued
          serverAt,       \* where the thread is
          inHand,         \* elements of the bundle being dispatched
          dispTime,       \* dispatch_queued's disp_time
          active, stops,
          taken,          \* history: the elements read so far
          dispatched      \* history: what handlers were called with, and when

timeVars == <<clock, socket, arrived>>
threadVars == <<active, stops>>
oscServerVars == <<timeVars, queued, serverAt, inHand, dispTime, threadVars, taken, dispatched>>

OscServerInit ==
    /\ clock = 1 /\ socket = <<>> /\ arrived = 0
    /\ queued = <<>> /\ inHand = <<>> /\ dispTime = 0
    /\ serverAt = "ended" /\ active = FALSE /\ stops = 0
    /\ taken = {} /\ dispatched = <<>>

\* The elements of a datagram that are dispatched or queued: an invalid one
\* ends the loop, those before it have been.
Valid(b) == IF b.invalid = 0 THEN b.elements ELSE b.invalid - 1
ElementsOf(b) == [k \in 1 .. Valid(b) |-> [ts |-> b.ts, of |-> b.number, k |-> k]]

\* Slip: an element goes before those of its own time.
PlaceBefore(q, e) == {n \in DOMAIN q : q[n].ts >= e.ts}
\* queue_data
Place(q, e) == {n \in DOMAIN q : q[n].ts > e.ts}
Inserted(q, e) ==
    LET k == IF Place(q, e) = {} THEN Len(q) + 1
             ELSE CHOOSE n \in Place(q, e) : \A x \in Place(q, e) : n <= x
    IN  SubSeq(q, 1, k - 1) \o <<e>> \o SubSeq(q, k, Len(q))
QueueAll(q, es) ==
    LET f[n \in 0 .. Len(es)] == IF n = 0 THEN q ELSE Inserted(f[n - 1], es[n]) IN f[Len(es)]

Call(e) == dispatched' = Append(dispatched, [e |-> e, at |-> clock, waited |-> serverAt = "queue"])

-----------------------------------------------------------------------------
(* The thread's steps                                                      *)

\* Slip: lo_server_wait has no timeout.
WaitUntimed ==
    /\ serverAt = "wait"
    /\ socket # <<>> \/ (queued # <<>> /\ queued[1].ts < clock + EARLY)
    /\ serverAt' = IF active THEN "recv" ELSE "ended"
    /\ UNCHANGED <<timeVars, queued, inHand, dispTime, threadVars, taken, dispatched>>
\* lo_server_wait, and the thread's test of active before it
Wait ==
    /\ serverAt = "wait"
    /\ IF ~active THEN serverAt' = "ended"
       ELSE /\ socket # <<>> \/ (queued # <<>> /\ queued[1].ts < clock + EARLY)
            /\ serverAt' = "recv"
    /\ UNCHANGED <<timeVars, queued, inHand, dispTime, threadVars, taken, dispatched>>

\* lo_server_recv asks for the time to the next event, then polls: datagrams
\* that come while it is about to are read first.
Recv ==
    /\ serverAt = "recv"
    /\ IF queued # <<>> /\ queued[1].ts <= clock + EARLY
       THEN serverAt' = "queue" /\ dispTime' = queued[1].ts
       ELSE serverAt' = "poll" /\ UNCHANGED dispTime
    /\ UNCHANGED <<timeVars, queued, inHand, threadVars, taken, dispatched>>

Read ==
    /\ serverAt = "poll" /\ socket # <<>>
    /\ serverAt' = "read"
    /\ UNCHANGED <<timeVars, queued, inHand, dispTime, threadVars, taken, dispatched>>

\* lo_server_dispatch_data asks for the time once a datagram.
DispatchData ==
    /\ serverAt = "read"
    /\ LET b == Head(socket)
       IN  IF b.ts = Immediate \/ b.ts <= clock
           THEN inHand' = ElementsOf(b) /\ serverAt' = "bundle" /\ UNCHANGED queued
           ELSE queued' = QueueAll(queued, ElementsOf(b)) /\ serverAt' = "wait" /\ UNCHANGED inHand
    /\ socket' = Tail(socket)
    /\ taken' = taken \cup {ElementsOf(Head(socket))[k] : k \in 1 .. Valid(Head(socket))}
    /\ UNCHANGED <<clock, arrived, dispTime, threadVars, dispatched>>

DispatchElement ==
    /\ serverAt = "bundle"
    /\ IF inHand = <<>> THEN serverAt' = "wait" /\ UNCHANGED <<inHand, dispatched>>
       ELSE inHand' = Tail(inHand) /\ Call(Head(inHand)) /\ UNCHANGED serverAt
    /\ UNCHANGED <<timeVars, queued, dispTime, threadVars, taken>>

\* Slip: the element is taken off the queue's head before its handler is
\* called and with it whatever has its time.
DispatchQueuedOnce ==
    /\ serverAt = "queue"
    /\ Call(Head(queued))
    /\ queued' = SelectSeq(queued, LAMBDA e : e.ts # dispTime)
    /\ serverAt' = "wait"
    /\ UNCHANGED <<timeVars, inHand, dispTime, threadVars, taken>>
\* dispatch_queued: the first, and those of the same time
DispatchQueued ==
    /\ serverAt = "queue"
    /\ Call(Head(queued))
    /\ queued' = Tail(queued)
    /\ serverAt' = IF Len(queued) > 1 /\ queued[2].ts = dispTime THEN "queue" ELSE "wait"
    /\ UNCHANGED <<timeVars, inHand, dispTime, threadVars, taken>>

-----------------------------------------------------------------------------
(* The program, the network and the time                                   *)

\* lo_server_thread_start
ServerThreadStart ==
    /\ ~active /\ serverAt = "ended"
    /\ active' = TRUE /\ serverAt' = "wait"
    /\ UNCHANGED <<timeVars, queued, inHand, dispTime, stops, taken, dispatched>>

\* lo_server_thread_stop; it joins the thread, and ServerThreadStart waits for that
ServerThreadStop ==
    /\ active /\ stops < MaxStops
    /\ active' = FALSE /\ stops' = stops + 1
    /\ UNCHANGED <<timeVars, queued, serverAt, inHand, dispTime, taken, dispatched>>

Arrive(b) ==
    /\ arrived < MaxBundles
    /\ arrived' = arrived + 1
    /\ socket' = Append(socket, [ts |-> b.ts, elements |-> b.elements, invalid |-> b.invalid,
                                 number |-> arrived + 1])
    /\ UNCHANGED <<clock, queued, serverAt, inHand, dispTime, threadVars, taken, dispatched>>

Tick ==
    /\ clock < EndOfTime
    /\ clock' = clock + 1
    /\ UNCHANGED <<socket, arrived, queued, serverAt, inHand, dispTime, threadVars, taken, dispatched>>

ThreadFunc == Wait \/ Recv \/ Read \/ DispatchData \/ DispatchElement \/ DispatchQueued
OscServerNext ==
    \/ ThreadFunc \/ Tick \/ ServerThreadStart \/ ServerThreadStop
    \/ \E b \in Bundles : Arrive(b)

\* Time passes and the thread runs.
OscServerSpec ==
    /\ OscServerInit /\ [][OscServerNext]_oscServerVars
    /\ WF_oscServerVars(ThreadFunc) /\ WF_oscServerVars(Tick)

-----------------------------------------------------------------------------
Before(i, j) == i \in DOMAIN dispatched /\ j \in DOMAIN dispatched /\ i < j

(* Handlers are called once for an element, not before its time by more    *)
(* than EARLY; for the elements of a bundle in their order; and for those  *)
(* that had to wait in the order of their times, to within EARLY, those of *)
(* one time in the order they came: although a bundle may be read when     *)
(* earlier elements are due and still in the queue.                        *)
DispatchedInOrder ==
    /\ \A i \in DOMAIN dispatched :
           dispatched[i].e.ts <= dispatched[i].at + EARLY
    /\ \A i, j \in DOMAIN dispatched : Before(i, j) =>
           LET a == dispatched[i].e   b == dispatched[j].e
           IN  /\ a.of = b.of => a.k < b.k
               /\ dispatched[i].waited /\ dispatched[j].waited =>
                      \/ a.ts < b.ts \/ (b.ts < a.ts /\ a.ts < b.ts + EARLY)
                      \/ a.ts = b.ts /\ a.of <= b.of

(* Every datagram is read in the end, and every element that was read and  *)
(* could be parsed comes to its handler, if the thread is not stopped:     *)
(* what is queued is not overtaken by datagrams for ever, nor forgotten.   *)
EveryElementDispatched ==
    []<>(\/ ~active
         \/ socket = <<>> /\ \A e \in taken : \E i \in DOMAIN dispatched : dispatched[i].e = e)

(* Stopping ends the thread: it does not wait for a datagram.              *)
StopEnds == (~active) ~> (serverAt = "ended" \/ active)
=============================================================================
