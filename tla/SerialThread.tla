---------------------------- MODULE SerialThread ----------------------------
(***************************************************************************)
(* Serial: a thread that blocks in read() and sends on what it got, and    *)
(* the thread that has it stopped and started again on another device.     *)
(***************************************************************************)
EXTENDS Integers, FiniteSets

CONSTANTS SerialDevices,
          Readers,           \* bound: threads that may ever be created
          MaxLines           \* bound: lines a device delivers

ASSUME SerialAssumption == MaxLines \in Nat

\* What fd is when open() failed.
BadFd == "bad"

VARIABLES
    fd,              \* the device that is open, or BadFd
    serialActive,    \* the flag both threads use
    caller,          \* the controlling thread: "idle", "joining", "preparing" or "starting"
    device,          \* the device to open
    readerAt,        \* a state for each thread: "new", "loop", "read", "sending" or "gone"
    got,             \* what each thread's read() returned, a device's line or -1
    lines            \* lines each device has not delivered yet

serialVars == <<fd, serialActive, caller, device, readerAt, got, lines>>

Alive == {r \in Readers : readerAt[r] \notin {"new", "gone"}}

\* The constructor: no thread when the device does not open.
SerialInit ==
    /\ device \in SerialDevices
    /\ \/ fd = device /\ caller = "starting"
       \/ fd = BadFd /\ caller = "idle"
    /\ serialActive = FALSE
    /\ readerAt = [r \in Readers |-> "new"]
    /\ got = [r \in Readers |-> BadFd]
    /\ lines = [d \in SerialDevices |-> MaxLines]

\* threadStart(): a thread, unless one is active.
ThreadStart ==
    /\ caller = "starting"
    /\ IF serialActive THEN UNCHANGED <<serialActive, readerAt>>
       ELSE /\ serialActive' = TRUE
            /\ \E r \in Readers : readerAt[r] = "new" /\ readerAt' = [readerAt EXCEPT ![r] = "loop"]
    /\ caller' = "idle"
    /\ UNCHANGED <<fd, device, got, lines>>

\* Slips to be caught: the flag alone, and the join alone.
StopThreadUnjoined == serialActive' = FALSE /\ caller' = "preparing"

StopThreadUnflagged ==
    /\ UNCHANGED serialActive
    /\ caller' = IF serialActive THEN "joining" ELSE "preparing"

\* threadStop(): the flag down, then pthread_join.
StopThread ==
    IF serialActive THEN serialActive' = FALSE /\ caller' = "joining"
    ELSE UNCHANGED serialActive /\ caller' = "preparing"

\* setDevice() begins; a thread is left for what comes after it.
SetDevice ==
    /\ caller = "idle"
    /\ \E r \in Readers : readerAt[r] = "new"
    /\ StopThread
    /\ device' \in SerialDevices
    /\ UNCHANGED <<fd, readerAt, got, lines>>

Joined ==
    /\ caller = "joining"
    /\ Alive = {}
    /\ caller' = "preparing"
    /\ UNCHANGED <<fd, serialActive, device, readerAt, got, lines>>

\* prepareSerial(), whose result setDevice() does not look at.
PrepareSerial ==
    /\ caller = "preparing"
    /\ fd' \in {device, BadFd}
    /\ caller' = "starting"
    /\ UNCHANGED <<serialActive, device, readerAt, got, lines>>

\* The thread's loop: the flag, a read() that blocks until there is a line or fails at once,
\* and sendAudio() with what it returned.
ThreadFunction(r) ==
    \/ /\ readerAt[r] = "loop"
       /\ readerAt' = [readerAt EXCEPT ![r] = IF serialActive THEN "read" ELSE "gone"]
       /\ UNCHANGED <<got, lines>>
    \/ /\ readerAt[r] = "read" /\ fd = BadFd
       /\ got' = [got EXCEPT ![r] = BadFd]
       /\ readerAt' = [readerAt EXCEPT ![r] = "sending"]
       /\ UNCHANGED lines
    \/ /\ readerAt[r] = "read" /\ fd # BadFd /\ lines[fd] > 0
       /\ got' = [got EXCEPT ![r] = fd]
       /\ lines' = [lines EXCEPT ![fd] = @ - 1]
       /\ readerAt' = [readerAt EXCEPT ![r] = "sending"]
    \/ /\ readerAt[r] = "sending"
       /\ readerAt' = [readerAt EXCEPT ![r] = "loop"]
       /\ UNCHANGED <<got, lines>>

RunReader(r) == ThreadFunction(r) /\ UNCHANGED <<fd, serialActive, caller, device>>

\* Tiles go on sending: a device that has been read has another line.
Feed ==
    /\ \E d \in SerialDevices : lines[d] = 0 /\ lines' = [lines EXCEPT ![d] = MaxLines]
    /\ UNCHANGED <<fd, serialActive, caller, device, readerAt, got>>

SerialCaller == ThreadStart \/ SetDevice \/ Joined \/ PrepareSerial

SerialNext == SerialCaller \/ (\E r \in Readers : RunReader(r)) \/ Feed

\* The scheduler runs both threads; the tiles on a line go on sending.
SerialSpec ==
    /\ SerialInit /\ [][SerialNext]_serialVars
    /\ WF_serialVars(Joined) /\ WF_serialVars(PrepareSerial) /\ WF_serialVars(ThreadStart)
    /\ \A r \in Readers : WF_serialVars(RunReader(r))
    /\ WF_serialVars(Feed)

----------------------------------------------------------------------------
\* What is sent comes from the device that is open: no thread of an earlier device is
\* still at it, and there is never a second one.
OneReader ==
    /\ Cardinality(Alive) <= 1
    /\ \A r \in Alive : readerAt[r] = "sending" => got[r] = fd

\* setDevice() returns, although the thread it joins may be blocked in read() when the
\* flag goes down.
SetDeviceReturns == (caller \in {"joining", "preparing"}) ~> (caller = "idle")

=============================================================================
