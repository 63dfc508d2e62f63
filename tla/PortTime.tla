----------------------------- MODULE PortTime -----------------------------
(***************************************************************************)
(* The one timer of a process (porttime/ptmacosx_cf.c) and those who use   *)
(* it: the AudioClocks, which start and stop it in the server thread, and  *)
(* the XBeeController, which starts it once for deadCheck.  Pt_Start       *)
(* creates a thread that runs a run loop; Pt_Stop asks the run loop        *)
(* published last to stop and waits for nothing.  A timer of interval 0    *)
(* fires once, and its thread ends of itself.                              *)
(***************************************************************************)
EXTENDS Naturals

CONSTANTS Clocks, XBC,    \* the users: AudioClocks, XBeeController
          NoUser,
          MaxThreads      \* bound: threads created

ASSUME TimerAssumption ==
    /\ XBC \notin Clocks /\ NoUser \notin Clocks \cup {XBC}
    /\ MaxThreads \in Nat

VARIABLES time_started_flag,
          timerRunLoop,   \* the thread whose run loop was published last; 0: NULL
          state, user,    \* per thread: what it is doing; whose callback it calls
          threads,        \* threads created so far
          users,          \* the AudioClocks and the XBeeController that exist
          interval,       \* per user: 1 for any that repeats, 0 for none (0 or less)
          resolution      \* per thread: the interval it was started with

timer == <<time_started_flag, timerRunLoop, state, user, threads, resolution>>
timerVars == <<timer, users, interval>>

Intervals == {0, 1}

Threads == 1 .. MaxThreads

TimerInit ==
    /\ time_started_flag = FALSE /\ timerRunLoop = 0
    /\ state = [n \in Threads |-> "none"]
    /\ user = [n \in Threads |-> NoUser]
    /\ threads = 0
    /\ users = {}
    /\ interval = [u \in Clocks \cup {XBC} |-> 1]
    /\ resolution = [n \in Threads |-> 1]

-----------------------------------------------------------------------------
(* ptmacosx_cf.c, as steps of the calling server thread.                   *)

\* the states after CFRunLoopStop: it stops a loop that is running, and is
\* lost on one that has not been entered or has been left
AfterStop ==
    [n \in Threads |-> IF n = timerRunLoop /\ state[n] = "running" THEN "stopping" ELSE state[n]]

\* Pt_Start with the interval i, in the states st
Start(u, i, st) ==
    /\ threads < MaxThreads
    /\ threads' = threads + 1
    /\ state' = [st EXCEPT ![threads + 1] = "created"]
    /\ user' = [user EXCEPT ![threads + 1] = u]
    /\ resolution' = [resolution EXCEPT ![threads + 1] = i]
    /\ time_started_flag' = TRUE
    /\ UNCHANGED timerRunLoop

\* Slip: only the flag is reset.
StopFlagOnly ==
    /\ timerRunLoop # 0
    /\ time_started_flag' = FALSE
    /\ UNCHANGED <<timerRunLoop, state, user, threads, resolution>>
\* Before any thread has published its run loop this is CFRunLoopStop(NULL),
\* which ends the program.
Stop ==
    /\ timerRunLoop # 0
    /\ state' = AfterStop
    /\ time_started_flag' = FALSE
    /\ UNCHANGED <<timerRunLoop, user, threads, resolution>>

(* Pt_Thread                                                               *)

PublishRunLoop(n) ==
    /\ state[n] = "created"
    /\ state' = [state EXCEPT ![n] = "published"]
    /\ timerRunLoop' = n
    /\ UNCHANGED <<time_started_flag, user, threads, users, interval, resolution>>

Enter(n) ==
    /\ state[n] = "published"
    /\ state' = [state EXCEPT ![n] = "running"]
    /\ UNCHANGED <<time_started_flag, timerRunLoop, user, threads, users, interval, resolution>>

\* A timer of interval 0 has called back once and is not there any more: the
\* run loop has nothing to wait for and returns, and nobody resets the flag.
Expire(n) ==
    /\ state[n] = "running" /\ resolution[n] = 0
    /\ state' = [state EXCEPT ![n] = "ended"]
    /\ UNCHANGED <<time_started_flag, timerRunLoop, user, threads, users, interval, resolution>>

\* The run loop returns after the callback it may be in.
Leave(n) ==
    /\ state[n] = "stopping"
    /\ state' = [state EXCEPT ![n] = "ended"]
    /\ UNCHANGED <<time_started_flag, timerRunLoop, user, threads, users, interval, resolution>>

-----------------------------------------------------------------------------
(* The users.  Whoever finds the timer started leaves it as it is.         *)

\* the constructors of AudioClock and of XBeeController
Create(u) ==
    /\ u \notin users
    /\ users' = users \cup {u}
    /\ interval' = [interval EXCEPT ![u] = 1]
    /\ IF time_started_flag THEN UNCHANGED timer ELSE Start(u, 1, state)

\* AudioClock::data1
Data1(c, on) ==
    /\ c \in users /\ UNCHANGED <<users, interval>>
    /\ time_started_flag # on
    /\ IF on THEN Start(c, interval[c], state) ELSE Stop

\* Slip: the timer is started anew without being stopped.
Data2Unstopped(c, on, i) ==
    /\ c \in users /\ UNCHANGED users
    /\ interval' = [interval EXCEPT ![c] = i]
    /\ IF on THEN Start(c, i, state) ELSE IF time_started_flag THEN Stop ELSE UNCHANGED timer
\* AudioClock::data2: the packet size changes, so the timer is stopped first;
\* a size below 4 makes no samples a packet and an interval of 0.
Data2(c, on, i) ==
    /\ c \in users /\ UNCHANGED users
    /\ time_started_flag => timerRunLoop # 0
    /\ interval' = [interval EXCEPT ![c] = i]
    /\ IF on THEN Start(c, i, IF time_started_flag THEN AfterStop ELSE state)
       ELSE IF time_started_flag THEN Stop ELSE UNCHANGED timer

\* AudioClock::~AudioClock
Delete(c) ==
    /\ c \in users
    /\ users' = users \ {c} /\ UNCHANGED interval
    /\ Stop

UserStep ==
    \/ \E u \in Clocks \cup {XBC} : Create(u)
    \/ \E c \in Clocks : Delete(c) \/ \E on \in BOOLEAN : Data1(c, on)
    \/ \E c \in Clocks, on \in BOOLEAN, i \in Intervals : Data2(c, on, i)
ThreadStep == \E n \in Threads : PublishRunLoop(n) \/ Enter(n) \/ Expire(n) \/ Leave(n)

TimerNext == UserStep \/ ThreadStep

\* A thread that can go on goes on.
TimerSpec == TimerInit /\ [][TimerNext]_timerVars /\ WF_timerVars(ThreadStep)

\* The users are calm: a thread created has entered its run loop before the
\* next of them is heard.
Calm == \A n \in Threads : state[n] \notin {"created", "published"}
CalmNext == (Calm /\ UserStep) \/ ThreadStep
CalmSpec == TimerInit /\ [][CalmNext]_timerVars /\ WF_timerVars(ThreadStep)

-----------------------------------------------------------------------------
Live(n) == state[n] \in {"created", "published", "running"}

TimerTypeOK ==
    /\ time_started_flag \in BOOLEAN
    /\ timerRunLoop \in 0 .. threads
    /\ state \in [Threads -> {"none", "created", "published", "running", "stopping", "ended"}]
    /\ user \in [Threads -> Clocks \cup {XBC, NoUser}]
    /\ threads \in 0 .. MaxThreads
    /\ users \subseteq Clocks \cup {XBC}
    /\ interval \in [Clocks \cup {XBC} -> Intervals]
    /\ resolution \in [Threads -> Intervals]

(* With calm users the timer is one: the flag they all decide by is set    *)
(* while a thread goes on calling back, and that thread is the one started *)
(* last, so that no clock runs at twice its rate.  When the flag is set    *)
(* and no thread lives, the last one was started with an interval of 0     *)
(* (AudioClock::data2): it has called back once, and until somebody stops  *)
(* the timer that is not there nobody can start it.                        *)
OneTimer ==
    /\ \A n \in Threads : Live(n) => time_started_flag /\ n = threads
    /\ time_started_flag => threads # 0 /\ (Live(threads) \/ resolution[threads] = 0)

(* "Pt_Started() returns true iff the timer is running" (porttime.h): not  *)
(* after a timer of interval 0.                                            *)
FlagTells == time_started_flag <=> \E n \in Threads : Live(n)

(* "Pt_Stop() stops the timer" (porttime.h): once it stays stopped, no     *)
(* thread goes on calling back.                                            *)
StopStops == <>[]~time_started_flag => <>[](\A n \in Threads : ~Live(n))
=============================================================================
