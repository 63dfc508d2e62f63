----------------------------- MODULE MidiQueue -----------------------------
(***************************************************************************)
(* The lock-free queue of pmutil.c between CoreMIDI's thread, which        *)
(* enqueues, and the application, which dequeues and peeks.  A word of the *)
(* buffer is 0 until it is written and again when it was read; a message's *)
(* own zeros are replaced by a chain of links that starts in an extra word *)
(* before it.  Every access to a shared word is a step; head, tail and the *)
(* peek buffer belong to one thread.                                       *)
(***************************************************************************)
EXTENDS Integers, Sequences

CONSTANTS Events,     \* sequences of msg_size - 1 words
          msg_size, num_msgs,
          OVERFLOW, NoEvent

len == num_msgs * msg_size
ASSUME MidiQueueAssumption ==
    /\ msg_size \in Nat \ {0, 1} /\ num_msgs \in Nat \ {0}
    /\ Events \subseteq Seq(Nat) /\ \A m \in Events : Len(m) = msg_size - 1
    /\ OVERFLOW \notin Events /\ NoEvent \notin Events

VARIABLES buffer, overflow,            \* shared
          head, peek, peekFlag, peekOverflow, dequeuer,
          dequeued,                       \* what Pm_Dequeue returned last
          tail, enqueuer
queueVars == <<buffer, overflow, head, peek, peekFlag, peekOverflow, dequeuer, dequeued, tail, enqueuer>>
dequeuerVars == <<head, peek, peekFlag, peekOverflow, dequeuer, dequeued>>
enqueuerVars == <<tail, enqueuer>>

IDLE == [pc |-> "idle"]
QueueInit ==
    /\ buffer = [k \in 0 .. len - 1 |-> 0] /\ overflow = 0
    /\ head = 0 /\ tail = 0
    /\ peek = <<>> /\ peekFlag = FALSE /\ peekOverflow = FALSE
    /\ dequeuer = IDLE /\ enqueuer = IDLE /\ dequeued = NoEvent

After(k) == IF k + msg_size = len THEN 0 ELSE k + msg_size

-----------------------------------------------------------------------------
(* Pm_Enqueue, Pm_SetOverflow                                              *)

Enqueue(m) ==
    /\ enqueuer.pc = "idle"
    /\ overflow = 0
    /\ enqueuer' = [pc |-> "full", msg |-> m, i |-> 0]
    /\ UNCHANGED <<buffer, overflow, tail, dequeuerVars>>

\* Pm_QueueFull
TestFull ==
    /\ enqueuer.pc = "full"
    /\ IF buffer[tail + enqueuer.i] # 0
       THEN overflow' = tail + 1 /\ enqueuer' = IDLE
       ELSE /\ enqueuer' = IF enqueuer.i + 1 < msg_size THEN [enqueuer EXCEPT !.i = @ + 1]
                         ELSE [pc |-> "write", msg |-> enqueuer.msg, i |-> 1, ptr |-> tail]
            /\ UNCHANGED overflow
    /\ UNCHANGED <<buffer, tail, dequeuerVars>>

\* Slip: a zero is linked to from the extra word only.
LinkFirst(w) == tail
Link(w) == tail + w.i
Write ==
    /\ enqueuer.pc = "write" /\ enqueuer.i < msg_size
    /\ LET j == enqueuer.msg[enqueuer.i]
       IN  IF j = 0
           THEN /\ buffer' = [buffer EXCEPT ![enqueuer.ptr] = enqueuer.i]
                /\ enqueuer' = [enqueuer EXCEPT !.i = @ + 1, !.ptr = Link(enqueuer)]
           ELSE /\ buffer' = [buffer EXCEPT ![tail + enqueuer.i] = j]
                /\ enqueuer' = [enqueuer EXCEPT !.i = @ + 1]
    /\ UNCHANGED <<overflow, tail, dequeuerVars>>
Written ==
    /\ enqueuer.pc = "write" /\ enqueuer.i = msg_size
    /\ buffer' = [buffer EXCEPT ![enqueuer.ptr] = msg_size]
    /\ tail' = After(tail)
    /\ enqueuer' = IDLE
    /\ UNCHANGED <<overflow, dequeuerVars>>

SetOverflow ==
    /\ enqueuer.pc = "idle" /\ overflow = 0
    /\ overflow' = tail + 1
    /\ UNCHANGED <<buffer, enqueuerVars, dequeuerVars>>

-----------------------------------------------------------------------------
(* Pm_Dequeue and Pm_QueuePeek                                             *)

\* What was peeked at is returned without a look at the queue.
Dequeue ==
    /\ dequeuer.pc = "idle"
    /\ IF peekOverflow
       THEN peekOverflow' = FALSE /\ dequeued' = OVERFLOW /\ UNCHANGED <<peekFlag, peek, dequeuer>>
       ELSE IF peekFlag
       THEN /\ dequeued' = peek /\ peekFlag' = FALSE /\ peek' = <<>>
            /\ UNCHANGED <<peekOverflow, dequeuer>>
       ELSE /\ dequeuer' = [pc |-> "look", for |-> "read"]
            /\ UNCHANGED <<peek, peekFlag, peekOverflow, dequeued>>
    /\ UNCHANGED <<head, buffer, overflow, enqueuerVars>>
QueuePeek ==
    /\ dequeuer.pc = "idle" /\ ~peekFlag
    /\ dequeuer' = [pc |-> "look", for |-> "peek"]
    /\ UNCHANGED <<head, peek, peekFlag, peekOverflow, dequeued, buffer, overflow, enqueuerVars>>

\* Slip: the overflow is told as soon as the dequeuer comes by.
AtOverflowEarly == TRUE
AtOverflow == buffer[head] = 0
\* While overflow is set the enqueuer leaves the buffer alone, so that the two
\* reads are one step.
LookForOverflow ==
    /\ dequeuer.pc = "look"
    /\ IF overflow = head + 1 /\ AtOverflow
       THEN /\ overflow' = 0
            /\ IF dequeuer.for = "peek" THEN peekOverflow' = TRUE /\ UNCHANGED dequeued
               ELSE dequeued' = OVERFLOW /\ UNCHANGED peekOverflow
            /\ dequeuer' = IDLE
       ELSE /\ dequeuer' = [pc |-> "test", for |-> dequeuer.for, i |-> msg_size - 1]
            /\ UNCHANGED <<overflow, peekOverflow, dequeued>>
    /\ UNCHANGED <<head, peek, peekFlag, buffer, enqueuerVars>>

\* The message at k, with a zero put back wherever the chain of links leads
LinksStayIn(Z, k) == \A i \in Z \cup {0} : buffer[k + i] < msg_size => buffer[k + i] \in Z
Zeros(k) == {i \in 1 .. msg_size - 1 :
                \A Z \in SUBSET (1 .. msg_size - 1) : LinksStayIn(Z, k) => i \in Z}
MessageAt(k) == [i \in 1 .. msg_size - 1 |-> IF i \in Zeros(k) THEN 0 ELSE buffer[k + i]]

\* From back to front: the first 0 says that there is no whole message.
Test ==
    /\ dequeuer.pc = "test"
    /\ IF buffer[head + dequeuer.i] # 0 /\ dequeuer.i = 0
       THEN /\ dequeuer' = [pc |-> "zero", i |-> 0]
            /\ IF dequeuer.for = "peek"
               THEN peek' = MessageAt(head) /\ peekFlag' = TRUE /\ UNCHANGED dequeued
               ELSE dequeued' = MessageAt(head) /\ UNCHANGED <<peek, peekFlag>>
       ELSE /\ dequeuer' = IF buffer[head + dequeuer.i] = 0 THEN IDLE ELSE [dequeuer EXCEPT !.i = @ - 1]
            /\ UNCHANGED <<peek, peekFlag, dequeued>>
    /\ UNCHANGED <<head, peekOverflow, buffer, overflow, enqueuerVars>>
Zero ==
    /\ dequeuer.pc = "zero"
    /\ buffer' = [buffer EXCEPT ![head + dequeuer.i] = 0]
    /\ IF dequeuer.i + 1 < msg_size THEN dequeuer' = [dequeuer EXCEPT !.i = @ + 1] /\ UNCHANGED head
       ELSE dequeuer' = IDLE /\ head' = After(head)
    /\ UNCHANGED <<peek, peekFlag, peekOverflow, dequeued, overflow, enqueuerVars>>

WriterNext == (\E m \in Events : Enqueue(m)) \/ TestFull \/ Write \/ Written \/ SetOverflow
ReaderNext == Dequeue \/ QueuePeek \/ LookForOverflow \/ Test \/ Zero
QueueNext == WriterNext \/ ReaderNext
QueueSpec == QueueInit /\ [][QueueNext]_queueVars

-----------------------------------------------------------------------------
(* What the queue holds: the overflow and the message that were peeked at, *)
(* the whole messages from head on, but for the one that is being zeroed,  *)
(* and the overflow that is not told yet.                                  *)

WholeAt(k) == \A i \in 0 .. msg_size - 1 : buffer[k + i] # 0
\* The slot n slots after k
SlotAfter(k, n) == LET at == k + n * msg_size IN IF at < len THEN at ELSE at - len
Oldest == IF dequeuer.pc = "zero" THEN 1 ELSE 0
InBuffer == LET full == CHOOSE n \in Oldest .. num_msgs :
                            /\ \A i \in Oldest .. n - 1 : WholeAt(SlotAfter(head, i))
                            /\ n < num_msgs => ~WholeAt(SlotAfter(head, n))
            IN  [n \in 1 .. full - Oldest |-> MessageAt(SlotAfter(head, Oldest + n - 1))]
Queued ==
    (IF peekOverflow THEN <<OVERFLOW>> ELSE <<>>)
        \o (IF peekFlag THEN <<peek>> ELSE <<>>)
        \o InBuffer
        \o (IF overflow # 0 THEN <<OVERFLOW>> ELSE <<>>)
Offered == IF enqueuer.pc = "idle" THEN NoEvent ELSE enqueuer.msg
Fifo == INSTANCE EventQueue WITH queued <- Queued, offered <- Offered,
                             taken <- dequeued

(* Whatever the two threads do between each other's accesses, no message   *)
(* is torn, lost, repeated or reordered unless the application is told, at *)
(* that place of the sequence, that messages were refused.                 *)
ImplementsEventQueue == Fifo!Spec
=============================================================================
