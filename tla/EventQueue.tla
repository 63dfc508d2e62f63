---------------------------- MODULE EventQueue ----------------------------
(***************************************************************************)
(* What a queue of pmutil.c promises (pmutil.h): events come out as they   *)
(* were offered and in that order, and where some were refused, OVERFLOW   *)
(* comes out between those accepted before and those accepted after.       *)
(***************************************************************************)
EXTENDS Naturals, Sequences

CONSTANTS Events, OVERFLOW, NoEvent

VARIABLES offered,         \* what is being enqueued
          queued,          \* what is still to come out
          taken            \* what came out last
queueVars == <<offered, queued, taken>>

Init == offered = NoEvent /\ queued = <<>> /\ taken = NoEvent
Offer == offered = NoEvent /\ offered' \in Events /\ UNCHANGED <<queued, taken>>
Accept ==
    /\ offered # NoEvent
    /\ queued' = Append(queued, offered) /\ offered' = NoEvent /\ UNCHANGED taken
Refuse == queued' = Append(queued, OVERFLOW) /\ offered' = NoEvent /\ UNCHANGED taken
Deliver ==
    /\ queued # <<>>
    /\ taken' = Head(queued) /\ queued' = Tail(queued) /\ UNCHANGED offered
\* two overflows with nothing between them may be told as one
Merge ==
    /\ Len(queued) > 1 /\ queued[1] = OVERFLOW /\ queued[2] = OVERFLOW
    /\ queued' = Tail(queued) /\ UNCHANGED <<offered, taken>>
Next == Offer \/ Accept \/ Refuse \/ Deliver \/ Merge
Spec == Init /\ [][Next]_queueVars
=============================================================================
