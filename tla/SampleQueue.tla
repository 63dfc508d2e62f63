----------------------------- MODULE SampleQueue -----------------------------
(***************************************************************************)
(* What a DAC promises the modules that stream to it: the samples it       *)
(* accepts are played once each, in order; between them, when it has none  *)
(* or is filling up, it plays silence; it holds at most Cap of them.       *)
(***************************************************************************)
EXTENDS Naturals, Sequences

CONSTANTS Sample, Silence, Cap

VARIABLES queue,   \* accepted and not yet played
          left     \* the last frame on the left output

Init == queue = <<>> /\ left = Silence

Accept == /\ Len(queue) < Cap
          /\ \E v \in Sample : queue' = Append(queue, v)
          /\ UNCHANGED left

Play == /\ queue # <<>>
        /\ left' = Head(queue)
        /\ queue' = Tail(queue)

Pause == left' = Silence /\ UNCHANGED queue

Next == Accept \/ Play \/ Pause

Spec == Init /\ [][Next]_<<queue, left>>
=============================================================================
