----------------------------- MODULE Selection -----------------------------
(***************************************************************************)
(* Those elements of a sequence that are members of a set, in their order: *)
(* SelectSeq in a form that can be proved about.                           *)
(***************************************************************************)
EXTENDS Naturals, Sequences

Selected(s, T) ==
    LET upTo[n \in 0 .. Len(s)] ==
            IF n = 0 THEN <<>>
            ELSE IF s[n] \in T THEN Append(upTo[n - 1], s[n]) ELSE upTo[n - 1]
    IN  upTo[Len(s)]
=============================================================================
