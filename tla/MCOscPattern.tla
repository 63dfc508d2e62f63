--------------------------- MODULE MCOscPattern ---------------------------
(* Sets and lists of OscPattern, and what TLC checks of it.                *)
EXTENDS OscPattern
MCSets == {[from |-> 97, to |-> 98, more |-> <<>>, negated |-> FALSE],
           [from |-> 98, to |-> 97, more |-> <<99>>, negated |-> TRUE],
           [from |-> 97, to |-> 99, more |-> <<97, 98>>, negated |-> TRUE],
           [from |-> 98, to |-> 98, more |-> <<99>>, negated |-> FALSE]}
MCLists == {<<<<97>>, <<97, 98>>>>, <<<<98, 97>>, <<99>>>>}
=============================================================================
