--------------------------- MODULE ValueSemantics ---------------------------
(***************************************************************************)
(* What the handle types promise their users: every place holds a value of *)
(* its own.  An operation changes one place, and nobody changes a place    *)
(* while a clone reads or writes it.  A clone, when it succeeds, gives its *)
(* destination the value of its source; when it fails, it changes nothing. *)
(***************************************************************************)
CONSTANTS
  Place, Data,
  None       \* no value; not in Data

VARIABLES
  value,     \* what each place holds: a value, or None
  pending    \* the clones in progress: pairs of a source and a destination

vars == <<value, pending>>

Init ==
  /\ value = [p \in Place |-> None]
  /\ pending = {}

Source(p) == \E c \in pending : c[1] = p
Destination(p) == \E c \in pending : c[2] = p

Assign(p, x) ==
  /\ ~Source(p) /\ ~Destination(p)
  /\ value' = [value EXCEPT ![p] = x]
  /\ UNCHANGED pending

BeginClone(p, q) ==
  /\ p # q
  /\ ~Destination(p)
  /\ ~Source(q) /\ ~Destination(q)
  /\ pending' = pending \cup {<<p, q>>}
  /\ UNCHANGED value

EndClone(c) ==
  /\ value[c[1]] # None
  /\ value' = [value EXCEPT ![c[2]] = value[c[1]]]
  /\ pending' = pending \ {c}

AbortClone(c) ==
  /\ pending' = pending \ {c}
  /\ UNCHANGED value

Next ==
  \/ \E p \in Place, x \in Data \cup {None} : Assign(p, x)
  \/ \E p, q \in Place : BeginClone(p, q)
  \/ \E c \in pending : EndClone(c) \/ AbortClone(c)

Spec == Init /\ [][Next]_vars
=============================================================================
