-------------------------- MODULE MCNestedHandles --------------------------
(* A finite instance of the nested handles for TLC. *)
EXTENDS NestedHandles, TLC

CONSTANTS h1, h2, h3, h4, h5, d1, a1, a2, s1, s2

MCText == {d1}
MCData == MCText \cup [Index -> Handle \cup {Null}]
Symmetry == Permutations(Handle) \cup Permutations({s1, s2}) \cup Permutations({a1, a2})

(* Beyond these states raw excuses the program from every property. *)
Claimed == raw \subseteq {"clone"}
=============================================================================
