------------------------------- MODULE MCAvc --------------------------------
(***************************************************************************)
(* A small instance of Avc: one key in the second of two slots.  Writing   *)
(* is allowed; reading is denied, in a permissive domain or not.           *)
(***************************************************************************)
EXTENDS Avc, TLC

CONSTANT k1

MCHash == [k \in {k1} |-> 1]
MCPerms == {"read", "write"}
MCChecks == {[key |-> k1, requested |-> {p}] : p \in MCPerms}
MCPolicies == {[k \in {k1} |-> [allowed |-> {"write"}, permissive |-> b]] : b \in BOOLEAN}

(* Tasks and nodes are never told apart.                                   *)
Symmetry == Permutations(Tasks) \cup Permutations(Nodes)
=============================================================================
