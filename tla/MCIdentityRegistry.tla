------------------------ MODULE MCIdentityRegistry ------------------------
(* Instances of IdentityRegistry for TLC. *)
EXTENDS IdentityRegistry, TLC

CONSTANT Stranger   \* the session that connects from another address

TwoAddresses == [s \in Sessions |-> IF s = Stranger THEN "b" ELSE "a"]

Symmetry ==
  Permutations(Nicknames) \cup Permutations(Tasks) \cup Permutations(Sessions \ {Stranger})
=============================================================================
