----------------------------- MODULE MCProfileStore -----------------------------
(* The instance TLC checks: stores and requests are interchangeable.        *)
EXTENDS ProfileStore, TLC

Symmetry == Permutations(Stores) \cup Permutations(Requests)
================================================================================
