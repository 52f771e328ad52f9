--------------------------- MODULE MCRewardSettlement ---------------------------
(* The instance TLC checks: the riders are interchangeable.                 *)
EXTENDS RewardSettlement, TLC

Symmetry == Permutations(Users)
================================================================================
