--------------------------- MODULE MCGracefulShutdown ---------------------------
(* Instances of GracefulShutdown whose sessions are interchangeable.        *)
EXTENDS GracefulShutdown, TLC

Symmetry == Permutations(Sessions)
================================================================================
