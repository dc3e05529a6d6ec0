--------------------------- MODULE MCTokenManager ---------------------------
(* A small instance of TokenManager for TLC. *)
EXTENDS TokenManager

MCLifetimes == {0, 1, 3}
=============================================================================
