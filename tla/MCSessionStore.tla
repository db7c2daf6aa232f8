--------------------------- MODULE MCSessionStore ---------------------------
(* SessionStore with two users and a guest, for TLC. *)
EXTENDS SessionStore, TLC

CONSTANTS u1, u2

Interchangeable == Permutations({u1, u2})
=============================================================================
