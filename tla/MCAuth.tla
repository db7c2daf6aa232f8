------------------------------- MODULE MCAuth -------------------------------
(***************************************************************************)
(* Instances of Auth for TLC.  Names, passwords and threads are            *)
(* interchangeable.                                                        *)
(***************************************************************************)
EXTENDS Auth, TLC

Symmetry ==
    Permutations(Names) \cup Permutations(Passwords \ {NoPassword})
        \cup Permutations(Threads)
=============================================================================
