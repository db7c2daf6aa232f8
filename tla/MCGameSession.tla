--------------------------- MODULE MCGameSession ---------------------------
(* GameSession on a small deck, for TLC. *)
EXTENDS GameSession

\* Bound: of all deals only those that give the first seat the lowest cards and
\* the highest card to the second.
ExtremesDealt ==
    status = "waiting" /\ status' = "playing" =>
        /\ \A c \in hands'[0], d \in Cards : d < c => d \in hands'[0]
        /\ High - 1 \in hands'[1]
=============================================================================
