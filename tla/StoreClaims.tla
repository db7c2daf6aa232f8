---------------------------- MODULE StoreClaims ----------------------------
(***************************************************************************)
(* What the repository's README says of the user profile, as properties    *)
(* the server's bookkeeping does not have.                                 *)
(***************************************************************************)
EXTENDS MCSessionStore

\* README.md:79, the score is calculated on games played, games won "and the
\* number of cards remaining in the players' hands at the end of lost games":
\* the cards of a lost game stay in the history the score is calculated from,
\* and do not give way to those of another game.
LostGamesStayInHistory ==
    [][\A k \in DOMAIN history :
          ~history[k].won => k \in DOMAIN history' /\ history'[k].by = history[k].by]_vars
=============================================================================
