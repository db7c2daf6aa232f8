----------------------------- MODULE GameRules -----------------------------
(***************************************************************************)
(* Rules of the game as the repository's README states them, each a        *)
(* property that a session of the server does not have.                    *)
(***************************************************************************)
EXTENDS GameSession

\* README.md:61, "Failure: A player cannot place the minimum number of cards
\* allowed in his turn": a player who owes a card and has none to place has
\* failed, so no game is still being played with such a player to move.
FailureEndsTheGame ==
    Playing /\ cardsPlayedThisTurn < MinCards(deck)
        => HasMove(top, hands[currentPlayerIndex])

\* README.md:95, "a user can wait a maximum of 30 seconds, after which the game
\* starts if there are at least two participants": a game that waits with two
\* players or more does not wait for ever.
WaitingGameStarts ==
    (status = "waiting" /\ currentPlayers >= 2) ~> status # "waiting"
=============================================================================
