---------------------------- MODULE GameSession ----------------------------
(***************************************************************************)
(* One game of the server: GameSessionManager.cpp with the GameTable it    *)
(* holds.  Every handler locks m_mutex for its whole body, so each is one  *)
(* action; a request the handler answers with an error changes nothing     *)
(* and is a stuttering step.  Requests come from any client at any time.   *)
(***************************************************************************)
EXTENDS GameTable

VARIABLES
    status,              \* "none" until created, then as in GameSession::status
    won,                 \* GameSession::won
    maxPlayers,          \* seats asked for when the game was created
    currentPlayers,      \* seats taken
    currentPlayerIndex,  \* the seat whose turn it is
    cardsPlayedThisTurn, \* cards that seat has placed in its turn
    deck,                \* the draw pile
    hands,               \* the hand of every seat
    top,                 \* the top card of every pile
    placed,              \* the cards the piles hold, foundations aside
    stats                \* per seat: games and wins added to its user's totals

table == <<deck, hands, top, placed>>
lobby == <<maxPlayers, currentPlayers>>
turn == <<currentPlayerIndex, cardsPlayedThisTurn>>
outcome == <<status, won, stats>>
vars == <<outcome, lobby, turn, table>>

Taken == 0 .. (currentPlayers - 1)

TypeOK ==
    /\ status \in {"none", "waiting", "playing", "finished"}
    /\ won \in BOOLEAN
    /\ maxPlayers \in 0 .. MaxGamers
    /\ currentPlayers \in 0 .. maxPlayers
    /\ currentPlayerIndex \in Seats
    /\ cardsPlayedThisTurn \in Nat
    /\ deck \subseteq Cards
    /\ hands \in Hands
    /\ top \in Tops
    /\ placed \subseteq Cards
    /\ stats \in [Seats -> [games : Nat, wins : Nat]]

Init ==
    /\ status = "none"
    /\ won = FALSE
    /\ maxPlayers = 0
    /\ currentPlayers = 0
    /\ currentPlayerIndex = 0
    /\ cardsPlayedThisTurn = 0
    /\ deck = {}
    /\ hands = [i \in Seats |-> {}]
    /\ top = EmptyPiles
    /\ placed = {}
    /\ stats = [i \in Seats |-> [games |-> 0, wins |-> 0]]

-----------------------------------------------------------------------------
\* Beside a definition stand its variants: forms that a plausible mistake
\* would give it, used by no action, which the properties must tell from it.

\* Variant: the status is not set before the statistics are written.
FinishLeavesStatus(w, hs) ==
    /\ UNCHANGED status
    /\ won' = w
    /\ stats' = [i \in Seats |-> IF i \notin Taken THEN stats[i]
                  ELSE [games |-> stats[i].games + 1, wins |-> stats[i].wins]]

\* A seat is skipped when its name has no user row, and a database error
\* ends the loop over the seats: any set of taken seats may be saved.
FinishGameAndSaveStats(w, hs) ==
    IF status = "finished"
    THEN UNCHANGED outcome
    ELSE /\ status' = "finished"
         /\ won' = w
         /\ \E saved \in SUBSET Taken :
              stats' = [i \in Seats |->
                  IF i \notin saved THEN stats[i]
                  ELSE [games |-> stats[i].games + 1,
                        wins |-> IF w /\ hs[i] = {} THEN stats[i].wins + 1
                                                    ELSE stats[i].wins]]

\* AddInitialCards, MixingDeckCards, IssuerCard for n players.
Deal(n) ==
    \E h \in IssuerCard(n) :
        /\ hands' = h
        /\ deck' = Cards \ InHands(h)
        /\ top' = Foundations
        /\ placed' = {}

MinCards(dk) == IF dk # {} THEN 2 ELSE 1

CreateGame(m) ==
    /\ status = "none"
    /\ m \in 2 .. MaxGamers
    /\ status' = "waiting"
    /\ maxPlayers' = m
    /\ UNCHANGED <<won, stats, currentPlayers, turn, table>>

JoinGame ==
    /\ status = "waiting"
    /\ currentPlayers < maxPlayers
    /\ currentPlayers' = currentPlayers + 1
    /\ IF currentPlayers' = maxPlayers
       THEN /\ status' = "playing"
            /\ Deal(currentPlayers')
            /\ currentPlayerIndex' = 0
       ELSE /\ hands' = [hands EXCEPT ![currentPlayers] = {Placeholder}]
            /\ UNCHANGED <<status, currentPlayerIndex, deck, top, placed>>
    /\ UNCHANGED <<won, stats, maxPlayers, cardsPlayedThisTurn>>

\* Variant: one player is enough.
StartGameAlone ==
    /\ status = "waiting"
    /\ currentPlayers >= 1
    /\ Deal(currentPlayers)
    /\ currentPlayerIndex' = 0
    /\ cardsPlayedThisTurn' = 0
    /\ status' = "playing"
    /\ UNCHANGED <<won, stats, lobby>>

StartGame ==
    /\ status = "waiting"
    /\ currentPlayers >= 2
    /\ Deal(currentPlayers)
    /\ currentPlayerIndex' = 0
    /\ cardsPlayedThisTurn' = 0
    /\ IF IsGameLost(top', hands', currentPlayers, 0)
       THEN FinishGameAndSaveStats(FALSE, hands')
       ELSE status' = "playing" /\ UNCHANGED <<won, stats>>
    /\ UNCHANGED lobby

\* The card leaves the hand and goes on the pile; the refill that follows an
\* emptied hand is PlayCard's own.
PushCardOnPile(i, c, p) ==
    /\ top' = [top EXCEPT ![p] = c]
    /\ placed' = placed \cup {c}

\* Variants: the cards drawn stay in the deck; no card is drawn.
RefillKeepsDeck(i, hand) ==
    /\ \E drawn \in (IF hand = {} THEN Draws(deck, HandSize(maxPlayers)) ELSE {{}}) :
          hands' = [hands EXCEPT ![i] = hand \cup drawn]
    /\ UNCHANGED deck

RefillNever(i, hand) ==
    /\ hands' = [hands EXCEPT ![i] = hand]
    /\ UNCHANGED deck

Refill(i, hand) ==
    \E drawn \in (IF hand = {} THEN Draws(deck, HandSize(maxPlayers)) ELSE {{}}) :
        /\ hands' = [hands EXCEPT ![i] = hand \cup drawn]
        /\ deck' = deck \ drawn

PlayCard(i, c, p) ==
    /\ status = "playing"
    /\ i = currentPlayerIndex
    /\ c \in hands[i]
    /\ IsValidMove(top, c, p)
    /\ PushCardOnPile(i, c, p)
    /\ cardsPlayedThisTurn' = cardsPlayedThisTurn + 1
    /\ LET left == [hands EXCEPT ![i] = hands[i] \ {c}]
       IN  IF IsGameWon(deck, left, currentPlayers)
           THEN /\ hands' = left
                /\ FinishGameAndSaveStats(TRUE, left)
                /\ UNCHANGED deck
           ELSE /\ Refill(i, left[i])
                /\ IF /\ cardsPlayedThisTurn' < MinCards(deck')
                      /\ IsGameLost(top', hands', currentPlayers, i)
                   THEN FinishGameAndSaveStats(FALSE, hands')
                   ELSE UNCHANGED outcome
    /\ UNCHANGED <<lobby, currentPlayerIndex>>

\* Variants: the seat after the last is not the first; the seats counted are
\* those of the table, not the players; the player who ends the turn is tested,
\* not the next one; nobody is tested; no minimum is asked for.
EndTurnTo(i, next, tested, minimum) ==
    /\ status = "playing"
    /\ i = currentPlayerIndex
    /\ cardsPlayedThisTurn >= minimum
    /\ cardsPlayedThisTurn' = 0
    /\ currentPlayerIndex' = next
    /\ IF tested # Placeholder /\ IsGameLost(top, hands, currentPlayers, tested)
       THEN FinishGameAndSaveStats(FALSE, hands)
       ELSE UNCHANGED outcome
    /\ UNCHANGED <<lobby, table>>

NextIndex == (currentPlayerIndex + 1) % currentPlayers
EndTurnNoWrap(i) == EndTurnTo(i, i + 1, i + 1, MinCards(deck))
EndTurnByTableSize(i) ==
    LET next == (i + 1) % maxPlayers IN EndTurnTo(i, next, next, MinCards(deck))
EndTurnTestsOldSeat(i) == EndTurnTo(i, NextIndex, i, MinCards(deck))
EndTurnTestsNobody(i) == EndTurnTo(i, NextIndex, Placeholder, MinCards(deck))
EndTurnNoMinimum(i) == EndTurnTo(i, NextIndex, NextIndex, 0)

EndTurn(i) ==
    /\ status = "playing"
    /\ i = currentPlayerIndex
    /\ cardsPlayedThisTurn >= MinCards(deck)
    /\ cardsPlayedThisTurn' = 0
    /\ currentPlayerIndex' = (currentPlayerIndex + 1) % currentPlayers
    /\ IF IsGameLost(top, hands, currentPlayers, currentPlayerIndex')
       THEN FinishGameAndSaveStats(FALSE, hands)
       ELSE UNCHANGED outcome
    /\ UNCHANGED <<lobby, table>>

\* Variant: the referee looks at every player, not at the current one.
GetGameStateAnySeat ==
    /\ status = "playing"
    /\ \E i \in Taken : IsGameLost(top, hands, currentPlayers, i)
    /\ FinishGameAndSaveStats(FALSE, hands)
    /\ UNCHANGED <<lobby, turn, table>>

\* The poll of every client also acts as referee: it ends a game whose
\* current player has no move, however many cards that player has placed.
GetGameState ==
    /\ status = "playing"
    /\ IsGameLost(top, hands, currentPlayers, currentPlayerIndex)
    /\ FinishGameAndSaveStats(FALSE, hands)
    /\ UNCHANGED <<lobby, turn, table>>

\* Variant: the hands are not emptied.
ForceWinKeepsHands ==
    /\ status \in {"waiting", "playing"}
    /\ FinishGameAndSaveStats(TRUE, hands)
    /\ UNCHANGED <<lobby, turn, table>>

\* The debug route behind the client's "Simulate Win" button: the cards of
\* every hand vanish, in a game that plays as in one that still waits.
ForceWin ==
    /\ status \in {"waiting", "playing"}
    /\ hands' = [i \in Seats |-> IF i \in Taken THEN {} ELSE hands[i]]
    /\ FinishGameAndSaveStats(TRUE, hands')
    /\ UNCHANGED <<lobby, turn, deck, top, placed>>

Next ==
    \/ \E m \in 2 .. MaxGamers : CreateGame(m)
    \/ JoinGame
    \/ StartGame
    \/ \E i \in Seats, c \in Cards, p \in Piles : PlayCard(i, c, p)
    \/ \E i \in Seats : EndTurn(i)
    \/ GetGameState
    \/ ForceWin

Spec == Init /\ [][Next]_vars

\* Every client's board polls once a second for as long as it is in the game
\* (GameBoardWindow's gameTimer), so the poll is weakly fair.
Polled == WF_vars(GetGameState)

\* The environment of a game that is played: whoever can move or end the turn
\* sooner or later does.
Played == WF_vars(\E i \in Seats : EndTurn(i) \/ \E c \in Cards, p \in Piles : PlayCard(i, c, p))

PlayedSpec == Spec /\ Polled /\ Played

-----------------------------------------------------------------------------
Playing == status = "playing"

Blocked == IsGameLost(top, hands, currentPlayers, currentPlayerIndex)

\* The current player has nothing left and nothing to draw, the others do, and
\* no card has been placed in this turn: no handler has a case for it.
Drained ==
    /\ Playing
    /\ hands[currentPlayerIndex] = {}
    /\ deck = {}
    /\ cardsPlayedThisTurn = 0

\* The deck, the hands and the piles divide the cards among them.
CardsDivided ==
    /\ deck \cup InHands(hands) \cup placed = Cards
    /\ deck \cap InHands(hands) = {}
    /\ placed \cap (deck \cup InHands(hands)) = {}
    /\ \A i, j \in Seats : i # j => hands[i] \cap hands[j] = {}

\* Dealing, drawing and playing neither lose nor duplicate a card for as long
\* as a game is played, whoever emptied a hand and whatever was left to draw.
CardConservation == Playing => CardsDivided

\* The refill of PlayCard keeps every seated player in the game: nobody's hand
\* is empty while there are cards to draw.
NoEmptyHandWhileDeck ==
    Playing /\ deck # {} => \A i \in Taken : hands[i] # {}

\* The checks in PlayCard, EndTurn and StartGame are complete: a game in which
\* the current player has no move and still owes cards has already been ended.
\* JoinGame deals without a check and is covered because no deal is blocked.
BlockedBeforeMinimumIsOver ==
    Playing /\ Blocked => cardsPlayedThisTurn >= MinCards(deck)

\* Between requests a game never waits for nobody: the current player can place
\* a card, can end the turn, or is drained.
SomeoneCanAct ==
    Playing =>
        \/ HasMove(top, hands[currentPlayerIndex])
        \/ cardsPlayedThisTurn >= MinCards(deck)
        \/ Drained

\* A defeat is never announced to a team whose current player has a move: the
\* four handlers that announce it look at the right seat and at the new piles.
LossMeansBlocked ==
    status = "finished" /\ ~won => Blocked /\ hands[currentPlayerIndex] # {}

\* A seat's user is credited at most once for a game, and not before its end,
\* however many polls, moves and debug calls reach the finishing code.
OneLedgerEntry ==
    \A i \in Seats : stats[i].games <= IF status = "finished" THEN 1 ELSE 0

\* A user's win counter moves exactly when the team's game is won: the winning
\* player's hand is tested seat by seat, and no winner is left holding cards.
LedgerMatchesOutcome ==
    \A i \in Seats : stats[i].wins = IF won THEN stats[i].games ELSE 0

\* Outside the debug route a game becomes won only by the step that puts the
\* last card on a pile.
WonByPlacing ==
    [][won' /\ ~won => ForceWin \/ (placed # Cards /\ placed' = Cards)]_vars

\* Once a game is finished no request changes anything of it.
FinishedIsFinal == [][status # "finished"]_vars

\* In play, a hand changes only by its owner's move in its owner's turn.
OthersHandsUntouched ==
    [][Playing => ForceWin \/ \A i \in Seats :
                    hands'[i] # hands[i] => i = currentPlayerIndex]_vars

\* The phase of the cooperative game that a session's status stands for.
Phase ==
    IF status \in {"none", "waiting"} THEN "open"
    ELSE IF status = "playing" THEN "playing"
    ELSE IF won THEN "won" ELSE "lost"

\* The game implements the cooperative game: the cards still to put out are
\* those on no pile, and the mover has moved when it has placed a card.
Coop == INSTANCE CoopGame WITH
    AllCards <- Cards,
    MaxSeats <- MaxGamers,
    phase <- Phase,
    seated <- currentPlayers,
    mover <- currentPlayerIndex,
    moved <- cardsPlayedThisTurn > 0,
    remaining <- Cards \ placed

ImplementsCoopGame == Coop!CSpec

\* A game that is played comes to an end, save one that waits for ever for a
\* drained player.
PlayedGameEnds == Playing ~> (status = "finished" \/ Drained)
=============================================================================
