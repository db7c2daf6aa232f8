-------------------------- MODULE CoopGame_proofs --------------------------
(***************************************************************************)
(* Proof that one game of the server implements the cooperative game, and  *)
(* the action properties of a game.                                        *)
(***************************************************************************)
EXTENDS GameSession_proofs

\* The phases of the cooperative game, read off a session's status.
LEMMA PhaseOf ==
    /\ status \in {"none", "waiting"} => Phase = "open"
    /\ status = "playing" => Phase = "playing"
    /\ status = "finished" => Phase = IF won THEN "won" ELSE "lost"
BY DEF Phase

\* The same of the state after a step.
LEMMA PhaseNext ==
    /\ status' \in {"none", "waiting"} => Phase' = "open"
    /\ status' = "playing" => Phase' = "playing"
    /\ status' = "finished" /\ won' = TRUE => Phase' = "won"
    /\ status' = "finished" /\ won' = FALSE => Phase' = "lost"
BY DEF Phase

\* Nothing has been placed and nobody has moved in a game not yet begun.
Fresh ==
    status \in {"none", "waiting"} =>
        currentPlayerIndex = 0 /\ cardsPlayedThisTurn = 0 /\ placed = {}

\* Only play moves cards and turns.
LEMMA FreshGames == Spec => []Fresh
<1>1. Init => Fresh
  BY DEF Init, Fresh
<1>2. Fresh /\ [Next]_vars => Fresh'
  BY DEF Fresh, Next, vars, outcome, lobby, turn, table, CreateGame, JoinGame,
         StartGame, PlayCard, EndTurn, GetGameState, ForceWin,
         FinishGameAndSaveStats
<1>. QED
  BY <1>1, <1>2, PTL DEF Spec

\* A game whose current player holds a card is not complete.
LEMMA CardsLeft ==
    ASSUME TableInv, Playing, NEW i \in Seats, hands[i] # {}
    PROVE  Cards \ placed # {}
<1>1. /\ deck \cup InHands(hands) \cup placed = Cards
      /\ placed \cap (deck \cup InHands(hands)) = {}
  BY DEF TableInv, CardConservation, CardsDivided
<1>2. PICK c \in hands[i] : c \in InHands(hands)
  BY DEF InHands
<1>. QED
  BY <1>1, <1>2

\* Playing a card takes it, and it alone, off the cards still to put out.
LEMMA PlayCardRemaining ==
    ASSUME TableInv, NEW i \in Seats, NEW c \in Cards, NEW p \in Piles,
           PlayCard(i, c, p)
    PROVE  /\ c \in Cards \ placed
           /\ Cards \ placed' = (Cards \ placed) \ {c}
           /\ Cards \ placed' = deck' \cup InHands(hands')
<1>1. /\ Playing /\ c \in hands[i] /\ placed' = placed \cup {c}
  BY DEF PlayCard, PushCardOnPile, Playing
<1>2. c \notin placed
  BY <1>1 DEF TableInv, CardConservation, CardsDivided, InHands
<1>3. CardsDivided'
  BY PlayCardCards
<1>4. Cards \ placed' = deck' \cup InHands(hands')
  BY <1>3 DEF CardsDivided, InHands
<1>. QED
  BY <1>1, <1>2, <1>4

\* A won table has nothing left to put out; one that goes on has.
LEMMA WonTableIsComplete ==
    ASSUME TableInv, NEW i \in Seats, NEW c \in Cards, NEW p \in Piles,
           PlayCard(i, c, p)
    PROVE  /\ IsGameWon(deck', hands', currentPlayers) => Cards \ placed' = {}
           /\ (\E j \in Taken : deck' # {} \/ hands'[j] # {})
                => Cards \ placed' # {}
<1>1. Cards \ placed' = deck' \cup InHands(hands')
  BY PlayCardRemaining
<1>2. \A j \in Seats \ Taken : hands'[j] = {}
  BY PlayCardCards
<1>3. Taken \subseteq Seats
  BY TableAssumption DEF TableInv, TypeOK, Taken, Seats
<1>. QED
  BY <1>1, <1>2, <1>3 DEF IsGameWon, Taken, InHands

-----------------------------------------------------------------------------
\* The steps of a session, one by one, as steps of the cooperative game.

\* Sitting down is sitting down, and the last seat begins the game.
LEMMA JoinIsSit == TableInv /\ Fresh /\ JoinGame => Coop!Sit
<1>. SUFFICES ASSUME TableInv, Fresh, JoinGame PROVE Coop!Sit
  OBVIOUS
<1>1. /\ status = "waiting" /\ currentPlayers < MaxGamers
      /\ currentPlayers' = currentPlayers + 1
      /\ cardsPlayedThisTurn' = cardsPlayedThisTurn
  BY TableAssumption DEF JoinGame, TableInv, TypeOK
<1>2. currentPlayerIndex = 0 /\ placed = {}
  BY <1>1 DEF Fresh
<1>3. /\ currentPlayerIndex' = currentPlayerIndex /\ placed' = placed
      /\ \/ status' = "waiting"
         \/ status' = "playing" /\ currentPlayers' >= 2
  <2>1. CASE currentPlayers' = maxPlayers
    BY <1>1, <1>2, <2>1 DEF JoinGame, Deal, TableInv, Opened
  <2>2. CASE currentPlayers' # maxPlayers
    BY <1>1, <2>2 DEF JoinGame
  <2>. QED
    BY <2>1, <2>2
<1>. QED
  BY <1>1, <1>3, PhaseOf, PhaseNext DEF Coop!Sit

\* Starting early begins the game with those who are there.
LEMMA StartIsBegin == TableInv /\ Fresh /\ StartGame => Coop!Begin
<1>. SUFFICES ASSUME TableInv, Fresh, StartGame PROVE Coop!Begin
  OBVIOUS
<1>1. /\ status = "waiting" /\ currentPlayers >= 2
      /\ currentPlayers' = currentPlayers
      /\ currentPlayerIndex' = 0 /\ cardsPlayedThisTurn' = 0
  BY DEF StartGame, lobby
<1>2. currentPlayerIndex = 0 /\ cardsPlayedThisTurn = 0 /\ placed = {}
  BY <1>1 DEF Fresh
<1>3. status' # "waiting"
  BY <1>1, FinishEffect DEF StartGame
<1>4. status' = "playing" /\ placed' = {}
  BY <1>3, DealtFree
<1>. QED
  BY <1>1, <1>2, <1>4, PhaseOf, PhaseNext DEF Coop!Begin

\* Playing a card is placing it, whatever it decides.
LEMMA PlayIsPlace ==
    ASSUME TableInv, NEW i \in Seats, NEW c \in Cards, NEW p \in Piles,
           PlayCard(i, c, p)
    PROVE  Coop!Place(c)
<1>1. /\ status = "playing" /\ cardsPlayedThisTurn' = cardsPlayedThisTurn + 1
      /\ UNCHANGED <<currentPlayers, currentPlayerIndex>>
  BY DEF PlayCard, lobby
<1>2. cardsPlayedThisTurn' > 0
  BY <1>1 DEF TableInv, TypeOK
<1>3. Phase = "playing"
  BY <1>1, PhaseOf
<1>4. Phase' \in IF Cards \ placed' = {} THEN {"won"} ELSE {"playing", "lost"}
  <2>1. CASE /\ status' = "finished" /\ won' = TRUE
             /\ IsGameWon(deck', hands', currentPlayers)
    BY <2>1, WonTableIsComplete, PhaseNext
  <2>2. CASE /\ status' = "finished" /\ won' = FALSE
             /\ hands'[currentPlayerIndex'] # {}
    <3>1. currentPlayerIndex' \in Taken
      BY <1>1 DEF TableInv, TypeOK, Seated, Taken, Seats, Playing
    <3>. QED
      BY <2>2, <3>1, WonTableIsComplete, PhaseNext
  <2>3. CASE UNCHANGED outcome /\ \E j \in Taken : deck' # {} \/ hands'[j] # {}
    BY <1>1, <2>3, WonTableIsComplete, PhaseNext DEF outcome
  <2>. QED
    BY <2>1, <2>2, <2>3, PlayCardEnds
<1>. QED
  BY <1>1, <1>2, <1>3, <1>4, PlayCardRemaining DEF Coop!Place

\* Ending the turn is passing it on.
LEMMA EndTurnIsPass ==
    ASSUME TableInv, NEW i \in Seats, EndTurn(i)
    PROVE  Coop!Pass
<1>1. /\ status = "playing" /\ cardsPlayedThisTurn' = 0
      /\ currentPlayerIndex' = (currentPlayerIndex + 1) % currentPlayers
      /\ cardsPlayedThisTurn >= MinCards(deck)
      /\ UNCHANGED <<currentPlayers, placed>>
  BY DEF EndTurn, lobby, table
<1>2. cardsPlayedThisTurn > 0
  BY <1>1 DEF MinCards, TableInv, TypeOK
<1>3. Phase = "playing"
  BY <1>1, PhaseOf
<1>4. Phase' \in {"playing", "lost"}
  BY <1>1, EndTurnEnds, PhaseNext DEF outcome
<1>. QED
  BY <1>1, <1>2, <1>3, <1>4 DEF Coop!Pass

\* A defeat found by the poll is the team giving up with cards in hand.
LEMMA PollIsGiveUp == TableInv /\ GetGameState => Coop!GiveUp
<1>. SUFFICES ASSUME TableInv, GetGameState PROVE Coop!GiveUp
  OBVIOUS
<1>1. /\ status = "playing" /\ FinishGameAndSaveStats(FALSE, hands)
      /\ IsGameLost(top, hands, currentPlayers, currentPlayerIndex)
      /\ UNCHANGED <<currentPlayers, currentPlayerIndex, cardsPlayedThisTurn, placed>>
  BY DEF GetGameState, lobby, turn, table
<1>2. currentPlayerIndex \in Seats /\ currentPlayerIndex \in 0 .. (currentPlayers - 1)
  BY <1>1 DEF TableInv, TypeOK, Seated, Seats, Playing
<1>3. Cards \ placed # {}
  BY <1>1, <1>2, CardsLeft DEF IsGameLost, Playing
<1>4. Phase = "playing" /\ Phase' = "lost"
  BY <1>1, FinishEffect, PhaseOf, PhaseNext
<1>. QED
  BY <1>1, <1>3, <1>4 DEF Coop!GiveUp

\* The debug route declares the game won.
LEMMA ForceIsDeclare == TableInv /\ ForceWin => Coop!DeclareWon
<1>. SUFFICES ASSUME TableInv, ForceWin PROVE Coop!DeclareWon
  OBVIOUS
<1>1. /\ status \in {"waiting", "playing"}
      /\ FinishGameAndSaveStats(TRUE, hands')
      /\ UNCHANGED <<currentPlayers, currentPlayerIndex, cardsPlayedThisTurn, placed>>
  BY DEF ForceWin, lobby, turn
<1>2. Phase \in {"open", "playing"} /\ Phase' = "won"
  BY <1>1, FinishEffect, PhaseOf, PhaseNext
<1>. QED
  BY <1>1, <1>2 DEF Coop!DeclareWon

\* Every game of the server is a run of the cooperative game: cards are put
\* out one at a time and never taken back, the turn goes round the taken seats
\* and never passes before a card was placed, and outside the debug route the
\* team wins at the moment the last card is out and loses only before it.
THEOREM SessionImplementsCoopGame == Spec => ImplementsCoopGame
<1>1. Init => Coop!CInit
  BY PhaseOf DEF Init, Coop!CInit
<1>2. TableInv /\ Fresh /\ [Next]_vars => [Coop!CNext]_(Coop!gameVars)
  <2>. SUFFICES ASSUME TableInv, Fresh, Next \/ UNCHANGED vars
                PROVE  Coop!CNext \/ UNCHANGED Coop!gameVars
    OBVIOUS
  <2>1. CASE JoinGame
    BY <2>1, JoinIsSit DEF Coop!CNext
  <2>2. CASE StartGame
    BY <2>2, StartIsBegin DEF Coop!CNext
  <2>3. ASSUME NEW i \in Seats, NEW c \in Cards, NEW p \in Piles, PlayCard(i, c, p)
        PROVE  Coop!CNext
    BY <2>3, PlayIsPlace DEF Coop!CNext
  <2>4. ASSUME NEW i \in Seats, EndTurn(i) PROVE Coop!CNext
    BY <2>4, EndTurnIsPass DEF Coop!CNext
  <2>5. CASE GetGameState
    BY <2>5, PollIsGiveUp DEF Coop!CNext
  <2>6. CASE ForceWin
    BY <2>6, ForceIsDeclare DEF Coop!CNext
  <2>7. ASSUME NEW m, CreateGame(m) PROVE UNCHANGED Coop!gameVars
    BY <2>7 DEF CreateGame, Coop!gameVars, Phase, turn, table
  <2>8. CASE UNCHANGED vars
    BY <2>8
    DEF vars, outcome, lobby, turn, table, Coop!gameVars, Phase
  <2>. QED
    BY <2>1, <2>2, <2>3, <2>4, <2>5, <2>6, <2>7, <2>8 DEF Next
<1>. QED
  BY <1>1, <1>2, TableInvariant, FreshGames, PTL
  DEF Spec, ImplementsCoopGame, Coop!CSpec

-----------------------------------------------------------------------------
\* Outside the debug route, the step that wins a game is the one that puts its
\* last card on a pile.
THEOREM WinsArePlaced == Spec => WonByPlacing
<1>1. TableInv /\ OutcomeInv /\ [Next]_vars
        => [won' /\ ~won => ForceWin \/ (placed # Cards /\ placed' = Cards)]_vars
  <2>. SUFFICES ASSUME TableInv, OutcomeInv, Next, won', ~won, ~ForceWin
                PROVE  placed # Cards /\ placed' = Cards
    OBVIOUS
  <2>1. ASSUME NEW i \in Seats, NEW c \in Cards, NEW p \in Piles, PlayCard(i, c, p)
        PROVE  placed # Cards /\ placed' = Cards
    <3>1. IsGameWon(deck', hands', currentPlayers)
      BY <2>1, PlayCardEnds DEF outcome
    <3>2. Cards \ placed' = {} /\ c \notin placed /\ placed' \subseteq Cards
      BY <2>1, <3>1, WonTableIsComplete, PlayCardRemaining, PlayCardCards
    <3>. QED
      BY <3>2
  <2>2. ASSUME NEW i \in Seats, EndTurn(i) PROVE FALSE
    BY <2>2, EndTurnEnds DEF outcome
  <2>3. ~GetGameState
    BY FinishEffect DEF GetGameState
  <2>4. ~JoinGame
    BY DEF JoinGame
  <2>5. ~StartGame
    BY FinishEffect DEF StartGame
  <2>6. \A m \in 2 .. MaxGamers : ~CreateGame(m)
    BY DEF CreateGame
  <2>. QED
    BY <2>1, <2>2, <2>3, <2>4, <2>5, <2>6 DEF Next
<1>. QED
  BY <1>1, TableInvariant, OutcomeInvariant, PTL DEF Spec, WonByPlacing

\* No request changes anything of a finished game.
THEOREM FinishedStays == Spec => FinishedIsFinal
<1>1. [Next]_vars => [status # "finished"]_vars
  BY DEF Next, CreateGame, JoinGame, StartGame, PlayCard, EndTurn, GetGameState,
         ForceWin
<1>. QED
  BY <1>1, PTL DEF Spec, FinishedIsFinal

\* In play only the current player's hand changes.
THEOREM HandsArePrivate == Spec => OthersHandsUntouched
<1>1. TableInv /\ [Next]_vars
        => [Playing => ForceWin \/ \A i \in Seats :
                    hands'[i] # hands[i] => i = currentPlayerIndex]_vars
  <2>. SUFFICES ASSUME TableInv, Next, Playing, ~ForceWin,
                       NEW k \in Seats, k # currentPlayerIndex
                PROVE  hands'[k] = hands[k]
    OBVIOUS
  <2>1. ASSUME NEW i \in Seats, NEW c \in Cards, NEW p \in Piles, PlayCard(i, c, p)
        PROVE  hands'[k] = hands[k]
    <3>1. i = currentPlayerIndex
      BY <2>1 DEF PlayCard
    <3>2. PICK drawn \in SUBSET deck :
            hands' = [hands EXCEPT ![i] = (hands[i] \ {c}) \cup drawn]
      BY <2>1, PlayCardTable
    <3>. QED
      BY <3>1, <3>2 DEF TableInv, TypeOK, Hands
  <2>. QED
    BY <2>1
    DEF Next, CreateGame, JoinGame, StartGame, EndTurn, GetGameState, Playing, table
<1>. QED
  BY <1>1, TableInvariant, PTL DEF Spec, OthersHandsUntouched
=============================================================================
