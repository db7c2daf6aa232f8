------------------------ MODULE GameSession_proofs ------------------------
(***************************************************************************)
(* Proofs about one game, for every deck, hand size and number of seats:   *)
(* the cards are conserved and hands kept full; the referee's checks are   *)
(* complete, nobody is told they lost while they have a move, and the      *)
(* users' totals move once and in the right direction.                     *)
(***************************************************************************)
EXTENDS GameSession, FiniteSetTheorems, TLAPS

\* What dealing establishes and play keeps: two or more players, the turn with
\* one of them, only real cards in hand, empty seats empty, no pile empty.
Seated ==
    Playing =>
        /\ currentPlayers >= 2
        /\ currentPlayerIndex < currentPlayers
        /\ hands \in [Seats -> SUBSET Cards]
        /\ \A i \in Seats \ Taken : hands[i] = {}
        /\ \A p \in Piles : top[p] # NoCard

\* A game that exists was opened for two players or more, and nobody sits in
\* one that does not.
Opened == IF status = "none" THEN currentPlayers = 0 ELSE maxPlayers >= 2

\* The inductive invariant of the table: each part needs the others, the type
\* of the turn needs Seated, Seated needs the cards to be where they belong.
TableInv == TypeOK /\ Opened /\ Seated /\ CardConservation /\ NoEmptyHandWhileDeck

-----------------------------------------------------------------------------
\* Facts about the table's operators.

\* Every hand size is at least two.
LEMMA HandSizeType == ASSUME NEW n PROVE HandSize(n) \in Nat \ {0, 1}
BY TableAssumption DEF HandSize

\* There is room for a full hand between the foundations.
LEMMA LowBelowHigh == Low + 1 < High
<1>1. 2 \in 2 .. MaxGamers
  BY TableAssumption
<1>2. 2 * HandSize(2) < High - Low - 1
  BY <1>1, DealAssumption
<1>. QED
  BY <1>2, HandSizeType, TableAssumption DEF HandSize

\* Foundations are tops of the right kind, and none of them is an empty pile.
LEMMA FoundationsType ==
    Foundations \in Tops /\ \A p \in Piles : Foundations[p] # NoCard
BY LowBelowHigh, TableAssumption DEF Foundations, Tops, Piles, Ascending, NoCard

\* A deal gives every player cards, nobody else any, and no card twice.
LEMMA DealtHands ==
    ASSUME NEW n \in 2 .. MaxGamers, NEW h \in IssuerCard(n)
    PROVE  /\ h \in [Seats -> SUBSET Cards]
           /\ \A i \in 0 .. (n - 1) : i \in Seats /\ h[i] # {}
           /\ \A i \in Seats : i \notin 0 .. (n - 1) => h[i] = {}
           /\ \A i, j \in Seats : i # j => h[i] \cap h[j] = {}
<1>. DEFINE dealt == {S \in SUBSET Cards : Cardinality(S) = HandSize(n)}
<1>1. /\ h \in [Seats -> dealt \cup {{}}]
      /\ \A i \in Seats : i < n <=> h[i] \in dealt
      /\ \A i, j \in Seats : i # j => h[i] \cap h[j] = {}
  BY DEF IssuerCard
<1>2. \A S \in dealt : S # {}
  BY HandSizeType, FS_EmptySet
<1>3. \A i \in 0 .. (n - 1) : i \in Seats /\ i < n
  BY TableAssumption DEF Seats
<1>4. \A i \in Seats : i \notin 0 .. (n - 1) => ~(i < n)
  BY DEF Seats
<1>. HIDE DEF dealt
<1>5. \A i \in Seats : i \notin 0 .. (n - 1) => h[i] = {}
  BY <1>1, <1>4
<1>6. \A i \in 0 .. (n - 1) : i \in Seats /\ h[i] # {}
  BY <1>1, <1>2, <1>3
<1>7. h \in [Seats -> SUBSET Cards]
  BY <1>1 DEF dealt
<1>. QED
  BY <1>1, <1>5, <1>6, <1>7

\* No player is blocked on the foundations: any card goes on the first pile.
LEMMA DealNotLost ==
    ASSUME NEW n \in 2 .. MaxGamers, NEW h \in IssuerCard(n)
    PROVE  ~IsGameLost(Foundations, h, n, 0)
<1>1. 0 \in 0 .. (n - 1)
  OBVIOUS
<1>2. PICK c \in h[0] : TRUE
  BY <1>1, DealtHands
<1>3. c \in Cards
  BY <1>1, <1>2, DealtHands
<1>4. IsValidMove(Foundations, c, 1)
  BY <1>3, TableAssumption
  DEF IsValidMove, Foundations, Piles, Ascending, NoCard, Cards
<1>5. HasMove(Foundations, h[0])
  BY <1>2, <1>4 DEF HasMove, Piles
<1>. QED
  BY <1>1, <1>5 DEF IsGameLost

\* A draw takes cards of the deck, and takes some if there are any.
LEMMA DrawnCards ==
    ASSUME NEW dk, NEW t \in Nat \ {0, 1}, NEW D \in Draws(dk, t)
    PROVE  D \subseteq dk /\ (dk # {} => D # {})
<1>1. CASE Cardinality(dk) <= t
  BY <1>1 DEF Draws
<1>2. CASE ~(Cardinality(dk) <= t)
  <2>1. D \in SUBSET dk /\ Cardinality(D) = t
    BY <1>2 DEF Draws
  <2>2. D # {}
    BY <2>1, FS_EmptySet
  <2>. QED
    BY <2>1, <2>2
<1>. QED
  BY <1>1, <1>2

\* Finishing keeps the outcome well typed, and ends a game that is not over.
LEMMA FinishType ==
    ASSUME TypeOK, NEW w \in BOOLEAN, NEW hs, FinishGameAndSaveStats(w, hs)
    PROVE  /\ status' = "finished"
           /\ won' \in BOOLEAN
           /\ stats' \in [Seats -> [games : Nat, wins : Nat]]
<1>1. CASE status = "finished"
  BY <1>1 DEF FinishGameAndSaveStats, TypeOK, outcome
<1>2. CASE status # "finished"
  <2>1. PICK saved \in SUBSET Taken :
          stats' = [i \in Seats |->
                  IF i \notin saved THEN stats[i]
                  ELSE [games |-> stats[i].games + 1,
                        wins |-> IF w /\ hs[i] = {} THEN stats[i].wins + 1
                                                    ELSE stats[i].wins]]
    BY <1>2 DEF FinishGameAndSaveStats
  <2>2. stats' \in [Seats -> [games : Nat, wins : Nat]]
    BY <2>1 DEF TypeOK
  <2>. QED
    BY <1>2, <2>2 DEF FinishGameAndSaveStats
<1>. QED
  BY <1>1, <1>2

-----------------------------------------------------------------------------
\* The inductive invariant, one lemma per kind of step.

\* The bounds of the remainder that hands the turn on.
LEMMA NextSeat ==
    ASSUME NEW a \in Nat, NEW n \in Nat \ {0}
    PROVE  (a + 1) % n \in 0 .. (n - 1)
OBVIOUS

\* A fresh deal, however it was asked for, establishes the invariant's parts.
LEMMA DealStep ==
    ASSUME TypeOK, currentPlayers' \in 2 .. MaxGamers, Deal(currentPlayers'),
           currentPlayerIndex' = 0
    PROVE  /\ Seated'
           /\ CardConservation'
           /\ NoEmptyHandWhileDeck'
           /\ deck' \subseteq Cards /\ hands' \in Hands
           /\ top' \in Tops /\ placed' \subseteq Cards
           /\ ~IsGameLost(top', hands', currentPlayers', 0)
<1>. DEFINE n == currentPlayers'
<1>1. PICK h \in IssuerCard(n) :
        /\ hands' = h
        /\ deck' = Cards \ InHands(h)
        /\ top' = Foundations
        /\ placed' = {}
  BY DEF Deal
<1>2. /\ h \in [Seats -> SUBSET Cards]
      /\ \A i \in 0 .. (n - 1) : i \in Seats /\ h[i] # {}
      /\ \A i \in Seats : i \notin 0 .. (n - 1) => h[i] = {}
      /\ \A i, j \in Seats : i # j => h[i] \cap h[j] = {}
  BY DealtHands
<1>3. ~IsGameLost(Foundations, h, n, 0)
  BY DealNotLost
<1>4. InHands(h) \subseteq Cards
  BY <1>2 DEF InHands
<1>5. Seated'
  BY <1>1, <1>2, FoundationsType DEF Seated, Playing, Taken
<1>6. CardConservation'
  BY <1>1, <1>2, <1>4 DEF CardConservation, CardsDivided
<1>7. NoEmptyHandWhileDeck'
  BY <1>1, <1>2 DEF NoEmptyHandWhileDeck, Taken
<1>. QED
  BY <1>1, <1>2, <1>3, <1>4, <1>5, <1>6, <1>7, FoundationsType DEF Hands

\* A game that is not played when a step ends has nothing to show but its types.
LEMMA NotPlaying ==
    ASSUME status' # "playing"
    PROVE  Seated' /\ CardConservation' /\ NoEmptyHandWhileDeck'
BY DEF Seated, CardConservation, NoEmptyHandWhileDeck, Playing

\* Sitting down, with or without the deal that the last seat sets off.
LEMMA JoinGameStep == TableInv /\ JoinGame => TableInv'
<1>. SUFFICES ASSUME TableInv, JoinGame PROVE TableInv'
  OBVIOUS
<1>1. /\ currentPlayers' \in 0 .. maxPlayers'
      /\ maxPlayers' = maxPlayers /\ won' = won /\ stats' = stats
      /\ cardsPlayedThisTurn' = cardsPlayedThisTurn
      /\ currentPlayers \in Seats
  BY TableAssumption DEF TableInv, TypeOK, JoinGame, Seats
<1>2. CASE currentPlayers' = maxPlayers
  <2>1. /\ status' = "playing" /\ Deal(currentPlayers')
        /\ currentPlayerIndex' = 0
    BY <1>2 DEF JoinGame
  <2>2. currentPlayers' \in 2 .. MaxGamers
    BY <1>2 DEF TableInv, TypeOK, Opened, JoinGame
  <2>. QED
    BY <1>1, <2>1, <2>2, DealStep, TableAssumption
    DEF TableInv, TypeOK, Opened, Seats
<1>3. CASE currentPlayers' # maxPlayers
  <2>1. /\ hands' = [hands EXCEPT ![currentPlayers] = {Placeholder}]
        /\ status' = "waiting" /\ status = "waiting"
        /\ UNCHANGED <<currentPlayerIndex, deck, top, placed>>
    BY <1>3 DEF JoinGame
  <2>2. TypeOK'
    BY <1>1, <2>1 DEF TableInv, TypeOK, Hands
  <2>. QED
    BY <1>1, <2>1, <2>2, NotPlaying DEF TableInv, Opened
<1>. QED
  BY <1>2, <1>3

\* Starting a game early deals to the players who are there.
LEMMA StartGameStep == TableInv /\ StartGame => TableInv'
<1>. SUFFICES ASSUME TableInv, StartGame PROVE TableInv'
  OBVIOUS
<1>0. /\ currentPlayers' \in 2 .. MaxGamers
      /\ currentPlayers' = currentPlayers /\ maxPlayers' = maxPlayers
      /\ currentPlayerIndex' = 0 /\ cardsPlayedThisTurn' = 0
  BY TableAssumption DEF TableInv, TypeOK, StartGame, lobby
<1>1. Deal(currentPlayers')
  BY <1>0 DEF StartGame, Deal
<1>2. status' = "playing" /\ UNCHANGED <<won, stats>>
  BY <1>0, <1>1, DealStep DEF StartGame, TableInv
<1>. QED
  BY <1>0, <1>1, <1>2, DealStep, TableAssumption
  DEF TableInv, TypeOK, Opened, Seats, StartGame

\* What a card played leaves on the table, before the outcome is decided.
LEMMA PlayCardTable ==
    ASSUME TableInv, NEW i \in Seats, NEW c \in Cards, NEW p \in Piles,
           PlayCard(i, c, p)
    PROVE  \E drawn \in SUBSET deck :
             /\ hands' = [hands EXCEPT ![i] = (hands[i] \ {c}) \cup drawn]
             /\ deck' = deck \ drawn
             /\ \/ hands[i] \ {c} # {}
                \/ deck # {} => drawn # {}
<1>. DEFINE left == [hands EXCEPT ![i] = hands[i] \ {c}]
<1>0. left[i] = hands[i] \ {c} /\ left = [hands EXCEPT ![i] = (hands[i] \ {c}) \cup {}]
  BY DEF TableInv, TypeOK, Hands
<1>1. CASE IsGameWon(deck, left, currentPlayers)
  <2>1. hands' = left /\ deck' = deck /\ deck = {}
    BY <1>1 DEF PlayCard, IsGameWon
  <2>2. {} \in SUBSET deck
    OBVIOUS
  <2>. QED
    BY <1>0, <2>1, <2>2
<1>2. CASE ~IsGameWon(deck, left, currentPlayers)
  <2>1. Refill(i, left[i])
    BY <1>2 DEF PlayCard
  <2>2. PICK drawn \in (IF left[i] = {} THEN Draws(deck, HandSize(maxPlayers)) ELSE {{}}) :
          /\ hands' = [hands EXCEPT ![i] = left[i] \cup drawn]
          /\ deck' = deck \ drawn
    BY <2>1 DEF Refill
  <2>3. drawn \subseteq deck /\ (left[i] # {} \/ (deck # {} => drawn # {}))
    BY <2>2, DrawnCards, HandSizeType
  <2>. QED
    BY <1>0, <2>2, <2>3
<1>. QED
  BY <1>1, <1>2

\* The outcome of a card played keeps its type, and the game may go on.
LEMMA PlayCardOutcome ==
    ASSUME TypeOK, NEW i \in Seats, NEW c \in Cards, NEW p \in Piles,
           PlayCard(i, c, p)
    PROVE  /\ status' \in {"playing", "finished"}
           /\ won' \in BOOLEAN
           /\ stats' \in [Seats -> [games : Nat, wins : Nat]]
<1>. DEFINE left == [hands EXCEPT ![i] = hands[i] \ {c}]
<1>1. \/ FinishGameAndSaveStats(TRUE, left)
      \/ FinishGameAndSaveStats(FALSE, hands')
      \/ UNCHANGED outcome
  BY DEF PlayCard
<1>2. status = "playing"
  BY DEF PlayCard
<1>3. CASE UNCHANGED outcome
  BY <1>2, <1>3 DEF outcome, TypeOK
<1>. QED
  BY <1>1, <1>3, FinishType

\* Playing a card moves it from the hand to a pile and cards from the deck to
\* the hand, and to nowhere else, whether or not the game goes on.
LEMMA PlayCardCards ==
    ASSUME TableInv, NEW i \in Seats, NEW c \in Cards, NEW p \in Piles,
           PlayCard(i, c, p)
    PROVE  /\ CardsDivided' /\ NoEmptyHandWhileDeck'
           /\ hands' \in [Seats -> SUBSET Cards]
           /\ \A j \in Seats \ Taken : hands'[j] = {}
           /\ deck' \subseteq Cards /\ placed' \subseteq Cards
<1>1. PICK drawn \in SUBSET deck :
        /\ hands' = [hands EXCEPT ![i] = (hands[i] \ {c}) \cup drawn]
        /\ deck' = deck \ drawn
        /\ hands[i] \ {c} # {} \/ (deck # {} => drawn # {})
  BY PlayCardTable
<1>2. /\ Playing /\ i = currentPlayerIndex /\ c \in hands[i]
      /\ placed' = placed \cup {c} /\ currentPlayers' = currentPlayers
  BY DEF PlayCard, PushCardOnPile, Playing, lobby
<1>3. /\ hands \in [Seats -> SUBSET Cards] /\ deck \subseteq Cards
      /\ currentPlayerIndex < currentPlayers
  BY <1>2 DEF TableInv, TypeOK, Seated
<1>4. hands' \in [Seats -> SUBSET Cards]
  BY <1>1, <1>3
<1>5. deck' \subseteq Cards /\ placed' \subseteq Cards
  BY <1>1, <1>2, <1>3 DEF TableInv, TypeOK
<1>6. \A j \in Seats \ Taken : hands'[j] = {}
  BY <1>1, <1>2, <1>3 DEF TableInv, Seated, Taken, Seats
<1>7. CardsDivided'
  <2>1. /\ deck \cup InHands(hands) \cup placed = Cards
        /\ deck \cap InHands(hands) = {}
        /\ placed \cap (deck \cup InHands(hands)) = {}
        /\ \A j, k \in Seats : j # k => hands[j] \cap hands[k] = {}
    BY <1>2 DEF TableInv, CardConservation, CardsDivided
  <2>2. \A j \in Seats : hands[j] \subseteq InHands(hands)
    BY DEF InHands
  <2>3. InHands(hands') = (InHands(hands) \ {c}) \cup drawn
    <3>1. \A j \in Seats : j # i => c \notin hands[j]
      BY <1>2, <2>1
    <3>2. hands'[i] = (hands[i] \ {c}) \cup drawn
          /\ \A j \in Seats : j # i => hands'[j] = hands[j]
      BY <1>1, <1>3
    <3>. QED
      BY <3>1, <3>2 DEF InHands
  <2>4. \A j, k \in Seats : j # k => hands'[j] \cap hands'[k] = {}
    BY <1>1, <1>3, <2>1, <2>2
  <2>5. c \in InHands(hands)
    BY <1>2, <2>2
  <2>. QED
    BY <1>1, <1>2, <2>1, <2>3, <2>4, <2>5 DEF CardsDivided, InHands
<1>8. NoEmptyHandWhileDeck'
  BY <1>1, <1>2, <1>3 DEF TableInv, NoEmptyHandWhileDeck, Taken, Seats, Playing
<1>. QED
  BY <1>4, <1>5, <1>6, <1>7, <1>8

\* A card played keeps the invariant.
LEMMA PlayCardStep ==
    ASSUME TableInv, NEW i \in Seats, NEW c \in Cards, NEW p \in Piles,
           PlayCard(i, c, p)
    PROVE  TableInv'
<1>1. /\ Playing
      /\ top' = [top EXCEPT ![p] = c]
      /\ cardsPlayedThisTurn' = cardsPlayedThisTurn + 1
      /\ UNCHANGED <<maxPlayers, currentPlayers, currentPlayerIndex>>
  BY DEF PlayCard, PushCardOnPile, Playing, lobby
<1>2. /\ CardsDivided' /\ NoEmptyHandWhileDeck'
      /\ hands' \in [Seats -> SUBSET Cards]
      /\ \A j \in Seats \ Taken : hands'[j] = {}
      /\ deck' \subseteq Cards /\ placed' \subseteq Cards
  BY PlayCardCards
<1>3. TypeOK'
  <2>1. c \in Low .. High
    BY TableAssumption DEF Cards
  <2>2. top' \in Tops
    BY <1>1, <2>1 DEF TableInv, TypeOK, Tops
  <2>3. hands' \in Hands
    BY <1>2 DEF Hands
  <2>. QED
    BY <1>1, <1>2, <2>2, <2>3, PlayCardOutcome DEF TableInv, TypeOK
<1>4. Seated'
  <2>1. \A q \in Piles : top'[q] # NoCard
    BY <1>1, TableAssumption DEF TableInv, TypeOK, Seated, Tops, Cards, NoCard
  <2>. QED
    BY <1>1, <1>2, <2>1 DEF TableInv, Seated, Taken
<1>5. Opened'
  BY <1>1, PlayCardOutcome DEF TableInv, Opened, Playing
<1>. QED
  BY <1>2, <1>3, <1>4, <1>5 DEF TableInv, CardConservation

\* Handing on the turn touches no card; the next seat is a taken one.
LEMMA EndTurnStep ==
    ASSUME TableInv, NEW i \in Seats, EndTurn(i)
    PROVE  TableInv'
<1>1. /\ Playing /\ UNCHANGED <<lobby, table>>
      /\ cardsPlayedThisTurn' = 0
      /\ currentPlayerIndex' = (currentPlayerIndex + 1) % currentPlayers
      /\ FinishGameAndSaveStats(FALSE, hands) \/ UNCHANGED outcome
  BY DEF EndTurn, Playing
<1>2. currentPlayerIndex' \in 0 .. (currentPlayers - 1)
  BY <1>1, NextSeat DEF TableInv, TypeOK, Seated, Seats
<1>3. /\ status' \in {"playing", "finished"} /\ won' \in BOOLEAN
      /\ stats' \in [Seats -> [games : Nat, wins : Nat]]
  BY <1>1, FinishType DEF TableInv, TypeOK, outcome, Playing
<1>4. TypeOK'
  <2>1. UNCHANGED <<maxPlayers, currentPlayers, deck, hands, top, placed>>
    BY <1>1 DEF lobby, table
  <2>2. currentPlayerIndex' \in Seats
    BY <1>2, TableAssumption DEF TableInv, TypeOK, Seats
  <2>. QED
    BY <1>1, <1>3, <2>1, <2>2 DEF TableInv, TypeOK
<1>5. UNCHANGED <<maxPlayers, currentPlayers, deck, hands, top, placed>>
  BY <1>1 DEF lobby, table
<1>6. Opened'
  BY <1>1, <1>3, <1>5 DEF TableInv, Opened, Playing
<1>7. Seated'
  BY <1>1, <1>2, <1>5 DEF TableInv, TypeOK, Seated, Playing, Taken
<1>8. CardConservation' /\ NoEmptyHandWhileDeck'
  BY <1>1, <1>5
  DEF TableInv, CardConservation, CardsDivided, NoEmptyHandWhileDeck, Playing,
      Taken, InHands
<1>. QED
  BY <1>4, <1>6, <1>7, <1>8 DEF TableInv

\* The referee's poll and the debug route only end games.
LEMMA FinishStep == TableInv /\ (GetGameState \/ ForceWin) => TableInv'
<1>. SUFFICES ASSUME TableInv, GetGameState \/ ForceWin PROVE TableInv'
  OBVIOUS
<1>1. /\ status' = "finished" /\ won' \in BOOLEAN
      /\ stats' \in [Seats -> [games : Nat, wins : Nat]]
  BY FinishType DEF TableInv, GetGameState, ForceWin
<1>2. UNCHANGED <<lobby, turn, deck, top, placed>> /\ hands' \in Hands
  BY DEF TableInv, TypeOK, GetGameState, ForceWin, table, Hands
<1>3. TypeOK' /\ Opened'
  BY <1>1, <1>2
  DEF TableInv, TypeOK, Opened, lobby, turn, GetGameState, ForceWin
<1>. QED
  BY <1>1, <1>3, NotPlaying DEF TableInv

\* The table stays well typed and keeps every card, whatever is requested.
THEOREM TableInvariant == Spec => []TableInv
<1>1. Init => TableInv
  <2>. SUFFICES ASSUME Init PROVE TableInv
    OBVIOUS
  <2>1. hands \in Hands /\ top \in Tops
    BY DEF Init, Hands, Tops, EmptyPiles
  <2>2. stats \in [Seats -> [games : Nat, wins : Nat]]
    BY DEF Init
  <2>3. 0 \in Seats /\ 0 \in 0 .. MaxGamers /\ 0 \in 0 .. 0 /\ 0 \in Nat
    BY TableAssumption DEF Seats
  <2>4. /\ status = "none" /\ won = FALSE /\ maxPlayers = 0 /\ currentPlayers = 0
        /\ currentPlayerIndex = 0 /\ cardsPlayedThisTurn = 0
        /\ deck = {} /\ placed = {}
    BY DEF Init
  <2>5. TypeOK
    BY <2>1, <2>2, <2>3, <2>4 DEF TypeOK
  <2>. QED
    BY <2>5
    DEF Init, TableInv, Opened, Seated, CardConservation, NoEmptyHandWhileDeck,
        Playing
<1>2. TableInv /\ [Next]_vars => TableInv'
  <2>. SUFFICES ASSUME TableInv, [Next]_vars PROVE TableInv'
    OBVIOUS
  <2>1. ASSUME NEW m \in 2 .. MaxGamers, CreateGame(m) PROVE TableInv'
    <3>1. TypeOK'
      BY <2>1, TableAssumption DEF CreateGame, TableInv, TypeOK, Opened, table, turn
    <3>. QED
      BY <2>1, <3>1, NotPlaying DEF CreateGame, TableInv, Opened
  <2>2. CASE UNCHANGED vars
    BY <2>2
    DEF vars, outcome, lobby, turn, table, TableInv, TypeOK, Opened, Seated,
        CardConservation, CardsDivided, NoEmptyHandWhileDeck, Playing, Taken,
        InHands
  <2>. QED
    BY <2>1, <2>2, JoinGameStep, StartGameStep, PlayCardStep, EndTurnStep,
       FinishStep
    DEF Next
<1>. QED
  BY <1>1, <1>2, PTL DEF Spec

-----------------------------------------------------------------------------
\* The types, and the two card invariants, are parts of the invariant.
THEOREM TypeCorrect == Spec => []TypeOK
BY TableInvariant, PTL DEF TableInv

THEOREM CardsConserved == Spec => []CardConservation
BY TableInvariant, PTL DEF TableInv

THEOREM HandsKeptFull == Spec => []NoEmptyHandWhileDeck
BY TableInvariant, PTL DEF TableInv

-----------------------------------------------------------------------------
\* What finishing does to a game that is not finished.
LEMMA FinishEffect ==
    ASSUME NEW w, NEW hs, status # "finished", FinishGameAndSaveStats(w, hs)
    PROVE  /\ status' = "finished" /\ won' = w
           /\ \E saved \in SUBSET Taken :
                stats' = [i \in Seats |->
                  IF i \notin saved THEN stats[i]
                  ELSE [games |-> stats[i].games + 1,
                        wins |-> IF w /\ hs[i] = {} THEN stats[i].wins + 1
                                                    ELSE stats[i].wins]]
BY DEF FinishGameAndSaveStats

\* The ways a card played can end: the last card, a player stuck below the
\* minimum, or a game that goes on with its mover free or done.
LEMMA PlayCardEnds ==
    ASSUME TableInv, NEW i \in Seats, NEW c \in Cards, NEW p \in Piles,
           PlayCard(i, c, p)
    PROVE  \/ /\ status' = "finished" /\ won' = TRUE
              /\ IsGameWon(deck', hands', currentPlayers)
              /\ FinishGameAndSaveStats(TRUE, hands')
           \/ /\ status' = "finished" /\ won' = FALSE
              /\ Blocked' /\ hands'[currentPlayerIndex'] # {}
              /\ FinishGameAndSaveStats(FALSE, hands')
           \/ /\ UNCHANGED outcome
              /\ ~(cardsPlayedThisTurn' < MinCards(deck') /\ Blocked')
              /\ \E j \in Taken : deck' # {} \/ hands'[j] # {}
<1>. DEFINE left == [hands EXCEPT ![i] = hands[i] \ {c}]
<1>1. /\ status = "playing" /\ i = currentPlayerIndex
      /\ UNCHANGED <<currentPlayers, currentPlayerIndex>>
  BY DEF PlayCard, lobby
<1>2. i \in Taken /\ hands \in [Seats -> SUBSET Cards] /\ Taken \subseteq Seats
  BY <1>1, TableAssumption DEF TableInv, TypeOK, Seated, Playing, Taken, Seats
<1>3. CASE IsGameWon(deck, left, currentPlayers)
  <2>1. hands' = left /\ deck' = deck /\ FinishGameAndSaveStats(TRUE, left)
    BY <1>3 DEF PlayCard
  <2>. QED
    BY <1>1, <1>3, <2>1, FinishEffect
<1>4. CASE ~IsGameWon(deck, left, currentPlayers)
  <2>1. PICK drawn \in SUBSET deck :
          /\ hands' = [hands EXCEPT ![i] = (hands[i] \ {c}) \cup drawn]
          /\ deck' = deck \ drawn
    BY PlayCardTable
  <2>2. \E j \in Taken : deck' # {} \/ hands'[j] # {}
    BY <1>2, <1>4, <2>1 DEF IsGameWon, Taken
  <2>3. IF /\ cardsPlayedThisTurn' < MinCards(deck')
           /\ IsGameLost(top', hands', currentPlayers, i)
        THEN FinishGameAndSaveStats(FALSE, hands')
        ELSE UNCHANGED outcome
    BY <1>4 DEF PlayCard
  <2>4. Blocked' = IsGameLost(top', hands', currentPlayers, i)
    BY <1>1 DEF Blocked
  <2>5. CASE cardsPlayedThisTurn' < MinCards(deck') /\ Blocked'
    <3>1. FinishGameAndSaveStats(FALSE, hands')
      BY <2>3, <2>4, <2>5
    <3>2. hands'[i] # {}
      BY <1>2, <2>4, <2>5 DEF IsGameLost, Taken
    <3>. QED
      BY <1>1, <2>5, <3>1, <3>2, FinishEffect
  <2>6. CASE ~(cardsPlayedThisTurn' < MinCards(deck') /\ Blocked')
    BY <2>2, <2>3, <2>4, <2>6
  <2>. QED
    BY <2>5, <2>6
<1>. QED
  BY <1>3, <1>4

\* The ways a turn handed on can end: the next player is stuck, or plays.
LEMMA EndTurnEnds ==
    ASSUME TableInv, NEW i \in Seats, EndTurn(i)
    PROVE  \/ /\ status' = "finished" /\ won' = FALSE
              /\ Blocked' /\ hands'[currentPlayerIndex'] # {}
              /\ FinishGameAndSaveStats(FALSE, hands)
           \/ UNCHANGED outcome /\ ~Blocked'
<1>1. /\ status = "playing"
      /\ UNCHANGED <<currentPlayers, top, hands>>
      /\ currentPlayerIndex' = (currentPlayerIndex + 1) % currentPlayers
  BY DEF EndTurn, lobby, table
<1>2. currentPlayerIndex' \in 0 .. (currentPlayers - 1)
  BY <1>1, NextSeat DEF TableInv, TypeOK, Seated, Seats, Playing
<1>3. Blocked' = IsGameLost(top, hands, currentPlayers, currentPlayerIndex')
  BY <1>1 DEF Blocked
<1>4. CASE Blocked'
  <2>1. FinishGameAndSaveStats(FALSE, hands)
    BY <1>3, <1>4 DEF EndTurn
  <2>2. hands'[currentPlayerIndex'] # {}
    BY <1>1, <1>2, <1>3, <1>4 DEF IsGameLost
  <2>. QED
    BY <1>1, <1>4, <2>1, <2>2, FinishEffect
<1>5. CASE ~Blocked'
  BY <1>3, <1>5 DEF EndTurn
<1>. QED
  BY <1>4, <1>5

\* A game just dealt goes on and its first player is free to move.
LEMMA DealtFree ==
    ASSUME TableInv, JoinGame \/ StartGame, status' # "waiting"
    PROVE  /\ status' = "playing" /\ UNCHANGED <<won, stats>> /\ ~Blocked'
           /\ placed' = {} /\ currentPlayerIndex' = 0
<1>1. CASE JoinGame
  <2>1. /\ currentPlayers' = maxPlayers /\ status' = "playing"
        /\ Deal(currentPlayers') /\ currentPlayerIndex' = 0
        /\ UNCHANGED <<won, stats>>
    BY <1>1 DEF JoinGame
  <2>2. currentPlayers' \in 2 .. MaxGamers
    BY <1>1, <2>1, TableAssumption DEF TableInv, TypeOK, Opened, JoinGame
  <2>3. ~IsGameLost(top', hands', currentPlayers', 0) /\ placed' = {}
    BY <2>1, <2>2, DealStep DEF TableInv, Deal
  <2>. QED
    BY <2>1, <2>3 DEF Blocked
<1>2. CASE StartGame
  <2>1. /\ currentPlayers' = currentPlayers /\ currentPlayerIndex' = 0
        /\ currentPlayers' \in 2 .. MaxGamers
    BY <1>2, TableAssumption DEF TableInv, TypeOK, StartGame, lobby
  <2>2. Deal(currentPlayers')
    BY <1>2, <2>1 DEF StartGame, Deal
  <2>3. ~IsGameLost(top', hands', currentPlayers', 0) /\ placed' = {}
    BY <2>1, <2>2, DealStep DEF TableInv, Deal
  <2>4. status' = "playing" /\ UNCHANGED <<won, stats>>
    BY <1>2, <2>1, <2>3 DEF StartGame
  <2>. QED
    BY <2>1, <2>3, <2>4 DEF Blocked
<1>. QED
  BY <1>1, <1>2

-----------------------------------------------------------------------------
\* No step of the game leaves a player blocked who still owes cards.
LEMMA RefereeStep ==
    TableInv /\ BlockedBeforeMinimumIsOver /\ [Next]_vars
        => BlockedBeforeMinimumIsOver'
<1>. SUFFICES ASSUME TableInv, BlockedBeforeMinimumIsOver, [Next]_vars, Playing'
              PROVE  Blocked' => cardsPlayedThisTurn' >= MinCards(deck')
  BY DEF BlockedBeforeMinimumIsOver
<1>1. CASE JoinGame \/ StartGame
  BY <1>1, DealtFree DEF Playing
<1>2. ASSUME NEW i \in Seats, NEW c \in Cards, NEW p \in Piles, PlayCard(i, c, p)
      PROVE  Blocked' => cardsPlayedThisTurn' >= MinCards(deck')
  <2>1. ~(cardsPlayedThisTurn' < MinCards(deck') /\ Blocked')
    BY <1>2, PlayCardEnds DEF Playing
  <2>2. cardsPlayedThisTurn' \in Nat /\ MinCards(deck') \in Nat
    BY <1>2 DEF PlayCard, TableInv, TypeOK, MinCards
  <2>. QED
    BY <2>1, <2>2
<1>3. ASSUME NEW i \in Seats, EndTurn(i)
      PROVE  ~Blocked'
  BY <1>3, EndTurnEnds DEF Playing
<1>4. CASE UNCHANGED vars
  BY <1>4
  DEF vars, outcome, lobby, turn, table, BlockedBeforeMinimumIsOver, Playing,
      Blocked, MinCards
<1>5. ASSUME NEW m, CreateGame(m) PROVE FALSE
  BY <1>5 DEF CreateGame, Playing
<1>6. CASE GetGameState \/ ForceWin
  BY <1>6, FinishEffect DEF GetGameState, ForceWin, Playing
<1>. QED
  BY <1>1, <1>2, <1>3, <1>4, <1>5, <1>6 DEF Next

\* The referee is complete: a player with no move who still owes cards never
\* waits for the poll, the game is over before the lock is released.
THEOREM RefereeComplete == Spec => []BlockedBeforeMinimumIsOver
<1>1. Init => BlockedBeforeMinimumIsOver
  BY DEF Init, BlockedBeforeMinimumIsOver, Playing
<1>. QED
  BY <1>1, RefereeStep, TableInvariant, PTL DEF Spec

\* Someone can always act, or the player whose turn it is is drained.
THEOREM PlayNeverWaitsForNobody == Spec => []SomeoneCanAct
<1>1. TableInv /\ BlockedBeforeMinimumIsOver => SomeoneCanAct
  <2>. SUFFICES ASSUME TableInv, BlockedBeforeMinimumIsOver, Playing
                PROVE  \/ HasMove(top, hands[currentPlayerIndex])
                       \/ cardsPlayedThisTurn >= MinCards(deck)
                       \/ Drained
    BY DEF SomeoneCanAct
  <2>1. CASE hands[currentPlayerIndex] # {}
    BY <2>1 DEF BlockedBeforeMinimumIsOver, Blocked, IsGameLost
  <2>2. CASE hands[currentPlayerIndex] = {}
    <3>1. currentPlayerIndex \in Taken
      BY DEF TableInv, TypeOK, Seated, Taken, Seats
    <3>2. deck = {}
      BY <2>2, <3>1 DEF TableInv, NoEmptyHandWhileDeck
    <3>3. cardsPlayedThisTurn = 0 \/ cardsPlayedThisTurn >= MinCards(deck)
      BY <3>2 DEF TableInv, TypeOK, MinCards
    <3>. QED
      BY <2>2, <3>2, <3>3 DEF Drained
  <2>. QED
    BY <2>1, <2>2
<1>. QED
  BY <1>1, TableInvariant, RefereeComplete, PTL

-----------------------------------------------------------------------------
\* What is known of an unfinished game's outcome, and of a lost one's table.
OutcomeInv ==
    /\ status # "finished" => ~won
    /\ LossMeansBlocked
    /\ OneLedgerEntry
    /\ LedgerMatchesOutcome

\* Finishing writes every seat at most once, a win only for an empty hand, and
\* in a won game all hands are empty.
LEMMA FinishLedger ==
    ASSUME TypeOK, OutcomeInv, status # "finished", NEW w \in BOOLEAN, NEW hs,
           FinishGameAndSaveStats(w, hs),
           w => \A i \in Taken : hs[i] = {}
    PROVE  OneLedgerEntry' /\ LedgerMatchesOutcome'
<1>1. \A i \in Seats : stats[i] = [games |-> 0, wins |-> 0]
  <2>1. \A i \in Seats : /\ stats[i] \in [games : Nat, wins : Nat]
                         /\ stats[i].games <= 0 /\ stats[i].wins = 0
    BY DEF OutcomeInv, OneLedgerEntry, LedgerMatchesOutcome, TypeOK
  <2>. QED
    BY <2>1
<1>2. PICK saved \in SUBSET Taken :
        stats' = [i \in Seats |->
                  IF i \notin saved THEN stats[i]
                  ELSE [games |-> stats[i].games + 1,
                        wins |-> IF w /\ hs[i] = {} THEN stats[i].wins + 1
                                                    ELSE stats[i].wins]]
  BY DEF FinishGameAndSaveStats
<1>3. \A i \in Seats : stats'[i].games \in {0, 1}
  BY <1>1, <1>2
<1>4. ASSUME w, NEW i \in Seats PROVE stats'[i].wins = stats'[i].games
  <2>1. CASE i \in saved
    <3>1. hs[i] = {}
      BY <1>4, <2>1
    <3>. QED
      BY <1>1, <1>2, <1>4, <2>1, <3>1
  <2>2. CASE i \notin saved
    BY <1>1, <1>2, <2>2
  <2>. QED
    BY <2>1, <2>2
<1>5. ASSUME ~w, NEW i \in Seats PROVE stats'[i].wins = 0
  BY <1>1, <1>2, <1>5
<1>6. status' = "finished" /\ won' = w
  BY FinishEffect
<1>7. OneLedgerEntry'
  BY <1>3, <1>6 DEF OneLedgerEntry
<1>8. LedgerMatchesOutcome'
  BY <1>4, <1>5, <1>6 DEF LedgerMatchesOutcome
<1>. QED
  BY <1>7, <1>8

\* A step that leaves the outcome alone in a game that is not over leaves the
\* outcome's invariant alone.
LEMMA OutcomeKept ==
    ASSUME OutcomeInv, status # "finished", status' # "finished",
           UNCHANGED <<won, stats>>
    PROVE  OutcomeInv'
BY DEF OutcomeInv, LossMeansBlocked, OneLedgerEntry, LedgerMatchesOutcome

\* Every step keeps the outcome's invariant.
LEMMA OutcomeStep == TableInv /\ OutcomeInv /\ [Next]_vars => OutcomeInv'
<1>. SUFFICES ASSUME TableInv, OutcomeInv, [Next]_vars PROVE OutcomeInv'
  OBVIOUS
<1>0. TypeOK
  BY DEF TableInv
<1>1. ASSUME NEW m, CreateGame(m) PROVE OutcomeInv'
  BY <1>1, OutcomeKept DEF CreateGame
<1>2. CASE JoinGame \/ StartGame
  <2>1. status' # "waiting" => status' = "playing" /\ UNCHANGED <<won, stats>>
    BY <1>2, DealtFree
  <2>2. status' = "waiting" => UNCHANGED <<won, stats>>
    BY <1>2, <2>1, FinishEffect DEF JoinGame, StartGame
  <2>3. status = "waiting"
    BY <1>2 DEF JoinGame, StartGame
  <2>. QED
    BY <2>1, <2>2, <2>3, OutcomeKept
<1>3. ASSUME NEW i \in Seats, NEW c \in Cards, NEW p \in Piles, PlayCard(i, c, p)
      PROVE  OutcomeInv'
  <2>1. status = "playing" /\ currentPlayers' = currentPlayers
    BY <1>3 DEF PlayCard, lobby
  <2>2. CASE /\ status' = "finished" /\ won' = TRUE
             /\ IsGameWon(deck', hands', currentPlayers)
             /\ FinishGameAndSaveStats(TRUE, hands')
    <3>1. \A j \in Taken : hands'[j] = {}
      BY <2>2 DEF IsGameWon, Taken
    <3>2. OneLedgerEntry' /\ LedgerMatchesOutcome'
      BY <1>0, <2>1, <2>2, <3>1, FinishLedger
    <3>. QED
      BY <2>2, <3>2 DEF OutcomeInv, LossMeansBlocked
  <2>3. CASE /\ status' = "finished" /\ won' = FALSE
             /\ Blocked' /\ hands'[currentPlayerIndex'] # {}
             /\ FinishGameAndSaveStats(FALSE, hands')
    <3>1. OneLedgerEntry' /\ LedgerMatchesOutcome'
      BY <1>0, <2>1, <2>3, FinishLedger
    <3>. QED
      BY <2>3, <3>1 DEF OutcomeInv, LossMeansBlocked
  <2>4. CASE UNCHANGED outcome
    BY <2>1, <2>4, OutcomeKept DEF outcome
  <2>. QED
    BY <1>3, <2>2, <2>3, <2>4, PlayCardEnds
<1>4. ASSUME NEW i \in Seats, EndTurn(i) PROVE OutcomeInv'
  <2>1. status = "playing"
    BY <1>4 DEF EndTurn
  <2>2. CASE /\ status' = "finished" /\ won' = FALSE
             /\ Blocked' /\ hands'[currentPlayerIndex'] # {}
             /\ FinishGameAndSaveStats(FALSE, hands)
    <3>1. OneLedgerEntry' /\ LedgerMatchesOutcome'
      BY <1>0, <2>1, <2>2, FinishLedger
    <3>. QED
      BY <2>2, <3>1 DEF OutcomeInv, LossMeansBlocked
  <2>3. CASE UNCHANGED outcome
    BY <2>1, <2>3, OutcomeKept DEF outcome
  <2>. QED
    BY <1>4, <2>2, <2>3, EndTurnEnds
<1>5. CASE GetGameState
  <2>1. /\ status = "playing" /\ FinishGameAndSaveStats(FALSE, hands)
        /\ Blocked /\ UNCHANGED <<currentPlayers, currentPlayerIndex, hands, top>>
    BY <1>5 DEF GetGameState, Blocked, lobby, turn, table
  <2>2. currentPlayerIndex \in 0 .. (currentPlayers - 1)
    BY <2>1 DEF TableInv, TypeOK, Seated, Seats, Playing
  <2>3. hands[currentPlayerIndex] # {} /\ Blocked'
    BY <2>1, <2>2 DEF Blocked, IsGameLost
  <2>4. OneLedgerEntry' /\ LedgerMatchesOutcome'
    BY <1>0, <2>1, FinishLedger
  <2>. QED
    BY <2>1, <2>3, <2>4, FinishEffect DEF OutcomeInv, LossMeansBlocked
<1>6. CASE ForceWin
  <2>1. /\ status # "finished" /\ FinishGameAndSaveStats(TRUE, hands')
        /\ hands' = [i \in Seats |-> IF i \in Taken THEN {} ELSE hands[i]]
    BY <1>6 DEF ForceWin
  <2>2. \A i \in Taken : hands'[i] = {}
    BY <2>1, TableAssumption DEF TableInv, TypeOK, Taken, Seats
  <2>3. OneLedgerEntry' /\ LedgerMatchesOutcome'
    BY <1>0, <2>1, <2>2, FinishLedger
  <2>4. status' = "finished" /\ won' = TRUE
    BY <2>1, FinishEffect
  <2>. QED
    BY <2>3, <2>4 DEF OutcomeInv, LossMeansBlocked
<1>7. CASE UNCHANGED vars
  BY <1>7
  DEF vars, outcome, lobby, turn, table, OutcomeInv, LossMeansBlocked, Blocked,
      OneLedgerEntry, LedgerMatchesOutcome
<1>. QED
  BY <1>1, <1>2, <1>3, <1>4, <1>5, <1>6, <1>7 DEF Next

\* The outcome's invariant holds of every game.
THEOREM OutcomeInvariant == Spec => []OutcomeInv
<1>1. Init => OutcomeInv
  BY DEF Init, OutcomeInv, LossMeansBlocked, OneLedgerEntry, LedgerMatchesOutcome
<1>. QED
  BY <1>1, OutcomeStep, TableInvariant, PTL DEF Spec

\* A defeat is only announced to a team whose current player holds cards and
\* has no move.
THEOREM LossesAreReal == Spec => []LossMeansBlocked
BY OutcomeInvariant, PTL DEF OutcomeInv

\* No user's totals move twice for one game.
THEOREM LedgerOnce == Spec => []OneLedgerEntry
BY OutcomeInvariant, PTL DEF OutcomeInv

\* The win totals move exactly for the seats of a won game.
THEOREM LedgerTruthful == Spec => []LedgerMatchesOutcome
BY OutcomeInvariant, PTL DEF OutcomeInv
=============================================================================
