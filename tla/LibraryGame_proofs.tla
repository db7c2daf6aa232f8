------------------------- MODULE LibraryGame_proofs -------------------------
(***************************************************************************)
(* Proofs about LibraryGame: no card is lost but by refusal, a refused     *)
(* card is owed for good, and only games of one player are won, for every  *)
(* deck, hand size and number of players.                                  *)
(***************************************************************************)
EXTENDS LibraryGame, FiniteSetTheorems, TLAPS

HandsFit == \A p \in DOMAIN hands : Cardinality(hands[p]) <= MaxHandSize

\* Before the start nothing has been dealt; afterwards the second player, who
\* never plays, holds what it was dealt.
Untouched ==
    status = "setup" => /\ deck = Cards /\ placed = {} /\ refused = {}
                        /\ \A p \in DOMAIN hands : hands[p] = {}

SecondHolds == status # "setup" /\ 1 \in DOMAIN hands => hands[1] # {}

WonIsWon == status = "won" => 0 \in DOMAIN hands /\ CheckWinCondition(deck, hands)

LibraryInv ==
    /\ TypeOK
    /\ CardsAccounted
    /\ HandsFit
    /\ Untouched
    /\ SecondHolds
    /\ WonIsWon
    /\ HandOwesRefused

LEMMA CardsFinite ==
    /\ IsFiniteSet(Cards)
    /\ Cardinality(Cards) = High - Low - 1
    /\ \A S \in SUBSET Cards : IsFiniteSet(S) /\ Cardinality(S) \in Nat
  <1>1. Low + 1 \in Int /\ High - 1 \in Int /\ MaxHandSize \in Nat
    BY LibraryAssumption
  <1>2. /\ IsFiniteSet(Cards)
        /\ Cardinality(Cards) = IF Low + 1 > High - 1 THEN 0 ELSE (High - 1) - (Low + 1) + 1
    BY <1>1, FS_Interval DEF Cards
  <1>3. Cardinality(Cards) = High - Low - 1
    BY <1>2, LibraryAssumption
  <1>4. \A S \in SUBSET Cards : IsFiniteSet(S)
    BY <1>2, FS_Subset
  <1> QED
    BY <1>2, <1>3, <1>4, FS_CardinalityType

LEMMA CountIsNumber ==
    ASSUME TypeOK
    PROVE  Count \in Nat /\ DOMAIN hands = Players(Count)
  <1>1. PICK n \in 0 .. MaxPlayers : hands \in [Players(n) -> SUBSET Cards]
    BY DEF TypeOK
  <1>2. n \in Nat
    BY <1>1, LibraryAssumption
  <1>3. Cardinality(0 .. (n - 1)) = n
    BY <1>2, FS_Interval
  <1> QED
    BY <1>1, <1>2, <1>3 DEF Count, Players

LEMMA InitInv == Init => LibraryInv
  <1> SUFFICES ASSUME Init
               PROVE  LibraryInv
    OBVIOUS
  <1>1. hands \in [Players(0) -> SUBSET Cards] /\ DOMAIN hands = {}
    BY DEF Init, Players
  <1>2. TypeOK
    BY <1>1, LibraryAssumption DEF Init, TypeOK, NewDeck, Cards
  <1>3. CardsAccounted
    BY <1>1 DEF Init, CardsAccounted, InHands, NewDeck, Cards
  <1> QED
    BY <1>1, <1>2, <1>3
    DEF Init, LibraryInv, HandsFit, Untouched, SecondHolds, WonIsWon, HandOwesRefused,
        NewDeck, Cards

LEMMA AddPlayerInv == LibraryInv /\ AddPlayer => LibraryInv'
  <1> SUFFICES ASSUME LibraryInv, AddPlayer
               PROVE  LibraryInv'
    OBVIOUS
  <1> USE DEF LibraryInv
  <1>1. Count \in Nat /\ Count + 1 \in 0 .. MaxPlayers
    BY CountIsNumber, LibraryAssumption DEF AddPlayer
  <1>2. hands' \in [Players(Count + 1) -> SUBSET Cards] /\ \A p \in DOMAIN hands' : hands'[p] = {}
    BY DEF AddPlayer
  <1>3. TypeOK'
    BY <1>1, <1>2 DEF AddPlayer, TypeOK
  <1>4. InHands' = {}
    BY <1>2 DEF InHands
  <1>5. CardsAccounted'
    BY <1>2, <1>4 DEF AddPlayer, CardsAccounted, Untouched
  <1>6. HandsFit'
    <2>1. Cardinality({}) = 0 /\ 0 <= MaxHandSize
      BY FS_EmptySet, LibraryAssumption
    <2> QED
      BY <1>2, <2>1 DEF HandsFit
  <1> QED
    BY <1>2, <1>3, <1>5, <1>6
    DEF AddPlayer, Untouched, SecondHolds, WonIsWon, HandOwesRefused

LEMMA StartGameInv == LibraryInv /\ StartGame => LibraryInv'
  <1> SUFFICES ASSUME LibraryInv, StartGame
               PROVE  LibraryInv'
    OBVIOUS
  <1> USE DEF LibraryInv
  <1>1. deck = Cards /\ placed = {} /\ refused = {}
    BY DEF StartGame, Untouched
  <1>2. DOMAIN hands' = DOMAIN hands /\ hands' \in [DOMAIN hands -> SUBSET Cards]
    BY <1>1 DEF StartGame, Dealable
  <1>3. HandsFit'
    BY <1>2 DEF StartGame, Dealable, HandsFit
  <1>4. TypeOK'
    BY <1>1, <1>2 DEF StartGame, TypeOK
  <1>5. CardsAccounted'
    <2>1. deck' = Cards \ InHands'
      BY <1>1, <1>2 DEF StartGame, InHands
    <2>2. InHands' \subseteq Cards
      BY <1>2 DEF InHands
    <2> QED
      BY <1>1, <1>2, <2>1, <2>2 DEF StartGame, CardsAccounted, InHands
  <1>6. /\ Cardinality(deck) = High - Low - 1
        /\ \A p \in DOMAIN hands : Cardinality(hands'[p]) = DealtTo(p)
    BY <1>1, CardsFinite DEF StartGame
  <1>7. 1 \in DOMAIN hands => hands'[1] # {}
    <2>1. DealtTo(1) > 0
      BY <1>6, LibraryAssumption DEF DealtTo
    <2> QED
      BY <1>6, <2>1, FS_EmptySet
  <1>8. 0 \in DOMAIN hands => Cardinality(hands'[0]) = MaxHandSize
    <2>1. DealtTo(0) = MaxHandSize
      BY <1>6, LibraryAssumption DEF DealtTo
    <2> QED
      BY <1>6, <2>1
  <1>9. HandOwesRefused'
    BY <1>1, <1>2, <1>8, FS_EmptySet, LibraryAssumption DEF StartGame, HandOwesRefused
  <1> QED
    BY <1>2, <1>3, <1>4, <1>5, <1>7, <1>9 DEF StartGame, Untouched, SecondHolds, WonIsWon

\* The card that is placed is replaced by one from the deck, if there is one.
LEMMA PlacedInv ==
    ASSUME LibraryInv, status = "playing", 0 \in DOMAIN hands,
           NEW c \in hands[0], NEW i \in Piles, CanPlaceCard(c, i),
           NEW drawn \in Draws(hands[0] \ {c}),
           deck' = drawn.deck, hands' = [hands EXCEPT ![0] = drawn.hand],
           top' = [top EXCEPT ![i] = c], placed' = placed \cup {c}, refused' = refused,
           status' = IF CheckWinCondition(deck', hands') THEN "won" ELSE "playing"
    PROVE  LibraryInv'
  <1> USE DEF LibraryInv
  <1> DEFINE rest == hands[0] \ {c}
  <1>1. /\ hands \in [DOMAIN hands -> SUBSET Cards] /\ hands[0] \subseteq Cards
        /\ c \in Cards /\ deck \subseteq Cards /\ refused \subseteq Cards
    BY DEF TypeOK
  <1>2. /\ IsFiniteSet(hands[0]) /\ Cardinality(hands[0]) \in Nat
        /\ IsFiniteSet(rest) /\ Cardinality(rest) \in Nat
        /\ Cardinality(rest) = Cardinality(hands[0]) - 1
        /\ Cardinality(hands[0]) <= MaxHandSize
        /\ MaxHandSize \in Nat
    BY <1>1, CardsFinite, FS_RemoveElement, LibraryAssumption DEF HandsFit
  <1>3. \/ deck = {} /\ deck' = {} /\ hands'[0] = rest
        \/ \E d \in deck : deck' = deck \ {d} /\ hands'[0] = rest \cup {d}
    <2>1. CASE deck = {}
      BY <2>1 DEF Draws
    <2>2. CASE deck # {}
      <3>1. PICK d \in deck : drawn = [deck |-> deck \ {d}, hand |-> AddCard(rest, d)]
        BY <2>2 DEF Draws
      <3>2. AddCard(rest, d) = rest \cup {d}
        BY <1>2 DEF AddCard
      <3> QED
        BY <3>1, <3>2
    <2> QED
      BY <2>1, <2>2
  <1>4. DOMAIN hands' = DOMAIN hands /\ \A p \in DOMAIN hands : p # 0 => hands'[p] = hands[p]
    OBVIOUS
  <1>5. /\ hands'[0] \subseteq Cards /\ deck' \subseteq Cards
        /\ Cardinality(hands'[0]) <= MaxHandSize
        /\ deck # {} => Cardinality(hands'[0]) = Cardinality(hands[0])
    <2>1. hands'[0] \subseteq Cards /\ deck' \subseteq Cards
      BY <1>1, <1>3
    <2>2. CASE deck = {} /\ hands'[0] = rest /\ deck' = {}
      <3>1. Cardinality(hands'[0]) = Cardinality(rest)
        BY <2>2
      <3> QED
        BY <1>2, <2>1, <2>2, <3>1
    <2>3. CASE \E d \in deck : deck' = deck \ {d} /\ hands'[0] = rest \cup {d}
      <3>1. PICK d \in deck : deck' = deck \ {d} /\ hands'[0] = rest \cup {d}
        BY <2>3
      <3>2. d \notin rest
        BY <3>1 DEF CardsAccounted
      <3>3. Cardinality(hands'[0]) = Cardinality(rest) + 1
        BY <1>2, <3>1, <3>2, FS_AddElement
      <3> HIDE DEF rest
      <3> QED
        BY <1>2, <2>1, <3>3
    <2> QED
      BY <1>3, <2>2, <2>3
  <1>6. TypeOK'
    <2>1. hands' \in [DOMAIN hands -> SUBSET Cards]
      BY <1>1, <1>5
    <2> QED
      BY <1>1, <1>5, <2>1 DEF TypeOK
  <1>7. CardsAccounted'
    <2>1. CASE deck = {} /\ deck' = {} /\ hands'[0] = rest
      <3>1. InHands' = InHands \ {c}
        BY <1>4, <2>1 DEF CardsAccounted, InHands
      <3> QED
        BY <1>1, <1>4, <2>1, <3>1 DEF CardsAccounted, InHands
    <2>2. ASSUME NEW d \in deck, deck' = deck \ {d}, hands'[0] = rest \cup {d}
          PROVE  CardsAccounted'
      <3>1. InHands' = (InHands \ {c}) \cup {d}
        BY <1>4, <2>2 DEF CardsAccounted, InHands
      <3> QED
        BY <1>1, <1>4, <2>2, <3>1 DEF CardsAccounted, InHands
    <2> QED
      BY <1>3, <2>1, <2>2
  <1>8. HandsFit'
    BY <1>4, <1>5 DEF HandsFit
  <1>9. HandOwesRefused'
    BY <1>3, <1>4, <1>5 DEF HandOwesRefused
  <1> QED
    BY <1>4, <1>6, <1>7, <1>8, <1>9 DEF Untouched, SecondHolds, WonIsWon

\* The card that is refused is gone, and nothing is drawn.
LEMMA RefusedInv ==
    ASSUME LibraryInv, status = "playing", 0 \in DOMAIN hands,
           NEW c \in hands[0],
           hands' = [hands EXCEPT ![0] = @ \ {c}], refused' = refused \cup {c},
           UNCHANGED <<deck, top, placed>>,
           status' = IF CheckWinCondition(deck', hands') THEN "won" ELSE "playing"
    PROVE  LibraryInv'
  <1> USE DEF LibraryInv
  <1>1. /\ hands \in [DOMAIN hands -> SUBSET Cards] /\ hands[0] \subseteq Cards
        /\ c \in Cards /\ refused \subseteq Cards /\ c \notin refused
    BY DEF TypeOK, CardsAccounted
  <1>2. /\ Cardinality(hands[0] \ {c}) = Cardinality(hands[0]) - 1
        /\ Cardinality(refused \cup {c}) = Cardinality(refused) + 1
        /\ Cardinality(hands[0]) \in Nat /\ Cardinality(refused) \in Nat
        /\ Cardinality(hands[0]) <= MaxHandSize /\ MaxHandSize \in Nat
    BY <1>1, CardsFinite, FS_RemoveElement, FS_AddElement, LibraryAssumption DEF HandsFit
  <1>3. /\ DOMAIN hands' = DOMAIN hands /\ hands'[0] = hands[0] \ {c}
        /\ \A p \in DOMAIN hands : p # 0 => hands'[p] = hands[p]
    OBVIOUS
  <1>4. TypeOK'
    <2>1. hands' \in [DOMAIN hands -> SUBSET Cards]
      BY <1>1
    <2> QED
      BY <1>1, <2>1 DEF TypeOK
  <1>5. CardsAccounted'
    <2>1. InHands' = InHands \ {c}
      BY <1>3 DEF CardsAccounted, InHands
    <2> QED
      BY <1>1, <1>3, <2>1 DEF CardsAccounted, InHands
  <1>6. HandsFit'
    BY <1>2, <1>3 DEF HandsFit
  <1>7. HandOwesRefused'
    BY <1>2, <1>3 DEF HandOwesRefused
  <1> QED
    BY <1>3, <1>4, <1>5, <1>6, <1>7 DEF Untouched, SecondHolds, WonIsWon

LEMMA PlayInv == LibraryInv /\ Play => LibraryInv'
  <1> SUFFICES ASSUME LibraryInv, Play
               PROVE  LibraryInv'
    OBVIOUS
  <1>1. PICK c \in hands[0], i \in Piles : PlayCard(0, c, i)
    BY DEF Play
  <1>2. CASE CanPlaceCard(c, i)
    BY <1>1, <1>2, PlacedInv DEF Play, PlayCard
  <1>3. CASE ~CanPlaceCard(c, i)
    BY <1>1, <1>3, RefusedInv DEF Play, PlayCard
  <1> QED
    BY <1>2, <1>3

LEMMA StepInv == LibraryInv /\ [Next]_vars => LibraryInv'
  <1> SUFFICES ASSUME LibraryInv, [Next]_vars
               PROVE  LibraryInv'
    OBVIOUS
  <1>1. CASE AddPlayer
    BY <1>1, AddPlayerInv
  <1>2. CASE StartGame
    BY <1>2, StartGameInv
  <1>3. CASE Play
    BY <1>3, PlayInv
  <1>4. CASE Exit
    BY <1>4 DEF Exit, LibraryInv, TypeOK, CardsAccounted, InHands, HandsFit, Untouched,
                SecondHolds, WonIsWon, HandOwesRefused, CheckWinCondition
  <1>5. CASE UNCHANGED vars
    BY <1>5 DEF vars, LibraryInv, TypeOK, CardsAccounted, InHands, HandsFit, Untouched,
                SecondHolds, WonIsWon, HandOwesRefused, CheckWinCondition
  <1> QED
    BY <1>1, <1>2, <1>3, <1>4, <1>5 DEF Next

\* The inductive invariant of a game of the library: what TypeOK, CardsAccounted
\* and HandOwesRefused need of each other, and the second hand nobody plays.
THEOREM LibraryInvariant == Spec => []LibraryInv
  BY InitInv, StepInv, PTL DEF Spec

\* Every state of the library's game has the declared types.
THEOREM LibraryTyped == Spec => []TypeOK
  <1>1. LibraryInv => TypeOK
    BY DEF LibraryInv
  <1> QED
    BY <1>1, LibraryInvariant, PTL

\* playCard and startGame lose no card but the refused ones, and the limit of
\* addCard never drops a card.
THEOREM LibraryConserves == Spec => []CardsAccounted
  <1>1. LibraryInv => CardsAccounted
    BY DEF LibraryInv
  <1> QED
    BY <1>1, LibraryInvariant, PTL

\* The hand of the player who plays is short of exactly the refused cards, as
\* long as there is a deck.
THEOREM RefusalsAreOwed == Spec => []HandOwesRefused
  <1>1. LibraryInv => HandOwesRefused
    BY DEF LibraryInv
  <1> QED
    BY <1>1, LibraryInvariant, PTL

\* Only a game of one player is ever won.
OnlySoloIsWon == status = "won" => Count = 1

\* checkWinCondition is never true of a game of several players: only the first
\* plays, and the second was dealt cards.
THEOREM OnlySoloWins == Spec => []OnlySoloIsWon
  <1>1. LibraryInv => OnlySoloIsWon
    <2> SUFFICES ASSUME LibraryInv, status = "won"
                 PROVE  Count = 1
      BY DEF OnlySoloIsWon
    <2>1. Count \in Nat /\ DOMAIN hands = 0 .. (Count - 1)
      BY CountIsNumber DEF LibraryInv, Players
    <2>2. 1 \notin DOMAIN hands
      BY DEF LibraryInv, SecondHolds, WonIsWon, CheckWinCondition
    <2>3. 0 \in DOMAIN hands
      BY DEF LibraryInv, WonIsWon
    <2> QED
      BY <2>1, <2>2, <2>3
  <1> QED
    BY <1>1, LibraryInvariant, PTL
=============================================================================
