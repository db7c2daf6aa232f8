----------------------------- MODULE GameTable -----------------------------
(***************************************************************************)
(* The card table of the game server (Server/Server/GameTable.cpp with     *)
(* Player.cpp and Card.cpp) as pure operators over the table's data:       *)
(*   top    the card on top of each pile, NoCard for an empty pile         *)
(*   deck   the set of cards still in the draw pile                        *)
(*   hands  for every seat, the set of cards it holds                      *)
(* Card values are unique, so a hand or the deck is a set.  The deck is    *)
(* shuffled before it is dealt and popped from its end: drawing an         *)
(* arbitrary card of the set is the same as popping an arbitrary order.    *)
(***************************************************************************)
EXTENDS Integers, FiniteSets

CONSTANTS
    Low,        \* value of the two ascending foundations (1 in the code)
    High,       \* value of the two descending foundations (100)
    Trick,      \* distance of the backwards trick (10)
    MaxGamers,  \* seats of a table (5)
    Hand2,      \* hand size with two players (8)
    Hand3,      \* hand size with three players (7)
    Hand4       \* hand size with four or more players (6)

Cards == (Low + 1) .. (High - 1)
Seats == 0 .. (MaxGamers - 1)
Piles == 1 .. 4
Ascending == {1, 2}

\* Card(-1), pushed by Player's constructor, and Card(0) of an empty vector.
Placeholder == -1
NoCard == 0

\* A hand holds at least two cards: the first card dealt takes the place of
\* the placeholder, which counts as one card of the hand until then.
ASSUME TableAssumption ==
    /\ Low \in Nat \ {0}
    /\ High \in Nat
    /\ Trick \in Nat \ {0}
    /\ MaxGamers \in Nat \ {0, 1}
    /\ Hand2 \in Nat \ {0, 1}
    /\ Hand3 \in Nat \ {0, 1}
    /\ Hand4 \in Nat \ {0, 1}

\* The size IssuerCard deals for a number of players, and the size PlayCard
\* refills to for a number of seats: the two tables agree on 2, 3 and more.
HandSize(n) == IF n = 2 THEN Hand2 ELSE IF n = 3 THEN Hand3 ELSE Hand4

\* Every table the server can open deals full hands without emptying the deck.
ASSUME DealAssumption ==
    \A n \in 2 .. MaxGamers : n * HandSize(n) < High - Low - 1

Tops == [Piles -> {NoCard} \cup (Low .. High)]
Hands == [Seats -> SUBSET (Cards \cup {Placeholder})]

EmptyPiles == [p \in Piles |-> NoCard]

\* AddInitialCards: the four foundations.
Foundations == [p \in Piles |-> IF p \in Ascending THEN Low ELSE High]

\* IsValidMove: an empty pile accepts nothing.
IsValidMove(top, c, p) ==
    /\ p \in Piles
    /\ top[p] # NoCard
    /\ IF p \in Ascending
       THEN c > top[p] \/ c = top[p] - Trick
       ELSE c < top[p] \/ c = top[p] + Trick

HasMove(top, hand) == \E c \in hand, p \in Piles : IsValidMove(top, c, p)

\* IsGameLost: a seat that is not taken is lost, an empty hand is not.
IsGameLost(top, hands, n, i) ==
    \/ i \notin 0 .. (n - 1)
    \/ hands[i] # {} /\ ~HasMove(top, hands[i])

IsGameWon(deck, hands, n) ==
    deck = {} /\ \A i \in 0 .. (n - 1) : hands[i] = {}

InHands(hands) == UNION {hands[i] : i \in Seats}

\* MixingDeckCards and IssuerCard: the outcomes of shuffling all cards and
\* dealing HandSize(n) of them to each of n players.
IssuerCard(n) ==
    LET dealt == {S \in SUBSET Cards : Cardinality(S) = HandSize(n)}
    IN  {h \in [Seats -> dealt \cup {{}}] :
            /\ \A i \in Seats : i < n <=> h[i] \in dealt
            /\ \A i, j \in Seats : i # j => h[i] \cap h[j] = {}}

\* DeckCardsLast, RemoveDeckCardsLast, PushCard repeated until the hand has
\* `target' cards or the deck is empty: the sets of cards that may be drawn.
Draws(deck, target) ==
    IF Cardinality(deck) <= target
    THEN {deck}
    ELSE {S \in SUBSET deck : Cardinality(S) = target}
=============================================================================
