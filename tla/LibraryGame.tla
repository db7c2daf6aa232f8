----------------------------- MODULE LibraryGame -----------------------------
(***************************************************************************)
(* The game library TheGameDLL and the program that plays with it,         *)
(* TemplateDLL_TheGame: a second implementation of the rules, with no      *)
(* turns, no minimum and no defeat.  The program asks for any number of    *)
(* players and then lets only the first one play.  A card leaves the hand  *)
(* before the pile is asked, so a refused card is gone.                    *)
(***************************************************************************)
EXTENDS Integers, FiniteSets

CONSTANTS
    Low, High,    \* the cards lie between them (1 and 100)
    Trick,        \* a step back of exactly this is allowed (10)
    MaxHandSize,  \* MAX_HAND_SIZE, and the cards dealt to each (7)
    MaxPlayers    \* bound: players asked for

ASSUME LibraryAssumption ==
    /\ {Low, High} \subseteq Nat
    /\ Trick \in Nat
    /\ MaxHandSize \in Nat \ {0}
    /\ MaxPlayers \in Nat
    /\ MaxHandSize < High - Low - 1

VARIABLES
    deck,     \* deck_, shuffled: any of its cards may be the next
    hands,    \* players_: the sorted hand of each, the first is 0
    top,      \* piles_: the last card of each, NoCard while it is empty
    status,   \* of the program: players are added, cards are played, the end
    placed,   \* observation: the cards in the piles
    refused   \* observation: the cards no pile took

vars == <<deck, hands, top, status, placed, refused>>

Cards == (Low + 1) .. (High - 1)
Piles == 0 .. 3
Ascending == {0, 1}
NoCard == 0
Players(n) == 0 .. (n - 1)

TypeOK ==
    /\ deck \subseteq Cards
    /\ \E n \in 0 .. MaxPlayers : hands \in [Players(n) -> SUBSET Cards]
    /\ top \in [Piles -> Cards \cup {NoCard}]
    /\ status \in {"setup", "playing", "won", "exited"}
    /\ placed \subseteq Cards
    /\ refused \subseteq Cards

NewDeck == (Low + 1) .. (High - 1)

Init ==
    /\ deck = NewDeck
    /\ hands = [p \in Players(0) |-> {}]
    /\ top = [i \in Piles |-> NoCard]
    /\ status = "setup"
    /\ placed = {}
    /\ refused = {}

-----------------------------------------------------------------------------
Count == Cardinality(DOMAIN hands)

AddPlayer ==
    /\ status = "setup"
    /\ Count < MaxPlayers
    /\ hands' = [p \in Players(Count + 1) |-> {}]
    /\ UNCHANGED <<deck, top, status, placed, refused>>

\* startGame gives each player in turn a full hand, as long as there are cards.
DealtTo(p) ==
    LET left == Cardinality(deck) - p * MaxHandSize
    IN  IF left < 0 THEN 0 ELSE IF left < MaxHandSize THEN left ELSE MaxHandSize

Dealable == {h \in SUBSET deck : Cardinality(h) <= MaxHandSize}

StartGame ==
    /\ status = "setup"
    /\ status' = "playing"
    /\ hands' \in [DOMAIN hands -> Dealable]
    /\ \A p, q \in DOMAIN hands : p # q => hands'[p] \cap hands'[q] = {}
    /\ \A p \in DOMAIN hands : Cardinality(hands'[p]) = DealtTo(p)
    /\ deck' = deck \ UNION {hands'[p] : p \in DOMAIN hands}
    /\ UNCHANGED <<top, placed, refused>>

\* canPlaceCard: an empty pile takes any card.
CanPlaceCard(c, i) ==
    \/ top[i] = NoCard
    \/ IF i \in Ascending THEN c > top[i] \/ c = top[i] - Trick
                          ELSE c < top[i] \/ c = top[i] + Trick

\* addCard keeps nothing beyond a full hand.
AddCard(hand, c) == IF Cardinality(hand) < MaxHandSize THEN hand \cup {c} ELSE hand

CheckWinCondition(d, h) == d = {} /\ \A p \in DOMAIN h : h[p] = {}

\* One card from the deck, if there is one.
Draws(hand) ==
    IF deck = {} THEN {[deck |-> {}, hand |-> hand]}
    ELSE {[deck |-> deck \ {d}, hand |-> AddCard(hand, d)] : d \in deck}

\* Variants: a card is drawn also for one that is refused; it is drawn while
\* the card that is played is still in the hand.
PlayCardDrawsAnyway(p, c, i) ==
    \E drawn \in Draws(hands[p] \ {c}) :
        /\ deck' = drawn.deck
        /\ hands' = [hands EXCEPT ![p] = drawn.hand]
        /\ IF CanPlaceCard(c, i)
           THEN top' = [top EXCEPT ![i] = c] /\ placed' = placed \cup {c} /\ UNCHANGED refused
           ELSE refused' = refused \cup {c} /\ UNCHANGED <<top, placed>>

PlayCardDrawsFirst(p, c, i) ==
    IF CanPlaceCard(c, i)
    THEN /\ \E drawn \in Draws(hands[p]) :
              /\ deck' = drawn.deck
              /\ hands' = [hands EXCEPT ![p] = drawn.hand \ {c}]
         /\ top' = [top EXCEPT ![i] = c]
         /\ placed' = placed \cup {c}
         /\ UNCHANGED refused
    ELSE /\ hands' = [hands EXCEPT ![p] = @ \ {c}]
         /\ refused' = refused \cup {c}
         /\ UNCHANGED <<deck, top, placed>>

\* playCard with indices that exist: the card is out of the hand whether a pile
\* takes it or not, and one is drawn only if it does.
PlayCard(p, c, i) ==
    IF CanPlaceCard(c, i)
    THEN /\ \E drawn \in Draws(hands[p] \ {c}) :
              /\ deck' = drawn.deck
              /\ hands' = [hands EXCEPT ![p] = drawn.hand]
         /\ top' = [top EXCEPT ![i] = c]
         /\ placed' = placed \cup {c}
         /\ UNCHANGED refused
    ELSE /\ hands' = [hands EXCEPT ![p] = @ \ {c}]
         /\ refused' = refused \cup {c}
         /\ UNCHANGED <<deck, top, placed>>

\* "play <card> <pile>" of the menu, always as the first player, and the test
\* for the win that follows every choice.
Play ==
    /\ status = "playing"
    /\ 0 \in DOMAIN hands
    /\ \E c \in hands[0], i \in Piles : PlayCard(0, c, i)
    /\ status' = IF CheckWinCondition(deck', hands') THEN "won" ELSE "playing"

Exit ==
    /\ status = "playing"
    /\ status' = "exited"
    /\ UNCHANGED <<deck, hands, top, placed, refused>>

Next == AddPlayer \/ StartGame \/ Play \/ Exit

\* The player keeps naming cards.
Fairness == WF_vars(Play)

Spec == Init /\ [][Next]_vars /\ Fairness

-----------------------------------------------------------------------------
InHands == UNION {hands[p] : p \in DOMAIN hands}

\* A card is in the deck, in one hand, on a pile, or was refused: the limit of
\* addCard never drops one, and no other step loses or duplicates one.
CardsAccounted ==
    /\ Cards = deck \cup InHands \cup placed \cup refused
    /\ \A p, q \in DOMAIN hands : p # q => hands[p] \cap hands[q] = {}
    /\ \A p \in DOMAIN hands : hands[p] \cap (deck \cup placed \cup refused) = {}
    /\ deck \cap (placed \cup refused) = {}
    /\ placed \cap refused = {}

\* While there is a deck the first player is short of exactly the cards that
\* were refused, for good: nothing ever makes up for one.
HandOwesRefused ==
    status # "setup" /\ 0 \in DOMAIN hands /\ deck # {}
        => Cardinality(hands[0]) + Cardinality(refused) = MaxHandSize

\* A player who plays alone and goes on naming cards wins, unless a whole hand
\* of cards was refused: however badly the piles stand, no defeat is noticed.
SoloIsDecided ==
    (status = "playing" /\ Count = 1)
        ~> (status \in {"won", "exited"} \/ Cardinality(refused) = MaxHandSize)

\* README.md:5, "The collective objective is to use all the cards, in which case
\* the team wins", of a program that offers games of 1 to 4 players: whoever goes
\* on naming cards, and is refused none, wins or leaves.
TeamWins ==
    (status = "playing" /\ Count \in 1 .. 4) ~> (status \in {"won", "exited"} \/ refused # {})
=============================================================================
