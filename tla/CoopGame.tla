------------------------------ MODULE CoopGame ------------------------------
(***************************************************************************)
(* What the server promises of one game, without hands, piles or draws:    *)
(* players sit down, the cards are put out one at a time, the turn goes    *)
(* round the taken seats and never passes before a card was placed, the    *)
(* game is won at the moment the last card is out and lost only while      *)
(* cards are left, and a game that is over stays over.                     *)
(***************************************************************************)
EXTENDS Integers

CONSTANTS
    AllCards,  \* the cards to put out
    MaxSeats   \* the most players of a game

VARIABLES
    phase,      \* "open", "playing", "won" or "lost"
    seated,     \* players who sat down
    mover,      \* the seat whose turn it is
    moved,      \* it has placed a card in this turn
    remaining   \* the cards not yet out

gameVars == <<phase, seated, mover, moved, remaining>>

CInit ==
    /\ phase = "open"
    /\ seated = 0
    /\ mover = 0
    /\ moved = FALSE
    /\ remaining = AllCards

Sit ==
    /\ phase = "open"
    /\ seated < MaxSeats
    /\ seated' = seated + 1
    /\ phase' \in IF seated' >= 2 THEN {"open", "playing"} ELSE {"open"}
    /\ UNCHANGED <<mover, moved, remaining>>

Begin ==
    /\ phase = "open"
    /\ seated >= 2
    /\ phase' = "playing"
    /\ UNCHANGED <<seated, mover, moved, remaining>>

Place(c) ==
    /\ phase = "playing"
    /\ c \in remaining
    /\ remaining' = remaining \ {c}
    /\ phase' \in IF remaining' = {} THEN {"won"} ELSE {"playing", "lost"}
    /\ moved' = TRUE
    /\ UNCHANGED <<seated, mover>>

Pass ==
    /\ phase = "playing"
    /\ moved
    /\ moved' = FALSE
    /\ mover' = (mover + 1) % seated
    /\ phase' \in {"playing", "lost"}
    /\ UNCHANGED <<seated, remaining>>

GiveUp ==
    /\ phase = "playing"
    /\ remaining # {}
    /\ phase' = "lost"
    /\ UNCHANGED <<seated, mover, moved, remaining>>

\* The debug route: a game is declared won whatever is left of it.
DeclareWon ==
    /\ phase \in {"open", "playing"}
    /\ phase' = "won"
    /\ UNCHANGED <<seated, mover, moved, remaining>>

CNext == Sit \/ Begin \/ (\E c \in AllCards : Place(c)) \/ Pass \/ GiveUp \/ DeclareWon

CSpec == CInit /\ [][CNext]_gameVars
=============================================================================
