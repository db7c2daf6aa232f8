------------------------------- MODULE Client -------------------------------
(***************************************************************************)
(* One player's client (GameClient, NetworkClient, LoginWindow,            *)
(* LobbyWindow, ProfileWindow, GameBoardWindow, WindowManager,             *)
(* GameOverDialog) and the games it meets on the server. Everything runs   *)
(* on one thread, but a request waits for its reply in an event loop of    *)
(* its own, and a dialog or a box for its player in another, in which      *)
(* timers fire and buttons are pressed: the handlers under way form a      *)
(* stack, and only the innermost goes on. The server may have answered any *)
(* of them long before: a reply tells of some moment since the request was *)
(* sent. Qt does not let a timer fire inside its own handler, unless it    *)
(* was started again in the meantime. Play itself is GameSession's         *)
(* subject: here a game is created, waits, plays and is finished.          *)
(***************************************************************************)
EXTENDS Integers, Sequences, SequencesExt

CONSTANTS
    MaxGames,     \* bound: games of the server
    MaxStages,    \* bound: stages the games go through, taken together
    MaxPresses,   \* bound: buttons pressed (other than to go back), polls that fail
    MaxStarts     \* bound: switches to the board waiting for their second

ASSUME ClientAssumption ==
    {MaxGames, MaxStages, MaxPresses, MaxStarts} \subseteq Nat

VARIABLES
    server,         \* the stage of every game on the server
    gameId,         \* m_gameId, NoGame while m_isInGame is false
    snapshot,       \* m_currentState: of which game, at which stage
    stack,          \* the handlers under way, innermost last
    username,       \* m_username, which games are joined under
    currentUsername,\* of the lobby, which greets with it
    buttons,        \* login and register are enabled
    pendingLogins,  \* shots of 100 ms that will log in, under which names
    pendingRegisters,\* shots of 500 ms that will register
    pendingLobby,   \* shots of 500 ms that will emit loginSuccessful
    window,         \* the window on top: login, lobby, profile or board
    waiting,        \* the waiting screen covers the lobby, matchmakingTimer runs
    pendingEntries, \* shots of 100 ms that will create or join a game
    pendingStarts,  \* shots of 1 s that will emit startGame
    dialogMade,     \* the board has a child GameOverDialog
    presses,        \* counter of the bound
    sat             \* observation: games the client was given a seat in

client == <<gameId, snapshot, sat>>
login == <<username, currentUsername, buttons, pendingLogins, pendingRegisters, pendingLobby>>
screen == <<window, waiting, dialogMade>>
shots == <<pendingEntries, pendingStarts>>
vars == <<server, client, login, stack, screen, shots, presses>>

Games == 1 .. MaxGames
NoGame == 0

\* Every press of login comes with a name of its own: its number.
Names == 1 .. MaxPresses
NoName == 0

\* A game goes through its stages in this order.  (The debug win of a game
\* that still waits is left out.)
Missing == 0
Waiting == 1
Playing == 2
Finished == 3

\* Handlers that wait for the reply to a state poll: the board's timer, the
\* waiting screen's timer, that timer before it was stopped or started again,
\* and a poll nothing follows.
Polling == {"board", "wait", "oldWait", "poll"}

\* Boxes the player opens: which game to join, and those that only tell
\* something (the rules, that no card is selected).
Boxes == {"asking", "box"}

\* An open box or game-over dialog is modal.
Modal == Boxes \cup {"dialog"}

\* The others wait for the reply to another request; a dialog or a box that was
\* closed, or accepted with the id of a game, has only to return.
Kinds == Polling \cup Modal \cup
         {"chat", "move", "create", "join", "register", "profile", "figures",
          "closed", "shut", "entered"}

\* A handler remembers the game it asked about, and its stage at that time.
Handler(kind, g) ==
    [kind |-> kind, game |-> g, since |-> IF g = NoGame THEN Missing ELSE server[g]]

LoginHandler(name) == [kind |-> "login", name |-> name]

\* The stages a reply to it may tell of.
Replies(h) == h.since .. server[h.game]

\* The board's timer, the dialog, and what every press after the first login
\* may add.
MaxDepth == 2 * MaxPresses

TypeOK ==
    /\ server \in [Games -> Missing .. Finished]
    /\ gameId \in Games \cup {NoGame}
    /\ snapshot \in [game : Games \cup {NoGame}, stage : Missing .. Finished]
    /\ stack \in Seq([kind : Kinds, game : Games \cup {NoGame}, since : Missing .. Finished]
                        \cup [kind : {"login"}, name : Names])
    /\ Len(stack) <= MaxDepth
    /\ {username, currentUsername} \subseteq Names \cup {NoName}
    /\ buttons \in BOOLEAN
    /\ {pendingLogins, pendingLobby} \subseteq Seq(Names)
    /\ pendingRegisters \in 0 .. MaxPresses
    /\ window \in {"login", "lobby", "profile", "board"}
    /\ {waiting, dialogMade} \subseteq BOOLEAN
    /\ pendingEntries \in Seq({"create", "join"})
    /\ pendingStarts \in 0 .. MaxStarts
    /\ sat \subseteq Games
    /\ gameId # NoGame => gameId \in sat

Init ==
    /\ server = [g \in Games |-> Missing]
    /\ gameId = NoGame
    /\ snapshot = [game |-> NoGame, stage |-> Missing]
    /\ stack = <<>>
    /\ username = NoName
    /\ currentUsername = NoName
    /\ buttons = TRUE
    /\ pendingLogins = <<>>
    /\ pendingRegisters = 0
    /\ pendingLobby = <<>>
    /\ window = "login"
    /\ waiting = FALSE
    /\ pendingEntries = <<>>
    /\ pendingStarts = 0
    /\ dialogMade = FALSE
    /\ presses = 0
    /\ sat = {}

-----------------------------------------------------------------------------
\* The ids of games are given out in order.
NextId(g) == server[g] = Missing /\ \A h \in 1 .. (g - 1) : server[h] # Missing

\* Another player creates a game, or a game is filled, or played to its end, by
\* whomever.
GameGoesOn(g) ==
    /\ SumFunction(server) < MaxStages
    /\ NextId(g) \/ server[g] \in {Waiting, Playing}
    /\ server' = [server EXCEPT ![g] = @ + 1]
    /\ UNCHANGED <<client, login, stack, screen, shots, presses>>

-----------------------------------------------------------------------------
\* Buttons.  While a box or a dialog is open no other button works.

NotUnderWay(kinds) == \A k \in DOMAIN stack : stack[k].kind \notin kinds
NoModal == NotUnderWay(Modal)
NoBox == NotUnderWay(Boxes)

\* onLoginClicked, by the button or by the return key in a field, which stays
\* when the button is disabled: logins may overlap.
PressLogin ==
    /\ window = "login" /\ NoModal
    /\ presses < MaxPresses
    /\ presses' = presses + 1
    /\ buttons' = FALSE
    /\ pendingLogins' = Append(pendingLogins, presses')
    /\ UNCHANGED <<server, client, stack, screen, shots>>
    /\ UNCHANGED <<username, currentUsername, pendingRegisters, pendingLobby>>

PressRegister ==
    /\ window = "login" /\ NoModal
    /\ buttons
    /\ presses < MaxPresses
    /\ presses' = presses + 1
    /\ buttons' = FALSE
    /\ pendingRegisters' = pendingRegisters + 1
    /\ UNCHANGED <<server, client, stack, screen, shots>>
    /\ UNCHANGED <<username, currentUsername, pendingLogins, pendingLobby>>

\* setUsername waits for the figures before the profile is shown.
PressProfile ==
    /\ window = "lobby" /\ ~waiting /\ NoModal
    /\ presses < MaxPresses
    /\ presses' = presses + 1
    /\ stack' = Append(stack, Handler("profile", NoGame))
    /\ UNCHANGED <<server, client, login, screen, shots>>

PressBack ==
    /\ window = "profile" /\ NoModal
    /\ window' = "lobby"
    /\ UNCHANGED <<server, client, login, stack, waiting, dialogMade, shots, presses>>

\* onLogoutClicked: neither the game is left nor the token given back, and what
\* is pending stays so.
PressLogout ==
    /\ window = "lobby" /\ ~waiting /\ NoModal
    /\ presses < MaxPresses
    /\ presses' = presses + 1
    /\ window' = "login"
    /\ UNCHANGED <<server, client, login, stack, waiting, dialogMade, shots>>

\* onCreateGameClicked, and onJoinGameClicked, which asks for the id first; the
\* buttons stay enabled.
PressCreate ==
    /\ window = "lobby" /\ ~waiting /\ NoModal
    /\ presses < MaxPresses
    /\ presses' = presses + 1
    /\ pendingEntries' = Append(pendingEntries, "create")
    /\ UNCHANGED <<server, client, login, stack, screen, pendingStarts>>

PressJoin ==
    /\ window = "lobby" /\ ~waiting /\ NoModal
    /\ presses < MaxPresses
    /\ presses' = presses + 1
    /\ stack' = Append(stack, Handler("asking", NoGame))
    /\ UNCHANGED <<server, client, login, screen, shots>>

\* The rules, and a pile that is pressed with no card selected.
OpenBox ==
    /\ (window = "lobby" /\ ~waiting) \/ window = "board"
    /\ NoModal
    /\ presses < MaxPresses
    /\ presses' = presses + 1
    /\ stack' = Append(stack, Handler("box", NoGame))
    /\ UNCHANGED <<server, client, login, screen, shots>>

\* A box that a dialog has opened over is out of reach.
CloseBox(k) ==
    /\ k \in DOMAIN stack /\ NotUnderWay({"dialog"})
    /\ \/ stack[k].kind \in Boxes /\ stack' = [stack EXCEPT ![k].kind = "shut"]
       \/ stack[k].kind = "asking" /\ stack' = [stack EXCEPT ![k].kind = "entered"]
    /\ UNCHANGED <<server, client, login, screen, shots, presses>>

\* A handler of the waiting timer that is under way does not keep the timer,
\* once stopped or started again, from firing.
Aged(handlers) == [k \in DOMAIN handlers |->
    IF handlers[k].kind = "wait" THEN [handlers[k] EXCEPT !.kind = "oldWait"] ELSE handlers[k]]

\* hideWaitingScreen: the client stays in the game.
PressCancel ==
    /\ window = "lobby" /\ waiting /\ NoModal
    /\ waiting' = FALSE
    /\ stack' = Aged(stack)
    /\ UNCHANGED <<server, client, login, window, dialogMade, shots, presses>>

\* PlayCard, EndTurn and ForceWin; SendChat waits as they do.
PressMove ==
    /\ window = "board" /\ NoModal
    /\ gameId # NoGame
    /\ presses < MaxPresses
    /\ presses' = presses + 1
    /\ stack' = Append(stack, Handler("move", NoGame))
    /\ UNCHANGED <<server, client, login, screen, shots>>

\* The button of the game-over dialog leaves the game; the Escape key closes
\* the dialog without a signal.
LeaveDialog(k) ==
    /\ k \in DOMAIN stack /\ stack[k].kind = "dialog"
    /\ stack' = [stack EXCEPT ![k].kind = "closed"]
    /\ \/ gameId' = NoGame /\ window' = "lobby"
       \/ UNCHANGED <<gameId, window>>
    /\ UNCHANGED <<server, snapshot, sat, login, waiting, dialogMade, shots, presses>>

-----------------------------------------------------------------------------
\* Timers.

\* Variants: the board polls only while it is shown; it polls again while it
\* waits for the chat.
GameTimerOnBoard ==
    /\ gameId # NoGame /\ window = "board"
    /\ NotUnderWay({"board", "chat"})
    /\ stack' = Append(stack, Handler("board", gameId))
    /\ UNCHANGED <<server, client, login, screen, shots, presses>>

GameTimerDuringChat ==
    /\ gameId # NoGame
    /\ NotUnderWay({"board"})
    /\ stack' = Append(stack, Handler("board", gameId))
    /\ UNCHANGED <<server, client, login, screen, shots, presses>>

\* The board's timer runs whether the board is shown or not.
GameTimer ==
    /\ gameId # NoGame
    /\ NotUnderWay({"board", "chat"})
    /\ stack' = Append(stack, Handler("board", gameId))
    /\ UNCHANGED <<server, client, login, screen, shots, presses>>

WaitTimer ==
    /\ waiting
    /\ gameId # NoGame
    /\ NotUnderWay({"wait"})
    /\ pendingStarts < MaxStarts
    /\ stack' = Append(stack, Handler("wait", gameId))
    /\ UNCHANGED <<server, client, login, screen, shots, presses>>

\* Which id was entered is settled when it is used.
EntryShot ==
    /\ pendingEntries # <<>>
    /\ pendingEntries' = Tail(pendingEntries)
    /\ \E g \in IF Head(pendingEntries) = "join" THEN Games ELSE {NoGame} :
         stack' = Append(stack, Handler(Head(pendingEntries), g))
    /\ UNCHANGED <<server, client, login, screen, pendingStarts, presses>>

\* startGame reaches showGameBoardWindow, whatever has happened since.
StartShot ==
    /\ pendingStarts > 0
    /\ pendingStarts' = pendingStarts - 1
    /\ window' = "board"
    /\ UNCHANGED <<server, client, login, stack, waiting, dialogMade, pendingEntries, presses>>

\* Variant: the name is taken over when the request is sent.
LoginShotTakesName ==
    /\ pendingLogins # <<>>
    /\ pendingLogins' = Tail(pendingLogins)
    /\ username' = Head(pendingLogins)
    /\ stack' = Append(stack, LoginHandler(Head(pendingLogins)))
    /\ UNCHANGED <<server, client, screen, shots, presses>>
    /\ UNCHANGED <<currentUsername, buttons, pendingRegisters, pendingLobby>>

LoginShot ==
    /\ pendingLogins # <<>>
    /\ pendingLogins' = Tail(pendingLogins)
    /\ stack' = Append(stack, LoginHandler(Head(pendingLogins)))
    /\ UNCHANGED <<server, client, screen, shots, presses>>
    /\ UNCHANGED <<username, currentUsername, buttons, pendingRegisters, pendingLobby>>

RegisterShot ==
    /\ pendingRegisters > 0
    /\ pendingRegisters' = pendingRegisters - 1
    /\ stack' = Append(stack, Handler("register", NoGame))
    /\ UNCHANGED <<server, client, screen, shots, presses>>
    /\ UNCHANGED <<username, currentUsername, buttons, pendingLogins, pendingLobby>>

\* loginSuccessful reaches showLobbyWindow, from whatever window: setUsername
\* hides the waiting screen.
LobbyShot ==
    /\ pendingLobby # <<>>
    /\ pendingLobby' = Tail(pendingLobby)
    /\ currentUsername' = Head(pendingLobby)
    /\ window' = "lobby"
    /\ waiting' = FALSE
    /\ stack' = Aged(stack)
    /\ UNCHANGED <<server, client, dialogMade, shots, presses>>
    /\ UNCHANGED <<username, buttons, pendingLogins, pendingRegisters>>

-----------------------------------------------------------------------------
\* The innermost handler goes on.

Innermost == Last(stack)
Below == Front(stack)
Finishing(kinds) == stack # <<>> /\ Innermost.kind \in kinds

\* Variants: the waiting screen takes any answer for the start; it looks for the
\* change from waiting to playing.
AfterPollOfAnyGame(h, below, stage) ==
    /\ stack' = IF h.kind = "board" /\ gameId # NoGame
                THEN Append(below, Handler("chat", NoGame)) ELSE below
    /\ pendingStarts' = IF h.kind \in {"wait", "oldWait"} /\ pendingStarts < MaxStarts
                        THEN pendingStarts + 1 ELSE pendingStarts

AfterPollAtTheChange(h, below, stage) ==
    /\ stack' = IF h.kind = "board" /\ gameId # NoGame
                THEN Append(below, Handler("chat", NoGame)) ELSE below
    /\ pendingStarts' = IF /\ h.kind \in {"wait", "oldWait"}
                           /\ snapshot.stage = Waiting /\ stage = Playing
                           /\ pendingStarts < MaxStarts
                        THEN pendingStarts + 1 ELSE pendingStarts

\* What follows PollGameState in its caller: the board polls the chat, the
\* waiting screen goes by the stage in m_currentState.
AfterPoll(h, below, stage) ==
    /\ stack' = IF h.kind = "board" /\ gameId # NoGame
                THEN Append(below, Handler("chat", NoGame)) ELSE below
    /\ pendingStarts' = IF /\ h.kind \in {"wait", "oldWait"}
                           /\ stage = Playing
                           /\ pendingStarts < MaxStarts
                        THEN pendingStarts + 1 ELSE pendingStarts

\* Variants: a dialog for every poll that finds a finished game; a state that
\* is no news of the game is not taken.
OpensDialogAgain(stage) == stage = Finished

OpensDialog(stage) == stage = Finished /\ ~dialogMade

TakeFirst(g, stage) ==
    snapshot' = IF snapshot.game = g THEN snapshot ELSE [game |-> g, stage |-> stage]

Take(g, stage) == snapshot' = [game |-> g, stage |-> stage]

\* A state arrives and is emitted: updateGameState opens the dialog for the
\* first game that ends, inside the handler that polled.
ReturnPoll ==
    /\ Finishing(Polling)
    /\ \E stage \in Replies(Innermost) :
         /\ Take(Innermost.game, stage)
         /\ IF OpensDialog(stage)
            THEN /\ dialogMade' = TRUE
                 /\ stack' = Append(stack, Handler("dialog", NoGame))
                 /\ UNCHANGED pendingStarts
            ELSE /\ AfterPoll(Innermost, Below, stage)
                 /\ UNCHANGED dialogMade
    /\ UNCHANGED <<server, gameId, sat, login, window, waiting, pendingEntries, presses>>

\* PollGameState ends without a return statement when the request failed: its
\* result is undefined, and the waiting screen may go by the old stage.
PollFails ==
    /\ Finishing(Polling)
    /\ presses < MaxPresses
    /\ presses' = presses + 1
    /\ \E stage \in {Missing, snapshot.stage} : AfterPoll(Innermost, Below, stage)
    /\ UNCHANGED <<server, client, login, screen, pendingEntries>>

\* exec returns in updateGameState, and the handler that polled goes on.
ReturnDialog ==
    /\ Finishing({"closed"})
    /\ AfterPoll(Last(Below), Front(Below), snapshot.stage)
    /\ UNCHANGED <<server, client, login, screen, pendingEntries, presses>>

\* exec returns: only an accepted id is followed by a shot.
ReturnBox ==
    /\ Finishing({"shut", "entered"})
    /\ stack' = Below
    /\ pendingEntries' = IF Innermost.kind = "entered" THEN Append(pendingEntries, "join")
                                                       ELSE pendingEntries
    /\ UNCHANGED <<server, client, login, screen, pendingStarts, presses>>

\* The profile is shown, from whatever window, and asks for its figures again
\* unless it was on top already.
ReturnProfile ==
    /\ Finishing({"profile"})
    /\ window' = "profile"
    /\ stack' = IF window = "profile" THEN Below ELSE Append(Below, Handler("figures", NoGame))
    /\ UNCHANGED <<server, client, login, waiting, dialogMade, shots, presses>>

\* The chat and the profile only show what arrived.
ReturnShown ==
    /\ Finishing({"chat", "figures"})
    /\ stack' = Below
    /\ UNCHANGED <<server, client, login, screen, shots, presses>>

\* The move was refused (or was a chat message), or it was accepted and the
\* game is polled.
ReturnMove ==
    /\ Finishing({"move"})
    /\ \/ stack' = Below
       \/ gameId # NoGame /\ stack' = Append(Below, Handler("poll", gameId))
    /\ UNCHANGED <<server, client, login, screen, shots, presses>>

\* CreateGame joins the game it has created; creating may fail.
ReturnCreate ==
    /\ Finishing({"create"})
    /\ \/ stack' = Below /\ UNCHANGED server
       \/ \E g \in Games :
            /\ SumFunction(server) < MaxStages
            /\ NextId(g)
            /\ server' = [server EXCEPT ![g] = Waiting]
            /\ stack' = Append(Below, [kind |-> "join", game |-> g, since |-> Waiting])
    /\ UNCHANGED <<client, login, screen, shots, presses>>

ShowWaitingScreen(g) ==
    /\ waiting' = TRUE
    /\ stack' = Append(Aged(Below), Handler("poll", g))

\* A seat is given in a game that waits; joining may fail.
ReturnJoin ==
    /\ Finishing({"join"})
    /\ \/ /\ Waiting \in Replies(Innermost)
          /\ gameId' = Innermost.game
          /\ sat' = sat \cup {gameId'}
          /\ ShowWaitingScreen(gameId')
       \/ /\ stack' = Below
          /\ UNCHANGED <<gameId, sat, waiting>>
    /\ UNCHANGED <<server, snapshot, login, window, dialogMade, shots, presses>>

\* Only a login that failed enables the buttons again.
ReturnLogin ==
    /\ Finishing({"login"})
    /\ stack' = Below
    /\ \/ /\ username' = Innermost.name
          /\ pendingLobby' = Append(pendingLobby, Innermost.name)
          /\ UNCHANGED buttons
       \/ /\ buttons' = TRUE
          /\ UNCHANGED <<username, pendingLobby>>
    /\ UNCHANGED <<server, client, screen, shots, presses>>
    /\ UNCHANGED <<currentUsername, pendingLogins, pendingRegisters>>

ReturnRegister ==
    /\ Finishing({"register"})
    /\ stack' = Below
    /\ buttons' = TRUE
    /\ UNCHANGED <<server, client, screen, shots, presses>>
    /\ UNCHANGED <<username, currentUsername, pendingLogins, pendingRegisters, pendingLobby>>

Return ==
    \/ ReturnLogin
    \/ ReturnRegister
    \/ ReturnPoll
    \/ ReturnDialog
    \/ ReturnBox
    \/ ReturnProfile
    \/ ReturnShown
    \/ ReturnMove
    \/ ReturnCreate
    \/ ReturnJoin

Next ==
    \/ \E g \in Games : GameGoesOn(g)
    \/ PressLogin
    \/ PressRegister
    \/ PressProfile
    \/ PressBack
    \/ PressLogout
    \/ PressCreate
    \/ PressJoin
    \/ OpenBox
    \/ PressCancel
    \/ PressMove
    \/ \E k \in 1 .. MaxDepth : LeaveDialog(k) \/ CloseBox(k)
    \/ GameTimer
    \/ WaitTimer
    \/ EntryShot
    \/ StartShot
    \/ LoginShot
    \/ RegisterShot
    \/ LobbyShot
    \/ PollFails
    \/ Return

\* Timers fire, and the server answers: a loop whose reply has arrived ends
\* before it looks for other events, so no kind of handler is passed over for
\* ever, whenever it is innermost, by others that start inside it.  A reply is
\* not late for ever either: polls of a finished game sooner or later say so.
\* The player need not do anything, nor ever close a box or a dialog.
Fairness ==
    /\ WF_vars(GameTimer) /\ WF_vars(WaitTimer) /\ WF_vars(StartShot)
    /\ SF_vars(Finishing({"board", "chat"}) /\ Return)
    /\ SF_vars(Finishing({"wait"}) /\ Return)
    /\ SF_vars(Finishing((Kinds \cup {"login"}) \ {"board", "chat", "wait"}) /\ Return)

Spec == Init /\ [][Next]_vars /\ Fairness

-----------------------------------------------------------------------------
FormUnderWay ==
    \/ pendingLogins # <<>> \/ pendingRegisters > 0 \/ pendingLobby # <<>>
    \/ \E k \in DOMAIN stack : stack[k].kind \in {"login", "register"}

\* The name the lobby greets with is the one games are joined under, once every
\* login has had its reply and its switch to the lobby: logins overlap, return
\* in the reverse order of their requests, and may fail.
GreetsWhoJoins == ~FormUnderWay => currentUsername = username

\* README.md:87, "users can log in or create an account": at the login page,
\* with nothing under way, the two buttons work.
FormUsable == ~FormUnderWay /\ window = "login" => buttons

\* No two game-over dialogs lie on top of each other, though every handler
\* that polls inside the first may find the game finished again.
OneDialog ==
    \A j, k \in DOMAIN stack : {stack[j].kind, stack[k].kind} = {"dialog"} => j = k

\* The board is shown only after one of the player's own games left the waiting
\* room, also when a poll failed and an old stage was looked at.
BoardOnlyAfterStart ==
    window = "board" \/ pendingStarts > 0 => \E g \in sat : server[g] > Waiting

\* The game the client takes part in, if any, is at this stage.
GameIs(stage) == gameId # NoGame /\ server[gameId] = stage

\* Whoever waits for a game that has started gets to the board, whatever else
\* is under way; cancelling and entering another game are the ways out.
WaiterReachesBoard ==
    (waiting /\ GameIs(Playing)) ~> (window = "board" \/ ~waiting \/ ~GameIs(Playing))

\* A player learns that its game has ended, on the board, in the lobby or after
\* cancelling the wait, once in the life of the client, unless it leaves a box
\* open for ever.
FirstEndIsShown ==
    []<>NoBox => (GameIs(Finished) ~> (dialogMade \/ ~GameIs(Finished)))

\* The client's copy of its game settles on the end of the game, though older
\* states, and states of games it was in before, may arrive after newer ones.
\* (While a box or a dialog is open it need not: a poll may be stuck below it.)
SnapshotSettles ==
    <>[](GameIs(Finished) /\ NoModal)
        => <>[](snapshot = [game |-> gameId, stage |-> Finished])
=============================================================================
