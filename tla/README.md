# The Game: a verification project for the server and its clients

*The Game* is a cooperative card game: 98 cards between 1 and 100 are put out on
two ascending and two descending piles by up to five players. The repository
(paths below are relative to `src/`) holds an HTTP server over SQLite, a Qt
client that polls it, an older single-process console prototype and a game library
with a program of its own. The project models the server's games, its bookkeeping,
its chat and its authentication, the event loop of the client, and the library. It
checks them with TLC, and proves with TLAPS, for every value of the constants, every
safety property that a passing run checks.

## 1. Inventory

### The parts and how they interact

    client (Qt)                      server (Crow, several threads)              database (SQLite)
    GameBoardWindow --timer 1/s-->   /game/<id>/state  -> GameSessionManager --> game_sessions
    LobbyWindow     --timer----->    /games, /join        m_mutex, m_sessions    player_game_stats
    GameClient      --HTTP------>    /play, /endturn      GameTable per game     users
      (nested event loop)            /chat             -> ChatHeandler ------->  chat_messages
                                     /register, /login -> AuthHandler ------->   users (+ token table in memory)

| part | state | operations | what is hard | what makes it correct |
|---|---|---|---|---|
| Card table, `Server/Server/GameTable.cpp`, `Player.cpp`, `Card.cpp` | piles, deck, hands | foundations, shuffle, deal, place, draw, won/lost tests | refill at the end of the deck, seats versus players | no card lost or duplicated, hands not empty while there is a deck |
| Game sessions, `Server/Server/GameSessionManager.cpp` | status, won, seats, turn, cards placed in the turn, the table | create, join, start, play, end turn, state poll, debug win | every poll is also a referee; the minimum changes in mid-turn; four places end a game | a turn that cannot be completed ends the game, nobody with a move loses, an ended game stays ended and is counted once |
| Registry and database, `GameSessionManager.cpp`, `Server/Database/Database/DatabaseManager.cpp` | ids and sessions in memory; rows, history, totals on disk | insert a session, finish it, save each player's entry and totals | ids start over with the process, rows do not; a finished game is written in several steps without a transaction | a game is written on its own row, each player is counted at most once and only with a record, the score follows the result |
| Chat, `ChatHeandler.cpp`, `DatabaseManager.cpp`, `GameClient.cpp`, `GameBoardWindow.cpp` | messages on disk, `lastMessageId` and the list on the board | post, fetch the newest, show | polls answered late, about a game left since, newest first; ids and seats of a life of the server that is over | order, no message twice, no message dropped, a newer message is reached, a seat is one client's |
| Authentication, `AuthHandler.cpp` | users on disk, tokens in memory | register, login, logout | check and insert in two steps on concurrent threads | a name has one row; a token is given only for its password |
| Rate limiter, `RateLimiter.h` | tokens per address | allow | refill only at a request, the table is lost in a restart | a bound for every span of one interval; a refusal does not prolong the wait |
| Routes, middleware, validation, logging, health, version | none | forwarding | - | - |
| Server statistics, `ServerStats.h` | counters nothing updates | read | - | - |
| Game client and network, `GameClient.cpp`, `NetworkClient.cpp` | name, game id, last snapshot | login, register, join, play, end turn, poll, leave | a request waits in a nested event loop, so timers and clicks go on inside it | the snapshot settles on the end of the game, whatever arrives late |
| Windows, `LoginWindow.cpp`, `LobbyWindow.cpp`, `ProfileWindow.cpp`, `GameBoardWindow.cpp`, `WindowManager.cpp`, `GameOverDialog.cpp` | visible window, enabled buttons, timers, waiting screen | log in and out, register, profile, create, join, wait, cancel, rules, game over, return | timers that are not stopped, delayed shots, dialogs and boxes inside a handler for as long as the player likes, logins that overlap | who waits gets to the board, the end of a game is shown, one dialog at a time, the lobby greets the name games are joined under |
| Game library, `TheGameDLL/TheGameDLL/`, and its program `TemplateDLL_TheGame/main.cpp` | deck, hands, piles | add players, deal, play, win test | a card leaves the hand before the pile is asked | no card lost, somebody can win |
| Console prototype, `TheGame/` | the first implementation of the rules | as the server's | - | as the server's |

The manager's handlers hold `m_mutex` from their first line to their return, so
requests about games are interleaved but not overlapped. That is why a handler
is one action in `GameSession`. The exceptions are what the lock does not cover:
a process that ends in the middle, a database call that throws, the chat and
authentication handlers, and everything in the client. `SessionStore`, `Chat`, `Auth`
and `Client` are about those. The library and the prototype run in one thread and
talk to nobody.

### Hazards

`PROJECT.json` lists 38 hazards, each at the line where it bites, with the
properties that would notice it going wrong, or the reason why none does.
The ones that shaped the models:

* the state poll also decides defeats (`GameSessionManager.cpp:285`), between
  any two requests of the player whose turn it is;
* a defeat must be noticed by whichever request blocks a player: a placement, a
  refill, the end of the previous turn, the start;
* a player may be *drained*: no card in hand, none in the deck, others still
  have some (`:428`);
* seats and players differ in a game that is started early (`:388`, `:433`);
* a finished game is written row by row (`:28-48`), on rows whose ids are
  assumed to equal those of the memory (`:74`);
* messages arrive newest first at a reader that only goes upwards (`DatabaseManager.cpp:414`);
* every request of the client waits in an event loop inside its handler: timers,
  buttons and dialogs go on inside it, and what returns is older than what has
  returned meanwhile (`NetworkClient.cpp:34`, `GameBoardWindow.cpp:161`); a box that
  the player leaves open holds up whatever waits below it (`LobbyWindow.cpp:237`);
* a name is looked for and inserted in two steps on concurrent threads
  (`DatabaseManager.cpp:105`);
* a client survives the server it has a seat at: its game id and index may be
  somebody else's in the next life of the server (`GameClient.cpp:65`), and its
  board keeps the messages it lists (`GameBoardWindow.cpp:311`);
* the login page is one object for the life of the client, and logging in by the
  return key works while its buttons are disabled (`LoginWindow.cpp:80`);
* the library takes a card out of the hand before it knows whether a pile takes it
  (`TheGameDLL/TheGameDLL/Game.cpp:47`).

## 2. Plan

| step | modules | status |
|---|---|---|
| 1 | `GameTable`, `GameSession`, `GameRules`: one game | done |
| 2 | `CoopGame`: what one game promises; `GameSession` implements it | done |
| 3 | `GameSession_proofs`, `CoopGame_proofs` | done |
| 4 | `SessionStore`, `StoreClaims`: many games, the database, restarts | done |
| 5 | `Chat`: the board and its polls | done |
| 6 | `Client`: timers, waiting screen, state polls, the dialog, nested event loops | done |
| 7 | `RateLimiter`, `Auth`, `Auth_proofs` | done |
| 8 | `Chat` composed with ids, rows and seats over restarts of the server | done |
| 9 | `Client` from the login page on: forms, profile, logout | done |
| 10 | `LibraryGame`, `LibraryGame_proofs`: the library | done |
| 11 | `DataLemmas`: induction, sums; `SessionStore_proofs`, `Chat_proofs`, `Client_proofs`, the limiter and the types in `Auth_proofs` | done |
| 12 | the console prototype `TheGame`, if it is kept | last |

The order follows importance: the rules of a game and who ends it come first,
then what is kept of it, then what the players see, then the implementations beside
the server.

## 3. The modules

`GameSession` extends `GameTable` and instantiates `CoopGame`; `GameRules` and
`MCGameSession` extend `GameSession`; `GameSession_proofs` extends it too, and
`CoopGame_proofs` extends that; `StoreClaims` extends `MCSessionStore`, which extends
`SessionStore`. `Auth` extends `RateLimiter`, `MCAuth` extends `Auth`.
`Chat`, `Client` and `LibraryGame` stand alone. The proofs about a module are in the
module of its name with `_proofs`, which extends it; those about `SessionStore`, `Auth`,
`Chat` and `Client` also extend `DataLemmas`, which knows nothing of the program.

### `GameTable`: the card table as operators

The values of cards are unique, so the deck and a hand are sets. The deck is
shuffled before it is dealt and popped from its end: drawing any set of the
right size is the same as popping in any order. Piles are reduced to their top
card, which is all that `IsValidMove` reads, and the set `placed` of cards they
hold. `Placeholder` is the `Card(-1)` that `Player`'s constructor puts in a hand
until the first real card replaces it.

The refill of `PlayCard` sizes the hand by `maxPlayers`, the deal by the players
seated: `HandSize` is applied to both as in the code.

Two assumptions on the constants: `TableAssumption` (positive sizes, hands of
two or more) and `DealAssumption` (no deal takes the whole deck). Both hold of the
code's values: 5 players take 30 of 98 cards.

### `GameSession`: one game

| action | code |
|---|---|
| `CreateGame(m)` | `CreateGame`, 2 to 5 seats |
| `JoinGame` | `JoinGame`; the one that fills the last seat deals and starts, and unlike `StartGame` it does not test for a defeat |
| `StartGame` | `StartGame`, two players or more, ends the game at once if the first is blocked |
| `PlayCard(i, c, p)` | place; win test before the refill; refill only of an emptied hand; defeat test after it, only below the minimum |
| `EndTurn(i)` | minimum met; pass the turn; defeat test of the next player |
| `GetGameState` | the referee in every poll |
| `ForceWin` | the debug route: hands emptied, game won |

`FinishGameAndSaveStats` is the only writer of `won` and of the statistics. Here
it updates `stats`, per seat, for any set of the taken seats: a name without a
user row is skipped, a user whose row cannot be read is passed over, and any other
database error ends the loop. `SessionStore` models that loop step by step.

Requests that the handler answers with an error change nothing and are
stuttering steps. The state poll writes nothing in a game that does not play.
`EndGame` has no route and no caller. A poll of a game that nobody has joined
reads `playerNames[0]` of an empty vector (`:297`), which is undefined; the model does
not give that poll a meaning. `Chat` shows which clients could send it: only one left
over from an earlier life of the server (`SeatIsOwn`).

Operators marked *Variant* in the modules are plausible mistakes, used by no
action: they show that a property can tell the code from a broken one.

### `CoopGame`: what a game promises

Players sit down, cards go out one at a time, the turn goes round the seats that
are taken and does not pass before a card was placed, the game is won when the
last card is out and lost only before, and what is over stays over. There are no
hands, piles, draws or seats to fill. The mapping in `GameSession` (`Coop`) takes
`remaining` to the cards on no pile and `moved` to `cardsPlayedThisTurn > 0`.

### `GameRules`, `StoreClaims`: what the repository's README says and the code does not do

Each definition quotes the line. See *Findings*.

### `SessionStore`: many games and the database

How a game is played is left to `GameSession`: here it ends won with empty hands
or lost with a card in some hand, which is what `LossMeansBlocked` and
`LedgerMatchesOutcome` say there. What the module keeps is control: the id taken
before the insert (`CreateGame`), the insert that may throw, the saving of a
finished game as the steps

    FinishSession -> (SavePlayerStats -> UpdateUserStatsIncrement)* -> done

each of which may throw (`SavingFails`: the loop ends, nothing is undone) or be the
last thing the process does (`Restart`). One error goes no further: `getUserByIdSafe`
swallows it, `UpdateUserStatsIncrement` returns without counting, and the loop goes on
with the next player (the second alternative of that action). The mutex is held through the saving, so no other handler runs
(`MutexFree`), but a restart may. `SavePlayerStats` is `INSERT OR REPLACE` by user
and session id with a foreign key; a missing row throws and ends the saving.
`UpdateUserStatsIncrement` recalculates the score in the units of the code:
fifths of games won, less one or two points for the average of cards left on
losses. `life`, `faults` and `due` are observers and exist in no code; the `owner`
and `by` fields say which game a row or an entry was written for.

### `Chat`: the chat over the lives of the server

| action | code |
|---|---|
| `CreateGame` | the id from memory, and the row that goes with it or fails |
| `JoinGame`, `LeaveGame` | a seat and its index; `m_isInGame` reset, without telling the server; a poll under way goes on |
| `Restart` | `m_sessions` and `m_nextGameId` gone, rows and messages kept; clients do not notice |
| `SendChat` | `SendChat`, `PostMessage`: fails for an id that has no row |
| `PollChat`, `ServerAnswers`, `PollFails`, `OnChatUpdated` | a poll is sent, answered, perhaps lost, and shown |

A client that waits for a reply runs an event loop of its own
(`NetworkClient::handleReply`), in which its player may leave, join or send, so a
reply may be about a game that was left. There is one poll at a time: only the
board's timer polls the chat, and Qt does not let a timer fire inside its own
handler. A reply holds the newest `Limit` messages, newest first. `onChatUpdated`
shows those above `lastMessageId` and raises it as it goes. Neither is reset when
the player leaves: a reader whose `lastMessageId` has passed a message through a message
of another game never sees it, be it the newest of its game. `NewestIsShown` is stated
for messages that are not `Overtaken` in that way.

The module composes this with what the chat takes from the registry: an id names
another game in every life of the server, and a message is filed under the id. The
life in which a message was written (the first part of its entry in `messages`) and the
games a client has had a seat in (`been`) are observations. A client keeps its `seat` over
a restart. `life` and `faults` count towards their bounds.

### `Client`: one client's event loop

The client has one thread. The handlers that wait for a reply, or for the player to
close a dialog or a box, are a `stack`: other handlers start on top of it, and only the innermost goes on.

| handler | waits in | started by | goes on in |
|---|---|---|---|
| `board` | `PollGameState` | `GameTimer` | `ReturnPoll`, then `chat` |
| `wait`, `oldWait` | `PollGameState` | `WaitTimer` | `ReturnPoll`: 1 s later `StartShot` if the game plays |
| `poll` | `PollGameState` | an accepted move, a seat | `ReturnPoll` |
| `chat`, `move` | `PollChat`; `PlayCard`, `EndTurn`, `ForceWin`, `SendChat` | `board`; `PressMove` | `ReturnShown`, `ReturnMove` |
| `login`, `register` | `Login`, `Register` | `LoginShot`, `RegisterShot`, 100 and 500 ms after `PressLogin`, `PressRegister` | `ReturnLogin`, then 500 ms later `LobbyShot`; `ReturnRegister` |
| `profile` | `GetUserProfile`, from `setUsername` | `PressProfile` | `ReturnProfile`: only now the profile is shown, then `figures` |
| `figures` | `GetUserProfile`, from `showEvent` | the profile being shown | `ReturnShown` |
| `create`, `join` | `CreateGame`, `JoinGame` | `EntryShot`, 100 ms after `PressCreate` or after the id was accepted | `ReturnCreate`, `ReturnJoin` |
| `asking`, `box`, then `entered`, `shut` | `QInputDialog::getInt`; `exec` of the rules, `QMessageBox::information` | `PressJoin`; `OpenBox` | `ReturnBox`, after `CloseBox` |
| `dialog`, `closed` | `exec` of the game-over dialog | `ReturnPoll` of a finished game | `ReturnDialog`, after `LeaveDialog` |

* A timer does not fire inside its own handler, but may once it has been stopped or
  started again: `Aged` turns the handler of the waiting timer into `oldWait`.
* The server may have answered long before the reply is looked at: a reply tells of
  any stage its game had `since` the request (`Replies`). `server` is just the
  stages of the games, which go on by themselves (`GameGoesOn`): who fills and
  finishes them is `GameSession`'s subject.
* `PollGameState` has no `return` when the request failed (`GameClient.cpp:258`). Its
  result is undefined: `PollFails` lets the waiting screen take it for false, or
  for true, and then it goes by the old snapshot.
* The dialog is a child of the board and never deleted, so it opens once in the life
  of a client (`dialogMade`). Its button leaves the game, the Escape key only closes
  it.
* The dialog and the boxes are modal: while one is open no other button works (`NoModal`),
  but timers and shots do, and what lies below waits until the player closes it. The
  dialog may open over a box, which is then out of reach until the dialog is closed.
  That there is one box at a time follows; nothing says the player ever closes it.
* Cancelling the wait stops the timer and leaves the client in its game.
* The name of a login is the number of the press it came with, so that no two are
  the same. The return key in a field calls `onLoginClicked` also while the buttons are
  disabled, so logins overlap: their shots go off in the order they were pressed, and
  their replies return in the reverse order.
* Logging out only changes the window: name, game, timers and shots stay.

Things the module shows that no text of the repository speaks of, so that they are no
findings: the end of a second game is never shown; a delayed `startGame` brings up the
board of a game that was left, or after a logout; a cancelled seat stays taken; the
switch to the lobby of a second overlapping login brings the lobby back after a logout
and hides a waiting screen, whose wait then ends unseen.

### `RateLimiter` and `Auth`

`RateLimiter` is one address table under its mutex. What the code asks of the time is
whether the interval has passed since the last refill, so the model keeps ages, as
far as the interval, and time has no end. An address without an entry behaves as
one whose interval has passed: its first request refills it and spends a token.
`passed`, `refused` and `restarts` are observations, not memory: a restart empties the
table (`ForgetLimits`) and leaves them as they are.

`Auth` is the routes of authentication on `Threads`: `Request` asks the limiter,
then the handler takes its steps, between which others run:

    register: LookForName -> InsertUser -> EnterToken        login: LoginUser -> EnterToken

The column of the names is unique: the insert of a name that has got a row since
it was looked for throws, and `registerUser` returns false. The insert may throw
for other reasons too, and a query may (`QueryFails`, a 500). A restart keeps the
rows and loses the rest. Tokens are drawn at random; they are taken to be
different, and identified by the request they were given to.

### `LibraryGame`: the library and its program

| action | code |
|---|---|
| `AddPlayer` | `Game::addPlayer`, for each name asked for |
| `StartGame` | `Game::startGame`: each in turn is dealt a full hand while there are cards |
| `Play` | option 2 of the menu: `Game::playCard` as player 0, then `checkWinCondition` |
| `Exit` | option 5 |

Decks and hands are sets and piles their last card, as in `GameTable`. `playCard` moves
the card out of the hand, asks the pile, and only if the pile takes it draws another;
a card that is refused goes with the pointer that held it. An empty pile takes any
card. `placed` and `refused` are observations. The other options of the menu read, and
an index that does not exist changes nothing. The win test follows every choice, but
only a play can change its outcome.

## 4. The runs

| run | module, cfg | asks |
|---|---|---|
| `session` | `MCGameSession` | one game at a table of two or three, full or not: types, cards, referee, statistics, that a game that is played ends, and that the session implements `CoopGame` |
| `store` | `MCSessionStore` | restarts and errors, fatal and swallowed, at every step of the saving |
| `chat` | `Chat` | two lives of the server; polls answered late or not at all while the player moves between games |
| `client` | `Client` | two games; handlers, boxes and the dialog started inside each other in every order, late replies, failed polls, logins that overlap |
| `library` | `LibraryGame` | where the cards of the library go, how a solo game ends |
| `auth` | `MCAuth` | two threads, a race for a name, restarts, the limiter over them |
| `failure_ends`, `waiting_starts` | `GameRules` | rules of the README that do not hold |
| `history_kept` | `StoreClaims` | a statement of the README about the profile that does not hold |
| `chat_passed_over` | `Chat` | messages that never reach the board |
| `login_again` | `Client` | the login page after a logout |
| `team_wins` | `LibraryGame` | whether a team can win in the library |

### What they show

* **`CardConservation`**: deck, hands and piles divide the cards among them for as
  long as a game is played, through every refill, the short one included.
* **`NoEmptyHandWhileDeck`**: the late refill keeps every seated player in play.
* **`BlockedBeforeMinimumIsOver`, `SomeoneCanAct`**: the defeat tests in `PlayCard`,
  `EndTurn` and `StartGame` are complete. A running game waits for a player who can
  place, can end the turn, or is drained; being drained is the one hole.
* **`LossMeansBlocked`**: all four places that announce a defeat look at the right
  seat and the new piles.
* **`OneLedgerEntry`, `LedgerMatchesOutcome`**: a seat is counted once, and a win
  is counted exactly for games that are won.
* **`PlayedGameEnds`**: a game that is played ends or waits for a drained player.
* **`ImplementsCoopGame`**: every step of a session is a step of the abstract game: the
  turn goes round the seats that are taken, the win comes with the last card out, and
  what is over stays over.
* **`OwnRowUntilDisturbed`**: memory and database run in step, but only because
  nothing has gone wrong yet: the assumption in the name is needed.
* **`FirstOutcomeStands`, `CountedAtMostOnce`, `CountedUnlessDisturbed`,
  `RecordedBeforeCounted`, `ScoreFollowsResult`**: what survives restarts and errors:
  outcomes on rows are not rewritten, nobody is counted twice, a win does not lower a
  score, and totals are moved only for a game that is in the history at that moment,
  as an entry of its own and with the result that is counted.
* **`ShownInOrder`, `NewestIsShown`**: the board is in order and without repetition,
  although every reply repeats what was shown and may be about another game, and it
  shows the newest message of the game, unless one of another game with a later id was
  shown before (or is in a reply under way), whose `lastMessageId` hides it.
* **`OwnIdsOnly`**: what a board lists was written under an id its player has had a seat
  under. More cannot be said: after a restart messages of an older game appear in the
  new game of the same id.
* **`SeatIsOwn`**: within a life of the server no two clients hold the same seat, and the
  game a client polls exists and has players. The exception in its statement is a client
  left over from an earlier life, which may play on somebody else's seat.
* **`GreetsWhoJoins`**: once every login has come to its end, the lobby greets the name
  that games are joined under, although the replies return in the reverse order of the
  requests and either may fail.
* **`OneDialog`, `BoardOnlyAfterStart`**: polls that return inside the open dialog do
  not open another, and the board comes up only after one of the player's games
  left the waiting room, a failed poll notwithstanding. (It need not be the game the
  player is in: see below.)
* **`WaiterReachesBoard`**: a waiting player gets to the board, whatever is stuck below
  whatever, open boxes included: the timer fires on top of them.
* **`FirstEndIsShown`, `SnapshotSettles`**: the end of the player's game is shown, in the
  lobby, too, and the snapshot settles on it whatever states of this or of an earlier game
  arrive late. Both speak of players who do not leave a box open for ever. They need
  not hold otherwise: the board's timer does not fire while its own handler lies below
  an open box, so neither the dialog opens nor the snapshot is renewed until it is closed.
* **`OneRowPerName`, `TokensAreEarned`**: the race between two registrations leaves one
  row, and its loser without a token.
* **`SlidingLimit`, `RefusedOnlyWhenBusy`**: in any span of one interval fewer than
  twice `MaxTokens` requests pass, and `MaxTokens` more for every restart within the span,
  since a new process knows no address. A refusal always has `MaxTokens` passed requests
  to point to.
* **`CardsAccounted`, `HandOwesRefused`**: the one way the library loses a card is a
  refusal, the limit of `addCard` never does; and while there is a deck the hand is short
  of exactly the cards refused, which is a disadvantage the rules do not have.
* **`SoloIsDecided`**: a single player who goes on naming cards wins, unless a whole hand
  was refused. With two players or more nobody can win (`TeamWins`, see *Findings*).

### Bounds, and why they are enough

* **Deck and hands.** `session`: cards 2..8, hands of 3 with two players and 2 with
  three. The trick is 3. A hand is emptied and refilled, a refill meets the end of the
  deck, a hand is emptied without a refill, and blocked hands occur. Larger decks repeat
  these cases; the theorems cover all decks.
* **`ExtremesDealt`** (action constraint) keeps, of all deals, those that give the first
  seat the lowest cards and the second the highest card; the rest is dealt in every way.
  It divides the deals by about five; the theorems cover all of them.
* **`MaxGamers`** 3: a full table of two, a full table of three, and one of three that is
  started with two. The code's fourth and fifth seats use the same code with a
  smaller hand.
* **`MaxGames` 2, `MaxRestarts` 1, `MaxFaults` 1.** Two rows are needed for a game to
  be saved on another's row, one restart for an id to return, one error for each
  step of the saving to fail. `MaxSeats` is 3: two users and a guest, or a user twice.
* **`FullHand` 8**, the code's largest hand, so that the thresholds of 10 and 15
  cards are those of the code.
* **`chat`: `Limit` 1, `MaxMessages` 2** (200 and unbounded in the code; `Limit` 2 in
  `chat_passed_over`): more messages than a reply holds. **`MaxGames` 2, `MaxSeats` 2,
  `MaxRestarts` 1, `MaxFaults` 1**: an id that returns, a second game to be in meanwhile, a
  game that is full, and an id without a row. **`Readers`** is one of the two clients:
  boards do not affect each other, the other client only joins and writes.
* **`client`: `MaxGames` 2, `MaxStages` 4, `MaxPresses` 3, `MaxStarts` 1.** Three presses are a
  login and two entries, into two games or twice into one, which restarts the timer; an
  entry and a move or an open box; or two logins that overlap and a logout. A poll that
  fails counts as a press. The depth of the stack follows from them. `MaxStages` bounds
  what the games go through together: one is played to its end and the other created, or
  both get half way. So a poll of the first game may return while the second, which the
  player is in, is finished; a box may lie over a poll and the dialog over a box.
* **`library`: cards 2..7, hands of 2, up to 4 players, a trick of 2.** Decks that are dealt
  out and decks that are not, a solo game through the end of the deck, every number of
  refusals.
* **`auth`: `MaxRequests` 3, two threads, two names, two passwords and the empty one,
  `MaxTokens` 2, `RefillInterval` 3, `MaxRestarts` 1.** Two requests race for a name, the third logs in or
  registers again. Malformed requests and ticks are not bounded, and one restart in every
  interval is allowed, so the limiter is checked over its whole state space.
* The users are interchangeable, and so are names, passwords and threads (`SYMMETRY` in
  `MCSessionStore` and `MCAuth`, whose runs check no liveness property).
* `CHECK_DEADLOCK FALSE` is set in every run but `auth`: a finished game accepts no
  request, the stores and the library's program stop, and a client that is in no game
  need not join one.

### Fairness

* **`Polled`**: every board polls its game once a second while it is in it
  (`GameBoardWindow.cpp:108-115`), so the poll is weakly fair. It is continuously
  enabled while the current player has no move, since nobody can change that but by
  ending the turn.
* **`Played`** is an assumption about people, not about code: whoever can move or end
  the turn sooner or later does one of the two. Without it nothing can be said to
  end. `PlayedGameEnds` and `WaitingGameStarts` are stated under both.
* **`Chat!Fairness`**: the timer fires, and of the polls that are sent not every one
  fails, so that some are answered and shown (strong fairness, since a poll can end
  without). That the player closes a box lying on the reply is part of it. It is required of readers only; nobody has to send, join or leave.
* **`Client!Fairness`**: the timers fire and the delayed start goes off; and a kind of
  handler that is innermost again and again sooner or later goes on (strong fairness for
  each of: the board's poll and chat, the poll of the waiting timer, all others). The
  latter is how Qt's loops work: when the inner loop has ended, the outer one whose reply
  is there ends before it looks for other events. It says nothing of a handler that stays
  below another: the player has to press nothing, nor ever close a box or the dialog;
  nor does a game have to go on. The delayed logins and entries need not go off either.
* **`LibraryGame!Fairness`** is about people: the player keeps naming cards, any card and
  any pile, the refused ones included. Nobody has to leave.

## 5. What is proved

About one game, for every deck, hand size, trick and number of seats that satisfies
`TableAssumption` and `DealAssumption`:

**`GameSession_proofs`.** `CardConservation` is not inductive: that a card played
leaves no copy needs hands that hold only real cards, that a refill draws for a
seated player needs the turn to be in range, and this needs two players or more.
`TableInv` is the conjunction `TypeOK /\ Opened /\ Seated /\ CardConservation /\
NoEmptyHandWhileDeck`, and `TableInvariant` shows it holds always, one lemma per
action. `TypeCorrect`, `CardsConserved` and `HandsKeptFull` follow. Lemmas about the
table (`DealtHands`, `DrawnCards`, `HandSizeType`, ...) are stated once.

`RefereeComplete`, in the same module: no running game shows a blocked player below
the minimum. The step has one case per handler that can block: `PlayCardEnds`,
`EndTurnEnds`, and `DealtFree` for a deal, which blocks nobody because each first
hand has a card above the ascending foundation. `PlayNeverWaitsForNobody` follows.
`OutcomeInvariant` carries the results about defeats and the
statistics: `LossesAreReal`, `LedgerOnce`, `LedgerTruthful`.

**`CoopGame_proofs`.** One lemma per action maps it to the abstract step
(`JoinIsSit`, `PlayIsPlace`, `EndTurnIsPass`, ...), under `TableInv` and the fact that
nothing is placed before the deal. `SessionImplementsCoopGame` collects them;
`WinsArePlaced`, `FinishedStays` and `HandsArePrivate` state what follows in the words
of the session (`WonByPlacing`, `FinishedIsFinal`, `OthersHandsUntouched`): the win comes
with the last card out, a finished game never changes, and a hand changes only by its
owner in turn. TLC checks no run of these three.

About the registry and its database, for any number of users, seats, games, errors
and restarts:

**`SessionStore_proofs`.** `StoreInv` has four parts, none of them inductive alone.
`TypeInv` says which values memory and database can hold, and of a saving under way
that its game is finished, its seat a user's, and that there is an entry in the history
before the totals are touched (without a row the exception of `SavePlayerStats` has ended
it); that ids and rows stay within bounds is what the errors pay for. `CountInv` is the
reason for `CountedAtMostOnce`: `CountedAtMostOnce` itself is broken by a step from a
state in which a saving has more seats ahead than users are owed, so the invariant
counts the seats *ahead* of the saving: what a user has been credited and what is still
ahead is never more than what is `due`, and equal to it until something fails. Equality
gives `CountedUnlessDisturbed`. `StepInv` says how memory and database run in step until
something fails; `OwnRowUntilDisturbed` follows. `RecordedBeforeCounted` needs of `TypeInv`
that a saving which has got to the totals has its entry in place. `FirstOutcomeStands` needs no
invariant but the types: only a row that waits is
finished. `ScoreInv` adds that the totals add up and the score is the one of the
win rate: `ScoreOfWinRate`, which no run checks, says that the penalties for cards left are
never reached, and `ScoreFollows` needs it. The two theorems assume
`FullHand < 10`: the code's hands have 8 cards at most (`GameTable.cpp`), and the penalty
starts at an average of 10. Averages of cards left are sums over the entries of a user;
that such a sum is at most `FullHand` times its entries is `SumAtMost`.

About the chat, for any number of clients, seats, games, messages, restarts and inserts
that fail, and any length of a reply:

**`Chat_proofs`.** `SeatIsOwn` is not inductive: a seat is new only if every seat of this
life has an index below the number taken, and if no seat is of a life to come (`SeatInv`).
`ShownInOrder` and `OwnIdsOnly` are about lists built by folding replies over what was
shown. `BoardInv` says that a board is in order, that `lastMessageId` is not behind any
message it lists, and that it lists messages of ids its reader has been in;
`PollInv` that a reply under way holds only messages of the game it was about,
and `BeenInv` that its client has had a seat there. That a fold keeps this
(`FoldKeeps`) is proved by unrolling it as a function on sets of positions.
`ChatInvariant` collects one lemma per part, each with a case per action; four theorems
follow.

About the client, for any number of games and stages, presses and delayed starts, and stacks
of any depth:

**`Client_proofs`.** `OneDialog` needs to know that the dialog lies on the handler whose
poll opened it and that `dialogMade` is set while it is open or closed but not returned
(`WellStacked`, `StackInv`): otherwise what returns under a dialog could leave two.
`BoardOnlyAfterStart` needs that every handler that polls asks about a game of the
player's own and will not be told a stage its game has not reached (`Sound`), and that
the same goes for the snapshot, which a failed poll falls back on (`GameInv`).
`GreetsWhoJoins` is strengthened to hold in mid-login: the name is that of the last
switch to the lobby under way, if there is one, though which login that is
depends on the order of the replies (`GreetInv`). The bound on the depth of nested event loops
in `TypeOK` is the hardest: `LoadInv` weighs the handlers. A press pays 2, and every request or switch to the lobby that is
pending costs 2. A login costs 2, since its reply may leave such a switch behind; a create or
a join costs 2, since it ends with a poll and a timer whose handler may lie above it; a box
costs 2, since one that asks for an id may end in a join; other
requests cost 1. The handler that a running waiting timer can still open is counted although it
is not there. The dialog and the board's handler cost nothing: there is one of each, and they
are paid for by the first lobby, before which there are none (`BeforeLobby`). `LoadStep`
goes through every action.

About authentication and the rate limiter, for any number of threads, names, passwords,
addresses and requests, any `MaxTokens` and `RefillInterval`:

**`Auth_proofs`.** `OneRowPerName` is inductive, since a row is only appended for a name
that has none at that moment. `TokensAreEarned` is not: `AuthInv` adds that a handler
about to enter a token has `Earned` it already, which registration gets from the row it
has just appended and login from the row it has read, and which lasts because rows
are never changed. `AuthInvariant` has one lemma per action; `NamesAreUnique` and
`TokensEarned` follow. `AuthTypes` needs, for the bounds on rows, that every request
has a number of its own and pays for at most one row (`NumbersInv`).
`LimiterInv` says what the tokens of an address tell: the missing ones are the requests
let through since the refill, the first of which made it, and those that are
recent from before the refill are fewer than `MaxTokens`, since the one that made the
refill before is no longer recent. A restart hands out `MaxTokens` anew before the interval has
passed, so the count is kept for every span that reaches back to the refill (`Kept`), with
`MaxTokens` more for each restart in it. `LimitSlides` and `RefusalsAreDue` follow.

About the library, for every deck, hand size and number of players that satisfies
`LibraryAssumption` (one hand is less than the deck):

**`LibraryGame_proofs`.** `CardsAccounted` and `HandOwesRefused` lean on each other and on
what the deal gave: that a card which is drawn finds room needs hands within the limit
(`HandsFit`), that the deal is a full hand for the first player needs the deck to be
whole before it (`Untouched`). `LibraryInv` is their conjunction with the types;
`LibraryInvariant` shows it holds always, with one lemma per action and one for each
outcome of a play (`PlacedInv`, `RefusedInv`). `LibraryTyped`, `LibraryConserves` and
`RefusalsAreOwed` follow. `OnlySoloWins` (a game that is won has one player) follows too, from `SecondHolds`: a second player is
dealt at least one card, since one hand does not take the whole deck, and keeps it for good.

**`DataLemmas`.** Induction over numbers and over subsets (`AllNumbers`, `AllSubsets`) is
proved from least elements (`LeastNumber`): the property goes in as a set, not as an
operator, which is what the prover can instantiate. `SubsetRecursion` shows that a function
defined by recursion on subsets exists, for any choice of the element to remove.
With it the sums and folds of the community modules, which are `CHOOSE`n recursive
functions, satisfy their equations (`SumsEquation`, and `FoldRecursion` in `Chat_proofs`), and
sums can be changed at one place, shifted and compared (`SumIncrement`, `SumShifted`,
`SumGrows`, ...).

**Assumptions.** The theorems rest on the `ASSUME`s of the modules (positive sizes, a deal that
does not take the whole deck, `Guest` not a user's name) and, for the two about the score,
on `FullHand < 10`. Nothing else is taken from the values in the configurations; the
bounds on restarts, errors, presses and messages are arbitrary numbers.

**Only model-checked:** the liveness properties `PlayedGameEnds`, `NewestIsShown`,
`WaiterReachesBoard`, `FirstEndIsShown`, `SnapshotSettles` and `SoloIsDecided`, which hold under
fairness and are beyond the prover, and the six runs that expect a violation. The
safety properties of the passing runs are all proved; where TLC checked the inductive
invariants first, it did so on the instances of the runs (`StoreInv` and `ScoreInv`,
`ChatInv` also with a reply of two messages, `ClientInv`, `LimiterInv`).

## 6. Findings

| run | the code | the text |
|---|---|---|
| `failure_ends` | a drained player can neither play nor end the turn, and nobody ends the game | `README.md:61` |
| `waiting_starts` | nothing starts a game that does not fill up | `README.md:95` |
| `history_kept` | ids start over with the process: statistics of a new game overwrite those of an old one | `README.md:79` |
| `chat_passed_over` | the first message of a reply is its newest and hides all older ones | `README.md:67` |
| `login_again` | a login that succeeds leaves the two buttons disabled: after a logout nobody can register, and only the return key logs in | `README.md:87` |
| `team_wins` | the library's program deals to up to four players and lets the first one play, while the win waits for all hands: a team can neither win nor lose | `README.md:5` |

Differences that are plain from the models and have no run of their own:

* The README has a player draw at the end of every turn (`README.md:55`), and `DrawCards`
  says so too (`GameClient.cpp:154`), but a hand is refilled only when it is empty
  (`GameSessionManager.cpp:387`; `Refill` in `GameSession`).
* A defeat is a player who cannot place the minimum (`README.md:61`). The polls declare
  others. Since no running game shows a blocked player below the minimum
  (`RefereeComplete`), *every* defeat that a poll declares (`GameSessionManager.cpp:285`) is
  of a player who has met the minimum and could end the turn.
* The score takes the cards left after lost games into account (`README.md:79`), but the
  penalties start at an average of 10 cards (`DatabaseManager.cpp:390`) and a hand has 8 at
  most: they are dead code, which `ScoreOfWinRate` proves for every history.
* The goal is to place all 98 cards (`README.md:5`); in the library refused cards count
  as gone, so a game is won without them, and an empty pile takes any card where the
  server has foundations of 1 and 100.

## 7. What is not modelled

* The content of a snapshot beyond the stage of its game. The reply to a poll of a game
  left meanwhile is read with the index in the game joined since (`GameClient.cpp:218`),
  so the board may offer a turn that is another's until the next poll; the server
  refuses it.
* In the client: input checks, settings, drawing, and the content of boxes.
* `addPlayerToSession`, `setSessionRunning` and `findBestWaitingSessionForUser`: nothing
  calls them. As a consequence rows never become `Running`, and go from `Waiting` to
  `Finished`.
* Hours played: a sum nothing reads back into a decision.
* `ServerStats`: nothing updates its counters.
* Routes, headers, logging, validation messages, layout and styling: no state.
* `TheGame/`, the console prototype, which the server replaces.
* The libraries whose source is kept in the repository: SQLite (`sqlite3.c`,
  `sqlite_orm.h`), Asio, Crow, JSON. They are most of its lines, and not this program's
  own logic: what the code relies on (a unique column, a foreign key, an insert that
  throws) is part of the actions that rely on it.
