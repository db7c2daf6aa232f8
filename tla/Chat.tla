-------------------------------- MODULE Chat --------------------------------
(***************************************************************************)
(* The chat of the games: ChatHeandler over the chat_messages table, the   *)
(* client's PollChat, and the chat list of its board.  The client waits    *)
(* for a reply in an event loop of its own, in which its player may leave, *)
(* join another game or send: a reply may be about a game that is not the  *)
(* client's any more.  The board's timer is the only one to poll the chat, *)
(* and Qt does not let a timer fire inside its own handler.                *)
(***************************************************************************)
EXTENDS Integers, Sequences, SequencesExt

CONSTANTS
    Clients,
    Readers,      \* bound: clients that poll (boards do not affect each other)
    Limit,        \* messages of a reply (200)
    MaxSeats,     \* most players of a game (5)
    MaxGames,     \* bound: ids given out in one life of the server
    MaxMessages,  \* bound: messages posted
    MaxRestarts,  \* bound: restarts of the server
    MaxFaults     \* bound: inserts of a session row that fail

ASSUME ChatAssumption ==
    /\ Readers \subseteq Clients
    /\ Limit \in Nat \ {0}
    /\ MaxSeats \in Nat \ {0, 1}
    /\ {MaxGames, MaxMessages, MaxRestarts, MaxFaults} \subseteq Nat

VARIABLES
    \* memory of the server
    nextGameId,     \* m_nextGameId
    taken,          \* m_sessions: the seats taken of every game
    \* the database
    rows,           \* how many rows game_sessions has
    messages,       \* chat_messages by id: the game id, and whose game it was
    \* the clients
    seat,           \* m_gameId and m_playerIndex, NoSeat while m_isInGame is false
    poll,           \* the poll under way, Idle if there is none
    lastMessageId,  \* of the board
    chatHistory,    \* the ids on the board, oldest first
    \* not in the code: observation
    life,           \* restarts so far
    faults,         \* failed inserts so far
    been            \* per reader, the games it has had a seat in

server == <<nextGameId, taken, rows, life, faults>>
seats == <<seat, been>>
board == <<lastMessageId, chatHistory>>
vars == <<server, messages, seats, poll, board>>

Ids == 1 .. MaxMessages
GameIds == 1 .. MaxGames
Idle == [stage |-> "idle"]
NoSeat == [game |-> 0]

\* A game as the observer names it: in which life, under which id.
GameOf(s) == <<s.life, s.game>>

TypeOK ==
    /\ nextGameId \in 1 .. (MaxGames + 1)
    /\ DOMAIN taken \subseteq 1 .. (nextGameId - 1)
    /\ \A g \in DOMAIN taken : taken[g] \in 0 .. MaxSeats
    /\ Len(messages) <= MaxMessages
    /\ \A m \in DOMAIN messages : messages[m][2] \in 1 .. rows
    /\ \A c \in Clients :
          /\ seat[c] # NoSeat => seat[c].game \in GameIds /\ seat[c].index \in 0 .. (MaxSeats - 1)
          /\ poll[c] # Idle => \A m \in ToSet(poll[c].reply) : messages[m][2] = poll[c].game
          /\ chatHistory[c] = <<>> => lastMessageId[c] = 0
          /\ chatHistory[c] # <<>> => Last(chatHistory[c]) = lastMessageId[c]

Init ==
    /\ nextGameId = 1
    /\ taken = <<>>
    /\ rows = 0
    /\ messages = <<>>
    /\ seat = [c \in Clients |-> NoSeat]
    /\ poll = [c \in Clients |-> Idle]
    /\ lastMessageId = [c \in Clients |-> 0]
    /\ chatHistory = [c \in Clients |-> <<>>]
    /\ life = 0
    /\ faults = 0
    /\ been = [c \in Readers |-> {}]

-----------------------------------------------------------------------------
\* The first of the two requests of the client's CreateGame: until the second
\* the game has no player.  An insert that fails throws after the id was taken.
CreateGame ==
    /\ nextGameId <= MaxGames
    /\ nextGameId' = nextGameId + 1
    /\ \/ /\ rows' = rows + 1
          /\ taken' = [g \in DOMAIN taken \cup {nextGameId} |->
                          IF g = nextGameId THEN 0 ELSE taken[g]]
          /\ UNCHANGED faults
       \/ /\ faults < MaxFaults
          /\ faults' = faults + 1
          /\ UNCHANGED <<rows, taken>>
    /\ UNCHANGED <<messages, seats, poll, board, life>>

\* The sessions and the counter are gone, the database is as it was, and the
\* clients do not notice.
Restart ==
    /\ life < MaxRestarts
    /\ life' = life + 1
    /\ nextGameId' = 1
    /\ taken' = <<>>
    /\ UNCHANGED <<rows, faults, messages, seats, poll, board>>

\* Variant: the index of the reply is the number of players.
IndexAfterJoin(g) == taken[g] + 1

\* playerIndex of the reply.
PlayerIndex(g) == taken[g]

\* The server gives a seat of a game that is not full, and nothing asks
\* whether the client has one already.  A join whose reply is lost leaves the
\* same behind as one that is followed by LeaveGame.
JoinGame(c, g) ==
    /\ g \in DOMAIN taken /\ taken[g] < MaxSeats
    /\ taken' = [taken EXCEPT ![g] = @ + 1]
    /\ seat' = [seat EXCEPT ![c] = [life |-> life, game |-> g, index |-> PlayerIndex(g)]]
    /\ been' = [d \in Readers |-> IF d = c THEN been[d] \cup {<<life, g>>} ELSE been[d]]
    /\ UNCHANGED <<nextGameId, rows, life, faults, messages, poll, board>>

\* The server is not told, neither the list nor lastMessageId is reset, and a
\* poll under way goes on.
LeaveGame(c) ==
    /\ seat[c] # NoSeat
    /\ seat' = [seat EXCEPT ![c] = NoSeat]
    /\ UNCHANGED <<server, messages, been, poll, board>>

\* SendChat and PostMessage: the insert breaks the foreign key if no row has
\* the id, and the client does not look at the answer.
SendChat(c) ==
    /\ seat[c] # NoSeat
    /\ seat[c].game <= rows
    /\ Len(messages) < MaxMessages
    /\ messages' = Append(messages, GameOf(seat[c]))
    /\ UNCHANGED <<server, seats, poll, board>>

PollChat(c) ==
    /\ c \in Readers
    /\ seat[c] # NoSeat
    /\ poll[c] = Idle
    /\ poll' = [poll EXCEPT ![c] = [stage |-> "asked", game |-> seat[c].game, reply |-> <<>>]]
    /\ UNCHANGED <<server, messages, seats, board>>

\* Variant: the reply is not restricted to the game.
AllIds(g) == [m \in 1 .. Len(messages) |-> m]

IdsOf(g) ==
    FoldLeft(LAMBDA ids, m : IF messages[m][2] = g THEN Append(ids, m) ELSE ids,
             <<>>, [m \in 1 .. Len(messages) |-> m])

\* Variant: the oldest messages first.
OldestMessages(g) == SubSeq(IdsOf(g), 1, IF Len(IdsOf(g)) < Limit THEN Len(IdsOf(g)) ELSE Limit)

\* getChatMessages: the newest messages of the game, newest first.
GetMessages(g) ==
    LET newestFirst == Reverse(IdsOf(g))
    IN  SubSeq(newestFirst, 1, IF Len(newestFirst) < Limit THEN Len(newestFirst) ELSE Limit)

ServerAnswers(c) ==
    /\ poll[c] # Idle
    /\ poll[c].stage = "asked"
    /\ poll' = [poll EXCEPT ![c] = [stage |-> "answered", game |-> poll[c].game,
                                   reply |-> GetMessages(poll[c].game)]]
    /\ UNCHANGED <<server, messages, seats, board>>

\* No answer, or one that is not 200: nothing is shown.
PollFails(c) ==
    /\ poll[c] # Idle
    /\ poll' = [poll EXCEPT ![c] = Idle]
    /\ UNCHANGED <<server, messages, seats, board>>

\* Variants: the id of every message is taken over, shown or not; messages that
\* were shown already are shown again.
ShowAndFollow(seen, m) ==
    [last |-> m, list |-> IF m > seen.last THEN Append(seen.list, m) ELSE seen.list]

ShowAll(seen, m) ==
    [last |-> IF m > seen.last THEN m ELSE seen.last, list |-> Append(seen.list, m)]

\* The body of onChatUpdated's loop.
Show(seen, m) ==
    IF m > seen.last THEN [last |-> m, list |-> Append(seen.list, m)] ELSE seen

OnChatUpdated(c) ==
    /\ poll[c] # Idle
    /\ poll[c].stage = "answered"
    /\ LET seen == FoldLeft(Show, [last |-> lastMessageId[c], list |-> chatHistory[c]],
                            poll[c].reply)
       IN  /\ lastMessageId' = [lastMessageId EXCEPT ![c] = seen.last]
           /\ chatHistory' = [chatHistory EXCEPT ![c] = seen.list]
    /\ poll' = [poll EXCEPT ![c] = Idle]
    /\ UNCHANGED <<server, messages, seats>>

Next ==
    \/ CreateGame
    \/ Restart
    \/ \E c \in Clients :
         \/ \E g \in GameIds : JoinGame(c, g)
         \/ LeaveGame(c)
         \/ SendChat(c)
         \/ PollChat(c)
         \/ ServerAnswers(c)
         \/ PollFails(c)
         \/ OnChatUpdated(c)

\* The timer fires every second and not every poll fails: of those that are
\* sent one is answered and of those answered one is shown.  A box on top of a
\* poll holds up its reply; that the player closes it is assumed.
Fairness ==
    \A c \in Readers :
        WF_vars(PollChat(c)) /\ SF_vars(ServerAnswers(c)) /\ SF_vars(OnChatUpdated(c))

Spec == Init /\ [][Next]_vars /\ Fairness

-----------------------------------------------------------------------------
ToRead(c, m) == m <= Len(messages) /\ messages[m][2] = seat[c].game

\* A board lists messages in the order they were sent and none twice, though
\* every reply repeats what was shown and may be about a game it was in before.
ShownInOrder ==
    \A c \in Clients : \A k \in 2 .. Len(chatHistory[c]) :
        chatHistory[c][k - 1] < chatHistory[c][k]

\* A board, which is never cleared, lists only messages sent under an id that
\* its player has had a seat under: messages of its own games, and of games of
\* other lives of the server that have the id of one of them.
OwnIdsOnly ==
    \A c \in Readers : \A m \in ToSet(chatHistory[c]) :
        \E g \in been[c] : g[2] = messages[m][2]

\* A seat of a running server is one client's: no other has the index, and the
\* game a client polls and sends to has the seat, hence a first player whose
\* name GetGameState may read.  Only a client left over from an earlier life
\* can address somebody else's seat, or a game nobody has joined.
SeatIsOwn ==
    \A c \in Clients : seat[c] # NoSeat =>
        \/ seat[c].life # life
        \/ /\ seat[c].game \in DOMAIN taken /\ seat[c].index < taken[seat[c].game]
           /\ \A d \in Clients \ {c} : seat[d] # seat[c]

IsNewest(c, m) == ToRead(c, m) /\ \A n \in (m + 1) .. Len(messages) : ~ToRead(c, n)

Overtaken(c, m) ==
    \/ lastMessageId[c] >= m
    \/ poll[c] # Idle /\ poll[c].game # seat[c].game

\* The newest message of a game is shown to a player who stays in it, until a
\* newer one follows, however many messages the game has and however often the
\* server starts anew.  It must not have been overtaken by a message of another
\* game of the player, shown before or in a reply still under way:
\* lastMessageId is kept over games, and what is below it is never shown.
NewestIsShown ==
    \A c \in Readers, m \in Ids :
        (IsNewest(c, m) /\ ~Overtaken(c, m)) ~> (m \in ToSet(chatHistory[c]) \/ ~IsNewest(c, m))

\* README.md:67, "Players can communicate via chat": a board does not get ahead
\* of a message of the game it is in without having listed it.
NoMessagePassedOver ==
    \A c \in Readers, m \in Ids :
        ToRead(c, m) /\ m <= lastMessageId[c] => m \in ToSet(chatHistory[c])
=============================================================================
