----------------------------- MODULE Chat_proofs -----------------------------
(***************************************************************************)
(* Proofs about the chat.  The boards and the replies are folds over       *)
(* sequences: a fold is a recursive function on the subsets of the         *)
(* positions, so what every step keeps the fold keeps.                     *)
(***************************************************************************)
EXTENDS Chat, DataLemmas

\* Max, by which a fold from the left finds the last position of a set.
LEMMA MaxIsIn ==
    ASSUME NEW N \in Nat, NEW s \in SUBSET (1 .. N), s # {}
    PROVE  Max(s) \in s
  BY GreatestNumber DEF Max

FoldsBy(it, N, base, step) ==
    \A s \in SUBSET (1 .. N) :
        it[s] = IF s = {} THEN base ELSE step[<<s, it[s \ {Max(s)}]>>]

LEMMA FoldRecursion ==
    ASSUME NEW N \in Nat, NEW V, NEW base \in V,
           NEW step \in [(SUBSET (1 .. N)) \X V -> V]
    PROVE  \E it \in [SUBSET (1 .. N) -> V] : FoldsBy(it, N, base, step)
  <1> DEFINE pick == [s \in SUBSET (1 .. N) |-> Max(s)]
  <1>1. \A s \in SUBSET (1 .. N) : s # {} => pick[s] \in s
    BY MaxIsIn
  <1>2. IsFiniteSet(1 .. N)
    BY FS_Interval
  <1> HIDE DEF pick
  <1>3. PICK it \in [SUBSET (1 .. N) -> V] : Recursive(it, 1 .. N, base, pick, step)
    BY <1>1, <1>2, SubsetRecursion
  <1> QED
    BY <1>3 DEF Recursive, FoldsBy, pick

\* An invariant of such a function: what base has and every step keeps.
LEMMA FoldKeeps ==
    ASSUME NEW N \in Nat, NEW V, NEW it,
           \A s \in SUBSET (1 .. N) :
              (s # {} => it[s \ {Max(s)}] \in V) => it[s] \in V
    PROVE  it[1 .. N] \in V
  <1> DEFINE C == {s \in SUBSET (1 .. N) : it[s] \in V}
  <1>1. ASSUME NEW s \in SUBSET (1 .. N), \A x \in s : s \ {x} \in C
        PROVE  s \in C
    <2>1. s # {} => Max(s) \in s
      BY MaxIsIn
    <2> QED
      BY <1>1, <2>1
  <1>2. IsFiniteSet(1 .. N)
    BY FS_Interval
  <1>3. 1 .. N \in C
    <2> DEFINE S == 1 .. N
    <2> HIDE DEF C, S
    <2>1. /\ IsFiniteSet(S)
          /\ \A s \in SUBSET S : (\A x \in s : s \ {x} \in C) => s \in C
      BY <1>1, <1>2 DEF S
    <2>2. S \in C
      BY <2>1, AllSubsets
    <2> QED
      BY <2>2 DEF S
  <1> QED
    BY <1>3

-----------------------------------------------------------------------------
\* What a board can list of the messages M, and how far it says it is.
Increasing(s) == \A k \in 2 .. Len(s) : s[k - 1] < s[k]

Boards(M) ==
    {seen \in [last : Nat, list : Seq(M)] :
        /\ Increasing(seen.list)
        /\ seen.list = <<>> => seen.last = 0
        /\ seen.list # <<>> => Last(seen.list) = seen.last}

LEMMA ShowKeepsBoards ==
    ASSUME NEW M \in SUBSET Nat, NEW seen \in Boards(M), NEW m \in M
    PROVE  Show(seen, m) \in Boards(M)
  <1>1. CASE m > seen.last
    <2> DEFINE new == Append(seen.list, m)
    <2>1. /\ seen.list \in Seq(M) /\ seen.last \in Nat /\ Increasing(seen.list)
          /\ seen.list # <<>> => seen.list[Len(seen.list)] = seen.last
      BY DEF Boards, Last
    <2>2. /\ new \in Seq(M) /\ Len(new) = Len(seen.list) + 1 /\ new # <<>>
          /\ new[Len(new)] = m
          /\ \A k \in 1 .. Len(seen.list) : new[k] = seen.list[k]
      BY <2>1
    <2>3. Increasing(new)
      <3> SUFFICES ASSUME NEW k \in 2 .. Len(new) PROVE new[k - 1] < new[k]
        BY DEF Increasing
      <3>1. CASE k = Len(new)
        BY <1>1, <2>1, <2>2, <3>1
      <3>2. CASE k # Len(new)
        <4>1. k \in 2 .. Len(seen.list) /\ k - 1 \in 1 .. Len(seen.list)
          BY <2>1, <2>2, <3>2
        <4> HIDE DEF new
        <4> QED
          BY <2>1, <2>2, <4>1 DEF Increasing
      <3> QED
        BY <3>1, <3>2
    <2> HIDE DEF new
    <2>4. Show(seen, m) = [last |-> m, list |-> new]
      BY <1>1 DEF Show, new
    <2> QED
      BY <2>2, <2>3, <2>4 DEF Boards, Last
  <1>2. CASE ~(m > seen.last)
    BY <1>2 DEF Show
  <1> QED
    BY <1>1, <1>2

IsShown(it, base, seq) ==
    it = [s \in SUBSET (DOMAIN seq) |->
             IF s = {} THEN base ELSE Show(it[s \ {Max(s)}], seq[Max(s)])]

LEMMA ShownIs ==
    ASSUME NEW base, NEW seq
    PROVE  FoldLeft(Show, base, seq) = (CHOOSE it : IsShown(it, base, seq))[DOMAIN seq]
  BY Zenon DEF FoldLeft, MapThenFoldSet, IsShown

\* A reply shown on a board leaves a board.
LEMMA ShownIsBoard ==
    ASSUME NEW M \in SUBSET Nat, NEW base \in Boards(M), NEW seq \in Seq(M)
    PROVE  FoldLeft(Show, base, seq) \in Boards(M)
  <1> DEFINE N == Len(seq)
             step == [p \in (SUBSET (1 .. N)) \X Boards(M) |->
                         IF p[1] = {} THEN base ELSE Show(p[2], seq[Max(p[1])])]
  <1>0. N \in Nat /\ DOMAIN seq = 1 .. N /\ \A i \in 1 .. N : seq[i] \in M
    OBVIOUS
  <1> HIDE DEF N
  <1>1. \A s \in SUBSET (1 .. N), b \in Boards(M) :
           s # {} => Show(b, seq[Max(s)]) \in Boards(M)
    BY <1>0, MaxIsIn, ShowKeepsBoards
  <1>2. step \in [(SUBSET (1 .. N)) \X Boards(M) -> Boards(M)]
    BY <1>1
  <1>3. \E it : IsShown(it, base, seq)
    <2>1. PICK it \in [SUBSET (1 .. N) -> Boards(M)] : FoldsBy(it, N, base, step)
      <3> HIDE DEF step
      <3> QED
        BY <1>0, <1>2, FoldRecursion
    <2>2. ASSUME NEW s \in SUBSET (1 .. N)
          PROVE  it[s] = IF s = {} THEN base ELSE Show(it[s \ {Max(s)}], seq[Max(s)])
      <3>1. it[s \ {Max(s)}] \in Boards(M)
        OBVIOUS
      <3> QED
        BY <2>1, <3>1 DEF FoldsBy
    <2>3. it = [s \in SUBSET (1 .. N) |->
                   IF s = {} THEN base ELSE Show(it[s \ {Max(s)}], seq[Max(s)])]
      BY <2>2
    <2> QED
      BY <1>0, <2>3 DEF IsShown
  <1>4. PICK it : IsShown(it, base, seq) /\ FoldLeft(Show, base, seq) = it[1 .. N]
    BY <1>0, <1>3, ShownIs
  <1>5. ASSUME NEW s \in SUBSET (1 .. N), s # {} => it[s \ {Max(s)}] \in Boards(M)
        PROVE  it[s] \in Boards(M)
    <2>1. it[s] = IF s = {} THEN base ELSE Show(it[s \ {Max(s)}], seq[Max(s)])
      BY <1>0, <1>4 DEF IsShown
    <2> QED
      BY <1>1, <1>5, <2>1
  <1>6. it[1 .. N] \in Boards(M)
    BY <1>0, <1>5, FoldKeeps
  <1> QED
    BY <1>4, <1>6

-----------------------------------------------------------------------------
\* The messages of a game.
MessagesOf(ms, g) == {m \in DOMAIN ms : ms[m][2] = g}

IdsStep(ids, m, g) == IF messages[m][2] = g THEN Append(ids, m) ELSE ids

IsIds(it, g, seq) ==
    it = [s \in SUBSET (DOMAIN seq) |->
             IF s = {} THEN <<>> ELSE IdsStep(it[s \ {Max(s)}], seq[Max(s)], g)]

LEMMA IdsAre ==
    ASSUME NEW g
    PROVE  LET seq == [m \in 1 .. Len(messages) |-> m]
           IN  IdsOf(g) = (CHOOSE it : IsIds(it, g, seq))[DOMAIN seq]
  BY Zenon DEF IdsOf, FoldLeft, MapThenFoldSet, IsIds, IdsStep

\* The ids a game is asked for are those of its own messages.
LEMMA IdsOfGame ==
    ASSUME NEW g, Len(messages) \in Nat, DOMAIN messages = 1 .. Len(messages)
    PROVE  IdsOf(g) \in Seq(MessagesOf(messages, g))
  <1> DEFINE N == Len(messages)
             V == Seq(MessagesOf(messages, g))
             seq == [m \in 1 .. N |-> m]
             step == [p \in (SUBSET (1 .. N)) \X V |->
                         IF p[1] = {} THEN <<>> ELSE IdsStep(p[2], Max(p[1]), g)]
  <1>0. N \in Nat /\ DOMAIN seq = 1 .. N /\ <<>> \in V
    OBVIOUS
  <1>1. \A s \in SUBSET (1 .. N), ids \in V :
           s # {} => Max(s) \in 1 .. N /\ IdsStep(ids, Max(s), g) \in V
    <2> SUFFICES ASSUME NEW s \in SUBSET (1 .. N), NEW ids \in V, s # {}
                 PROVE  Max(s) \in 1 .. N /\ IdsStep(ids, Max(s), g) \in V
      OBVIOUS
    <2>1. Max(s) \in 1 .. N
      BY <1>0, MaxIsIn
    <2>2. messages[Max(s)][2] = g => Max(s) \in MessagesOf(messages, g)
      BY <2>1 DEF MessagesOf
    <2> QED
      BY <2>1, <2>2 DEF IdsStep
  <1>2. step \in [(SUBSET (1 .. N)) \X V -> V]
    <2> HIDE DEF V
    <2> QED
      BY <1>0, <1>1
  <1>3. \E it : IsIds(it, g, seq)
    <2>1. PICK it \in [SUBSET (1 .. N) -> V] : FoldsBy(it, N, <<>>, step)
      <3> HIDE DEF N, V, step
      <3> QED
        BY <1>0, <1>2, FoldRecursion
    <2>2. ASSUME NEW s \in SUBSET (1 .. N)
          PROVE  it[s] = IF s = {} THEN <<>> ELSE IdsStep(it[s \ {Max(s)}], seq[Max(s)], g)
      <3>1. it[s \ {Max(s)}] \in V
        OBVIOUS
      <3> HIDE DEF V
      <3>2. it[s] = IF s = {} THEN <<>> ELSE step[<<s, it[s \ {Max(s)}]>>]
        BY <2>1 DEF FoldsBy
      <3>3. s # {} => step[<<s, it[s \ {Max(s)}]>>] = IdsStep(it[s \ {Max(s)}], Max(s), g)
        BY <3>1
      <3> QED
        BY <1>1, <3>1, <3>2, <3>3
    <2>3. it = [s \in SUBSET (1 .. N) |->
                   IF s = {} THEN <<>> ELSE IdsStep(it[s \ {Max(s)}], seq[Max(s)], g)]
      <3> HIDE DEF N, V, seq
      <3> QED
        BY <2>2
    <2> HIDE DEF seq, N
    <2> QED
      BY <1>0, <2>3 DEF IsIds
  <1>4. PICK it : IsIds(it, g, seq) /\ IdsOf(g) = it[1 .. N]
    <2>1. IdsOf(g) = (CHOOSE it : IsIds(it, g, seq))[DOMAIN seq]
      BY IdsAre
    <2> HIDE DEF seq
    <2> QED
      BY <1>0, <1>3, <2>1
  <1>5. ASSUME NEW s \in SUBSET (1 .. N), s # {} => it[s \ {Max(s)}] \in V
        PROVE  it[s] \in V
    <2>1. it[s] = IF s = {} THEN <<>> ELSE IdsStep(it[s \ {Max(s)}], seq[Max(s)], g)
      BY <1>4, Zenon DEF IsIds
    <2> HIDE DEF V
    <2> QED
      BY <1>0, <1>1, <1>5, <2>1
  <1>6. it[1 .. N] \in V
    <2> HIDE DEF N, V
    <2> QED
      BY <1>0, <1>5, FoldKeeps
  <1> QED
    BY <1>4, <1>6

\* A reply lists messages of the game it was asked about.
LEMMA RepliesOfGame ==
    ASSUME NEW g, Len(messages) \in Nat, DOMAIN messages = 1 .. Len(messages), Limit \in Nat
    PROVE  GetMessages(g) \in Seq(MessagesOf(messages, g))
  <1> DEFINE ids == IdsOf(g)
             newestFirst == Reverse(ids)
  <1>1. ids \in Seq(MessagesOf(messages, g))
    BY IdsOfGame
  <1> HIDE DEF ids
  <1>2. newestFirst \in Seq(MessagesOf(messages, g))
    BY <1>1 DEF Reverse
  <1> HIDE DEF newestFirst
  <1>3. \A n \in Nat : n <= Len(newestFirst) => SubSeq(newestFirst, 1, n) \in Seq(MessagesOf(messages, g))
    BY <1>2
  <1> QED
    BY <1>2, <1>3 DEF GetMessages, newestFirst, ids
-----------------------------------------------------------------------------
Games == Nat \X GameIds
Seats == [life : Nat, game : GameIds, index : 0 .. (MaxSeats - 1)]
Polls == [stage : {"asked", "answered"}, game : GameIds, reply : Seq(Nat)]

\* Ids are given out in order, seats counted, and a message goes to a row.
ServerInv ==
    /\ nextGameId \in 1 .. (MaxGames + 1)
    /\ DOMAIN taken \subseteq 1 .. (nextGameId - 1)
    /\ taken \in [DOMAIN taken -> 0 .. MaxSeats]
    /\ rows \in Nat /\ life \in Nat
    /\ messages \in Seq(Games)
    /\ Len(messages) <= MaxMessages
    /\ \A m \in DOMAIN messages : messages[m][2] \in 1 .. rows

\* A seat of the running server is counted, and nobody else's.
SeatInv ==
    /\ seat \in [Clients -> {NoSeat} \cup Seats]
    /\ \A c \in Clients : seat[c] # NoSeat /\ seat[c].life = life =>
          seat[c].game \in DOMAIN taken /\ seat[c].index < taken[seat[c].game]
    /\ \A c, d \in Clients : c # d /\ seat[c] # NoSeat /\ seat[c].life = life =>
          seat[d] # seat[c]
    /\ \A c \in Clients : seat[c] # NoSeat => seat[c].life <= life

\* Of every game its client is in or polls it has been a player.
BeenInv ==
    /\ been \in [Readers -> SUBSET Games]
    /\ \A c \in Readers : seat[c] # NoSeat => GameOf(seat[c]) \in been[c]
    /\ \A c \in Readers : poll[c] # Idle => \E g \in been[c] : g[2] = poll[c].game

PollInv ==
    /\ poll \in [Clients -> {Idle} \cup Polls]
    /\ \A c \in Clients : poll[c] # Idle =>
          c \in Readers /\ poll[c].reply \in Seq(MessagesOf(messages, poll[c].game))

\* The messages a client may have been shown.
OwnMessages(c) ==
    {m \in DOMAIN messages : c \in Readers => \E g \in been[c] : g[2] = messages[m][2]}

Board(c) == [last |-> lastMessageId[c], list |-> chatHistory[c]]

BoardInv ==
    /\ lastMessageId \in [Clients -> Nat]
    /\ chatHistory \in [Clients -> Seq(Nat)]
    /\ \A c \in Clients : Board(c) \in Boards(OwnMessages(c))

ChatInv == ServerInv /\ SeatInv /\ BeenInv /\ PollInv /\ BoardInv

\* Seats and polls are not mistaken for their absence.
LEMMA Present ==
    /\ \A s \in Seats : s # NoSeat
    /\ \A p \in Polls : p # Idle
  <1>1. \A s \in Seats : s # NoSeat
    BY ChatAssumption DEF Seats, NoSeat, GameIds
  <1>2. \A p \in Polls : p # Idle
    BY DEF Polls, Idle
  <1> QED
    BY <1>1, <1>2

LEMMA MoreToList ==
    ASSUME NEW M, NEW L, M \subseteq L
    PROVE  Boards(M) \subseteq Boards(L) /\ Seq(M) \subseteq Seq(L)
  <1>1. Seq(M) \subseteq Seq(L)
    OBVIOUS
  <1> QED
    BY <1>1 DEF Boards

LEMMA ChatInit == Init => ChatInv
  <1> SUFFICES ASSUME Init PROVE ChatInv
    OBVIOUS
  <1> USE DEF Init
  <1>1. ServerInv
    BY ChatAssumption DEF ServerInv
  <1>2. SeatInv
    BY DEF SeatInv
  <1>3. BeenInv
    BY ChatAssumption DEF BeenInv
  <1>4. PollInv
    BY DEF PollInv
  <1>5. BoardInv
    BY DEF BoardInv, Board, Boards, Increasing
  <1> QED
    BY <1>1, <1>2, <1>3, <1>4, <1>5 DEF ChatInv

LEMMA ServerStep == ServerInv /\ SeatInv /\ [Next]_vars => ServerInv'
  <1> SUFFICES ASSUME ServerInv, SeatInv, [Next]_vars PROVE ServerInv'
    OBVIOUS
  <1> USE ChatAssumption DEF ServerInv, seats, board, server, GameIds
  <1>1. CASE CreateGame
    <2>1. /\ nextGameId <= MaxGames /\ nextGameId' = nextGameId + 1
          /\ UNCHANGED <<messages, life>>
      BY <1>1 DEF CreateGame
    <2>2. CASE UNCHANGED <<rows, taken>>
      BY <2>1, <2>2
    <2>3. CASE /\ rows' = rows + 1
               /\ taken' = [g \in DOMAIN taken \cup {nextGameId} |->
                               IF g = nextGameId THEN 0 ELSE taken[g]]
      <3>1. /\ DOMAIN taken' \subseteq 1 .. (nextGameId' - 1)
            /\ taken' \in [DOMAIN taken' -> 0 .. MaxSeats]
        BY <2>1, <2>3
      <3>2. rows' \in Nat /\ \A m \in DOMAIN messages' : messages'[m][2] \in 1 .. rows'
        BY <2>1, <2>3
      <3> QED
        BY <2>1, <3>1, <3>2
    <2> QED
      BY <1>1, <2>2, <2>3 DEF CreateGame
  <1>2. CASE Restart
    BY <1>2 DEF Restart
  <1>3. ASSUME NEW c \in Clients, NEW g \in GameIds, JoinGame(c, g) PROVE ServerInv'
    BY <1>3 DEF JoinGame
  <1>4. ASSUME NEW c \in Clients, SendChat(c) PROVE ServerInv'
    <2>1. GameOf(seat[c]) \in Games /\ GameOf(seat[c])[2] \in 1 .. rows
      BY <1>4 DEF SendChat, SeatInv, Seats, Games, GameOf
    <2>2. /\ messages' = Append(messages, GameOf(seat[c])) /\ Len(messages) < MaxMessages
          /\ UNCHANGED <<nextGameId, taken, rows, life>>
      BY <1>4 DEF SendChat
    <2>3. /\ messages' \in Seq(Games) /\ Len(messages') <= MaxMessages
          /\ \A m \in DOMAIN messages' : messages'[m][2] \in 1 .. rows
      BY <2>1, <2>2
    <2> QED
      BY <2>2, <2>3
  <1>5. ASSUME NEW c \in Clients,
               LeaveGame(c) \/ PollChat(c) \/ ServerAnswers(c) \/ PollFails(c) \/ OnChatUpdated(c)
        PROVE  ServerInv'
    BY <1>5 DEF LeaveGame, PollChat, ServerAnswers, PollFails, OnChatUpdated
  <1>6. CASE UNCHANGED vars
    BY <1>6 DEF vars
  <1> QED
    BY <1>1, <1>2, <1>3, <1>4, <1>5, <1>6 DEF Next

LEMMA SeatStep == ServerInv /\ SeatInv /\ [Next]_vars => SeatInv'
  <1> SUFFICES ASSUME ServerInv, SeatInv, [Next]_vars PROVE SeatInv'
    OBVIOUS
  <1> USE DEF SeatInv, seats, board, server
  <1>1. CASE CreateGame
    <2>1. /\ UNCHANGED <<seat, life>> /\ DOMAIN taken \subseteq DOMAIN taken'
          /\ \A g \in DOMAIN taken : taken'[g] = taken[g]
      BY <1>1 DEF CreateGame, ServerInv
    <2> QED
      BY <2>1
  <1>2. CASE Restart
    <2>1. \A c \in Clients : seat[c] # NoSeat => seat[c].life < life' /\ seat[c].life <= life'
      BY <1>2, Present DEF Restart, ServerInv, Seats
    <2> QED
      BY <1>2, <2>1 DEF Restart
  <1>3. ASSUME NEW c \in Clients, NEW g \in GameIds, JoinGame(c, g) PROVE SeatInv'
    <2> DEFINE new == [life |-> life, game |-> g, index |-> taken[g]]
    <2>1. /\ g \in DOMAIN taken /\ taken[g] < MaxSeats /\ life' = life
          /\ taken' = [taken EXCEPT ![g] = @ + 1]
          /\ seat' = [seat EXCEPT ![c] = new]
      BY <1>3 DEF JoinGame, PlayerIndex
    <2>2. new \in Seats /\ new # NoSeat
      BY <2>1, Present, ChatAssumption DEF ServerInv, Seats
    <2>3. /\ new.life = life /\ new.game = g /\ new.index = taken[g]
          /\ life \in Nat /\ taken[g] \in Nat
      BY <2>1 DEF ServerInv
    <2> HIDE DEF new
    <2>4. \A d \in Clients : seat'[d] = IF d = c THEN new ELSE seat[d]
      BY <2>1
    <2>5. DOMAIN taken' = DOMAIN taken /\ \A h \in DOMAIN taken :
              taken'[h] = IF h = g THEN taken[g] + 1 ELSE taken[h]
      BY <2>1 DEF ServerInv
    <2>6. \A d \in Clients : seat[d] # NoSeat /\ seat[d].life = life => seat[d] # new
      BY <2>3
    <2>7. \A d \in Clients : seat[d] = new => FALSE
      BY <2>2, <2>3, <2>6
    <2>8. seat' \in [Clients -> {NoSeat} \cup Seats]
      BY <2>1, <2>2
    <2>9. ASSUME NEW d \in Clients, seat'[d] # NoSeat, seat'[d].life = life
          PROVE  seat'[d].game \in DOMAIN taken' /\ seat'[d].index < taken'[seat'[d].game]
      <3>1. CASE d = c
        BY <2>1, <2>3, <2>4, <2>5, <3>1
      <3>2. CASE d # c
        <4>1. /\ seat'[d] = seat[d] /\ seat[d] \in Seats /\ seat[d].game \in DOMAIN taken
              /\ seat[d].index < taken[seat[d].game]
          BY <2>4, <2>9, <3>2
        <4>2. seat[d].index \in Nat
          BY <4>1 DEF Seats
        <4> QED
          BY <2>3, <2>5, <4>1, <4>2
      <3> QED
        BY <3>1, <3>2
    <2> QED
      BY <2>1, <2>3, <2>4, <2>7, <2>8, <2>9
  <1>4. ASSUME NEW c \in Clients, LeaveGame(c) PROVE SeatInv'
    BY <1>4 DEF LeaveGame
  <1>5. ASSUME NEW c \in Clients,
               SendChat(c) \/ PollChat(c) \/ ServerAnswers(c) \/ PollFails(c) \/ OnChatUpdated(c)
        PROVE  SeatInv'
    BY <1>5 DEF SendChat, PollChat, ServerAnswers, PollFails, OnChatUpdated
  <1>6. CASE UNCHANGED vars
    BY <1>6 DEF vars
  <1> QED
    BY <1>1, <1>2, <1>3, <1>4, <1>5, <1>6 DEF Next

\* Messages are only added, and games only added to what a client has played.
LEMMA NothingForgotten ==
    ASSUME ServerInv, SeatInv, BeenInv, [Next]_vars
    PROVE  /\ \A g : MessagesOf(messages, g) \subseteq MessagesOf(messages', g)
           /\ \A c \in Readers : been[c] \subseteq been'[c]
           /\ \A c \in Clients : OwnMessages(c) \subseteq OwnMessages(c)'
  <1> USE DEF seats, board, server
  <1>1. UNCHANGED messages \/ \E g \in Games : messages' = Append(messages, g)
    <2>1. ASSUME NEW c \in Clients, SendChat(c) PROVE GameOf(seat[c]) \in Games
      BY <2>1 DEF SendChat, SeatInv, Seats, Games, GameOf
    <2> QED
      BY <2>1 DEF Next, vars, CreateGame, Restart, JoinGame, LeaveGame, SendChat, PollChat,
                  ServerAnswers, PollFails, OnChatUpdated
  <1>2. /\ DOMAIN messages \subseteq DOMAIN messages'
        /\ \A m \in DOMAIN messages : messages'[m] = messages[m]
    <2>1. messages \in Seq(Games)
      BY DEF ServerInv
    <2> DEFINE MS == Games
    <2> HIDE DEF MS
    <2>2. ASSUME NEW g \in MS, messages' = Append(messages, g), messages \in Seq(MS)
          PROVE  /\ DOMAIN messages \subseteq DOMAIN messages'
                 /\ \A m \in DOMAIN messages : messages'[m] = messages[m]
      BY <2>2
    <2> QED
      BY <1>1, <2>1, <2>2 DEF MS
  <1>3. \A c \in Readers : been[c] \subseteq been'[c]
    <2>1. UNCHANGED been \/ \E d \in Clients, g \in GameIds : JoinGame(d, g)
      BY DEF Next, vars, CreateGame, Restart, LeaveGame, SendChat, PollChat,
             ServerAnswers, PollFails, OnChatUpdated
    <2> QED
      BY <2>1 DEF JoinGame
  <1> QED
    BY <1>2, <1>3 DEF MessagesOf, OwnMessages

LEMMA PollStep == ServerInv /\ SeatInv /\ BeenInv /\ PollInv /\ [Next]_vars => PollInv'
  <1> SUFFICES ASSUME ServerInv, SeatInv, BeenInv, PollInv, [Next]_vars PROVE PollInv'
    OBVIOUS
  <1> USE DEF seats, board, server
  <1>0. \A g : Seq(MessagesOf(messages, g)) \subseteq Seq(MessagesOf(messages', g))
    BY NothingForgotten, MoreToList
  <1>1. ASSUME NEW c \in Clients, PollChat(c) PROVE PollInv'
    <2> DEFINE new == [stage |-> "asked", game |-> seat[c].game, reply |-> <<>>]
    <2>1. new \in Polls /\ c \in Readers
      BY <1>1, ChatAssumption DEF PollChat, SeatInv, Seats, Polls
    <2>2. poll' = [poll EXCEPT ![c] = new]
      BY <1>1 DEF PollChat
    <2>3. new.reply \in Seq(MessagesOf(messages', new.game))
      OBVIOUS
    <2> HIDE DEF new
    <2>4. \A d \in Clients : poll'[d] = IF d = c THEN new ELSE poll[d]
      BY <2>2 DEF PollInv
    <2>5. poll' \in [Clients -> {Idle} \cup Polls]
      BY <2>1, <2>2 DEF PollInv
    <2>6. ASSUME NEW d \in Clients, poll'[d] # Idle
          PROVE  d \in Readers /\ poll'[d].reply \in Seq(MessagesOf(messages', poll'[d].game))
      BY <1>0, <2>1, <2>3, <2>4, <2>6 DEF PollInv
    <2> QED
      BY <2>5, <2>6 DEF PollInv
  <1>2. ASSUME NEW c \in Clients, ServerAnswers(c) PROVE PollInv'
    <2> DEFINE new == [stage |-> "answered", game |-> poll[c].game,
                       reply |-> GetMessages(poll[c].game)]
    <2>1. poll[c] # Idle /\ poll[c] \in Polls /\ c \in Readers
      BY <1>2 DEF ServerAnswers, PollInv
    <2>2. poll' = [poll EXCEPT ![c] = new]
      BY <1>2 DEF ServerAnswers
    <2>3. GetMessages(poll[c].game) \in Seq(MessagesOf(messages, poll[c].game))
      BY RepliesOfGame, ChatAssumption DEF ServerInv
    <2>4. GetMessages(poll[c].game) \in Seq(Nat)
      <3>1. MessagesOf(messages, poll[c].game) \subseteq Nat
        BY DEF MessagesOf, ServerInv
      <3> QED
        BY <2>3, <3>1
    <2>5. new \in Polls /\ new.game = poll[c].game /\ new.reply \in Seq(MessagesOf(messages', new.game))
      <3>1. poll[c].game \in GameIds
        BY <2>1 DEF Polls
      <3> DEFINE ids == GetMessages(poll[c].game)
      <3> HIDE DEF ids
      <3>2. ids \in Seq(MessagesOf(messages', poll[c].game)) /\ ids \in Seq(Nat)
        BY <1>0, <2>3, <2>4 DEF ids
      <3>3. new = [stage |-> "answered", game |-> poll[c].game, reply |-> ids]
        BY DEF ids
      <3> QED
        BY <3>1, <3>2, <3>3 DEF Polls
    <2> HIDE DEF new
    <2>6. \A d \in Clients : poll'[d] = IF d = c THEN new ELSE poll[d]
      BY <2>2 DEF PollInv
    <2>7. poll' \in [Clients -> {Idle} \cup Polls]
      BY <2>2, <2>5 DEF PollInv
    <2>8. ASSUME NEW d \in Clients, poll'[d] # Idle
          PROVE  d \in Readers /\ poll'[d].reply \in Seq(MessagesOf(messages', poll'[d].game))
      BY <1>0, <2>1, <2>5, <2>6, <2>8 DEF PollInv
    <2> QED
      BY <2>7, <2>8 DEF PollInv
  <1>3. ASSUME NEW c \in Clients, PollFails(c) \/ OnChatUpdated(c) PROVE PollInv'
    <2>1. poll' = [poll EXCEPT ![c] = Idle]
      BY <1>3 DEF PollFails, OnChatUpdated
    <2> QED
      BY <1>0, <2>1 DEF PollInv
  <1>4. CASE UNCHANGED poll
    BY <1>0, <1>4 DEF PollInv
  <1> QED
    BY <1>1, <1>2, <1>3, <1>4 DEF Next, vars, CreateGame, Restart, JoinGame, LeaveGame, SendChat

LEMMA BeenStep ==
    ServerInv /\ SeatInv /\ BeenInv /\ PollInv /\ [Next]_vars => BeenInv'
  <1> SUFFICES ASSUME ServerInv, SeatInv, BeenInv, PollInv, [Next]_vars PROVE BeenInv'
    OBVIOUS
  <1> USE DEF seats, board, server
  <1>1. ASSUME NEW c \in Clients, NEW g \in GameIds, JoinGame(c, g) PROVE BeenInv'
    <2> DEFINE new == [life |-> life, game |-> g, index |-> taken[g]]
    <2>1. /\ seat' = [seat EXCEPT ![c] = new]
          /\ been' = [d \in Readers |-> IF d = c THEN been[d] \cup {<<life, g>>} ELSE been[d]]
          /\ UNCHANGED poll
      BY <1>1 DEF JoinGame, PlayerIndex
    <2>2. GameOf(new) = <<life, g>> /\ <<life, g>> \in Games
      BY DEF GameOf, Games, ServerInv
    <2> HIDE DEF new
    <2>3. been' \in [Readers -> SUBSET Games]
      BY <2>1, <2>2 DEF BeenInv
    <2>4. \A d \in Readers : seat'[d] # NoSeat => GameOf(seat'[d]) \in been'[d]
      BY <2>1, <2>2, ChatAssumption DEF BeenInv, SeatInv
    <2>5. \A d \in Readers : poll'[d] # Idle => \E h \in been'[d] : h[2] = poll'[d].game
      BY <2>1 DEF BeenInv
    <2> QED
      BY <2>3, <2>4, <2>5 DEF BeenInv, GameOf
  <1>2. ASSUME NEW c \in Clients, LeaveGame(c) PROVE BeenInv'
    BY <1>2 DEF LeaveGame, BeenInv, SeatInv, GameOf
  <1>3. ASSUME NEW c \in Clients, PollChat(c) PROVE BeenInv'
    <2> DEFINE new == [stage |-> "asked", game |-> seat[c].game, reply |-> <<>>]
    <2>1. /\ poll' = [poll EXCEPT ![c] = new] /\ UNCHANGED <<seat, been>>
          /\ seat[c] # NoSeat /\ c \in Readers
      BY <1>3 DEF PollChat
    <2>2. GameOf(seat[c])[2] = new.game
      BY DEF GameOf
    <2> HIDE DEF new
    <2>3. \A d \in Clients : poll'[d] = IF d = c THEN new ELSE poll[d]
      BY <2>1 DEF PollInv
    <2>4. \A d \in Readers : poll'[d] # Idle => \E g \in been[d] : g[2] = poll'[d].game
      BY <2>1, <2>2, <2>3, ChatAssumption DEF BeenInv
    <2> QED
      BY <2>1, <2>4 DEF BeenInv, GameOf
  <1>4. ASSUME NEW c \in Clients, ServerAnswers(c) PROVE BeenInv'
    <2>1. poll[c] # Idle /\ poll[c] \in Polls
      BY <1>4 DEF ServerAnswers, PollInv
    <2> DEFINE new == [stage |-> "answered", game |-> poll[c].game,
                       reply |-> GetMessages(poll[c].game)]
    <2>2. poll' = [poll EXCEPT ![c] = new] /\ UNCHANGED <<seat, been>>
      BY <1>4 DEF ServerAnswers
    <2>3. new.game = poll[c].game
      OBVIOUS
    <2> HIDE DEF new
    <2>4. \A d \in Clients : poll'[d] = IF d = c THEN new ELSE poll[d]
      BY <2>2 DEF PollInv
    <2>5. \A d \in Readers : poll'[d] # Idle => \E g \in been[d] : g[2] = poll'[d].game
      BY <2>1, <2>3, <2>4, ChatAssumption DEF BeenInv
    <2> QED
      BY <2>2, <2>5 DEF BeenInv, GameOf
  <1>5. ASSUME NEW c \in Clients, PollFails(c) \/ OnChatUpdated(c) PROVE BeenInv'
    <2>1. poll' = [poll EXCEPT ![c] = Idle] /\ UNCHANGED <<seat, been>>
      BY <1>5 DEF PollFails, OnChatUpdated
    <2>2. \A d \in Clients : poll'[d] = IF d = c THEN Idle ELSE poll[d]
      BY <2>1 DEF PollInv
    <2>3. \A d \in Readers : poll'[d] # Idle => \E g \in been[d] : g[2] = poll'[d].game
      BY <2>2, ChatAssumption DEF BeenInv
    <2> QED
      BY <2>1, <2>3 DEF BeenInv, GameOf
  <1>6. CASE UNCHANGED <<seat, poll, been>>
    BY <1>6 DEF BeenInv, GameOf
  <1> QED
    BY <1>1, <1>2, <1>3, <1>4, <1>5, <1>6 DEF Next, vars, CreateGame, Restart, SendChat

LEMMA BoardStep ==
    ServerInv /\ SeatInv /\ BeenInv /\ PollInv /\ BoardInv /\ [Next]_vars => BoardInv'
  <1> SUFFICES ASSUME ServerInv, SeatInv, BeenInv, PollInv, BoardInv, [Next]_vars
               PROVE  BoardInv'
    OBVIOUS
  <1> USE DEF seats, board, server
  <1>0. \A c \in Clients : Boards(OwnMessages(c)) \subseteq Boards(OwnMessages(c)')
    BY NothingForgotten, MoreToList
  <1>1. ASSUME NEW c \in Clients, OnChatUpdated(c) PROVE BoardInv'
    <2> DEFINE seen == FoldLeft(Show, Board(c), poll[c].reply)
    <2>1. /\ poll[c] # Idle
          /\ lastMessageId' = [lastMessageId EXCEPT ![c] = seen.last]
          /\ chatHistory' = [chatHistory EXCEPT ![c] = seen.list]
          /\ UNCHANGED <<messages, been>>
      BY <1>1, Zenon DEF OnChatUpdated, Board
    <2>2. MessagesOf(messages, poll[c].game) \subseteq OwnMessages(c)
      BY <2>1 DEF PollInv, BeenInv, MessagesOf, OwnMessages
    <2>3. OwnMessages(c) \in SUBSET Nat
      BY DEF OwnMessages, ServerInv
    <2>4. poll[c].reply \in Seq(OwnMessages(c))
      BY <2>1, <2>2, MoreToList DEF PollInv
    <2>5. seen \in Boards(OwnMessages(c))
      BY <2>3, <2>4, ShownIsBoard DEF BoardInv
    <2> HIDE DEF seen
    <2>6. seen.last \in Nat /\ seen.list \in Seq(Nat) /\ seen = [last |-> seen.last, list |-> seen.list]
      BY <2>3, <2>5, MoreToList DEF Boards
    <2>7. /\ lastMessageId' \in [Clients -> Nat] /\ chatHistory' \in [Clients -> Seq(Nat)]
          /\ Board(c)' = seen
      BY <2>1, <2>6 DEF BoardInv, Board
    <2>8. \A d \in Clients : Board(d)' = IF d = c THEN seen ELSE Board(d)
      BY <2>1, <2>7 DEF BoardInv, Board
    <2> QED
      BY <1>0, <2>5, <2>7, <2>8 DEF BoardInv
  <1>2. CASE UNCHANGED <<lastMessageId, chatHistory>>
    BY <1>0, <1>2 DEF BoardInv, Board
  <1> QED
    BY <1>1, <1>2 DEF Next, vars, CreateGame, Restart, JoinGame, LeaveGame, SendChat, PollChat,
                      ServerAnswers, PollFails

\* What the claims below follow from: who has a seat in which life of the server, what
\* the boards a reader has been at are, what a reply under way can hold, and what is
\* shown: ApplicationServer's chat routes and ChatService.
THEOREM ChatInvariant == Spec => []ChatInv
  <1>1. ChatInv /\ [Next]_vars => ChatInv'
    BY ServerStep, SeatStep, PollStep, BeenStep, BoardStep DEF ChatInv
  <1> QED
    BY <1>1, ChatInit, PTL DEF Spec

-----------------------------------------------------------------------------
\* Every field has the values it should, for any number of messages and of lives: the
\* position a poll starts from is never beyond the messages there are.
THEOREM ChatTypes == Spec => []TypeOK
  <1>1. ChatInv => TypeOK
    <2> SUFFICES ASSUME ChatInv PROVE TypeOK
      OBVIOUS
    <2> USE DEF ChatInv
    <2>1. /\ nextGameId \in 1 .. (MaxGames + 1)
          /\ DOMAIN taken \subseteq 1 .. (nextGameId - 1)
          /\ \A g \in DOMAIN taken : taken[g] \in 0 .. MaxSeats
          /\ Len(messages) <= MaxMessages
          /\ \A m \in DOMAIN messages : messages[m][2] \in 1 .. rows
      BY DEF ServerInv
    <2>2. ASSUME NEW c \in Clients, seat[c] # NoSeat
          PROVE  seat[c].game \in GameIds /\ seat[c].index \in 0 .. (MaxSeats - 1)
      BY <2>2 DEF SeatInv, Seats
    <2>3. ASSUME NEW c \in Clients, poll[c] # Idle
          PROVE  \A m \in ToSet(poll[c].reply) : messages[m][2] = poll[c].game
      <3>1. poll[c].reply \in Seq(MessagesOf(messages, poll[c].game))
        BY <2>3 DEF PollInv
      <3>2. ToSet(poll[c].reply) \subseteq MessagesOf(messages, poll[c].game)
        BY <3>1 DEF ToSet
      <3> QED
        BY <3>2 DEF MessagesOf
    <2>4. ASSUME NEW c \in Clients
          PROVE  /\ chatHistory[c] = <<>> => lastMessageId[c] = 0
                 /\ chatHistory[c] # <<>> => Last(chatHistory[c]) = lastMessageId[c]
      BY DEF BoardInv, Board, Boards
    <2> QED
      BY <2>1, <2>2, <2>3, <2>4 DEF TypeOK
  <1> QED
    BY <1>1, ChatInvariant, PTL

\* Two clients of one life of the server never have one seat, and the game a client
\* polls and sends to has its seat: JoinGame gives the index that is next.
THEOREM SeatsAreOwn == Spec => []SeatIsOwn
  <1>1. ChatInv => SeatIsOwn
    BY DEF ChatInv, SeatInv, SeatIsOwn
  <1> QED
    BY <1>1, ChatInvariant, PTL

\* A board never repeats a message nor lists one before an older one, for any number of
\* messages, in whatever order polls are answered and games are changed: onChatUpdated shows
\* only what comes after lastMessageId.
THEOREM BoardsInOrder == Spec => []ShownInOrder
  <1>1. ChatInv => ShownInOrder
    BY DEF ChatInv, BoardInv, Board, Boards, Increasing, ShownInOrder
  <1> QED
    BY <1>1, ChatInvariant, PTL

\* A board lists only messages sent under ids its player has had a seat under, however
\* often the server restarts and hands the ids out again: chatHistory is never cleared.
THEOREM BoardsOfOwnIds == Spec => []OwnIdsOnly
  <1>1. ChatInv => OwnIdsOnly
    <2> SUFFICES ASSUME ChatInv, NEW c \in Readers, NEW m \in ToSet(chatHistory[c])
                 PROVE  \E g \in been[c] : g[2] = messages[m][2]
      BY DEF OwnIdsOnly
    <2>1. c \in Clients
      BY ChatAssumption
    <2>2. chatHistory[c] \in Seq(OwnMessages(c))
      BY <2>1 DEF ChatInv, BoardInv, Board, Boards
    <2>3. m \in OwnMessages(c)
      BY <2>2 DEF ToSet
    <2> QED
      BY <2>3 DEF OwnMessages
  <1> QED
    BY <1>1, ChatInvariant, PTL
=============================================================================
