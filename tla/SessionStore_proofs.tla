------------------------ MODULE SessionStore_proofs ------------------------
(***************************************************************************)
(* Proofs about SessionStore: what the database promises of the games that *)
(* were finished, through errors and restarts, for any numbers of users,   *)
(* seats, games, errors and restarts.                                      *)
(***************************************************************************)
EXTENDS SessionStore, DataLemmas, TLAPS

Session == [status : {"waiting", "playing", "finished"}, won : BOOLEAN,
            maxPlayers : 2 .. MaxSeats, playerNames : Seq(Names)]
Row == [status : {"Waiting", "Finished"}, won : BOOLEAN, owner : Nat \X Nat]
HistoryEntry == [won : BOOLEAN, cards : {0, FullHand}, by : Nat \X Nat]
UserTotals == [played : Nat, won : Nat, lost : Nat, score : 1 .. 5]
SavingStep == [stage : {"session", "stats", "totals"}, game : Nat, seat : Nat,
               left : Seq({0, FullHand})]

MemoryInv ==
    /\ nextGameId \in Nat \ {0}
    /\ sessions \in [DOMAIN sessions -> Session]
    /\ DOMAIN sessions \subseteq 1 .. (nextGameId - 1)
    /\ \A g \in DOMAIN sessions :
          /\ Len(sessions[g].playerNames) <= sessions[g].maxPlayers
          /\ sessions[g].status # "finished" => ~sessions[g].won

DatabaseInv ==
    /\ rows \in Seq(Row)
    /\ history \in [DOMAIN history -> HistoryEntry]
    /\ DOMAIN history \subseteq Users \X DOMAIN rows
    /\ IsFiniteSet(DOMAIN history)
    /\ totals \in [Users -> UserTotals]

BoundInv ==
    /\ life \in Nat
    /\ faults \in 0 .. MaxFaults
    /\ due \in [Users -> Nat]
    /\ Len(rows) <= MaxGames
    /\ nextGameId - 1 <= Len(rows) + faults

\* A saving is about a finished game, and, once the row of the game is dealt
\* with, about a seat of it that a user holds; what is about to be counted is
\* in the history.
SavingInv ==
    saving # Idle =>
        /\ saving \in SavingStep
        /\ saving.game \in DOMAIN sessions
        /\ sessions[saving.game].status = "finished"
        /\ Len(saving.left) = Len(sessions[saving.game].playerNames)
        /\ saving.stage = "session" => saving.seat = 0
        /\ saving.stage # "session" =>
              /\ saving.seat \in DOMAIN sessions[saving.game].playerNames
              /\ Player(saving.seat) \in Users
        /\ saving.stage = "totals" =>
              /\ <<Player(saving.seat), saving.game>> \in DOMAIN history
              /\ history[<<Player(saving.seat), saving.game>>] = Entry

TypeInv == MemoryInv /\ DatabaseInv /\ BoundInv /\ SavingInv

-----------------------------------------------------------------------------
\* The seats of a session are finitely many.
LEMMA SeatsType ==
    ASSUME MemoryInv, NEW g \in DOMAIN sessions, NEW u
    PROVE  /\ DOMAIN sessions[g].playerNames = 1 .. Len(sessions[g].playerNames)
           /\ Len(sessions[g].playerNames) \in Nat
           /\ sessions[g].playerNames \in Seq(Names)
           /\ IsFiniteSet(SeatsOf(u, g))
           /\ Cardinality(SeatsOf(u, g)) \in Nat
  <1>1. sessions[g] \in Session
    BY DEF MemoryInv
  <1>2. sessions[g].playerNames \in Seq(Names)
    BY <1>1 DEF Session
  <1>3. /\ DOMAIN sessions[g].playerNames = 1 .. Len(sessions[g].playerNames)
        /\ Len(sessions[g].playerNames) \in Nat
    BY <1>2
  <1>4. IsFiniteSet(1 .. Len(sessions[g].playerNames))
    BY <1>3, FS_Interval
  <1>5. SeatsOf(u, g) \subseteq 1 .. Len(sessions[g].playerNames)
    BY <1>3 DEF SeatsOf
  <1>6. IsFiniteSet(SeatsOf(u, g)) /\ Cardinality(SeatsOf(u, g)) \in Nat
    BY <1>4, <1>5, FS_Subset, FS_CardinalityType
  <1> QED
    BY <1>2, <1>3, <1>6

AtSeat(i) == [saving EXCEPT !.stage = "stats", !.seat = i]

\* The loop over the players goes on at the first user behind a seat, and ends
\* when there is none.
LEMMA NextSeat ==
    ASSUME MemoryInv, SavingInv, saving # Idle, NEW seat \in Nat
    PROVE  \/ KnownAfter(seat) = {} /\ ToSeatAfter(seat) = Idle
           \/ \E i \in KnownAfter(seat) :
                 /\ \A j \in KnownAfter(seat) : i <= j
                 /\ ToSeatAfter(seat) = AtSeat(i)
                 /\ ToSeatAfter(seat) # Idle
  <1>1. saving.game \in DOMAIN sessions /\ saving \in SavingStep
    BY DEF SavingInv
  <1>2. KnownAfter(seat) \subseteq Nat
    BY <1>1, SeatsType DEF KnownAfter
  <1>3. CASE KnownAfter(seat) = {}
    BY <1>3 DEF ToSeatAfter
  <1>4. CASE KnownAfter(seat) # {}
    <2>1. \E i \in KnownAfter(seat) : \A j \in KnownAfter(seat) : i <= j
      BY <1>2, <1>4, LeastNumber
    <2>2. /\ Min(KnownAfter(seat)) \in KnownAfter(seat)
          /\ \A j \in KnownAfter(seat) : Min(KnownAfter(seat)) <= j
      BY <2>1 DEF Min
    <2>3. ToSeatAfter(seat) = AtSeat(Min(KnownAfter(seat)))
      BY <1>4 DEF ToSeatAfter, AtSeat
    <2>4. AtSeat(Min(KnownAfter(seat))).stage = "stats"
      BY <1>1 DEF SavingStep, AtSeat
    <2>5. ToSeatAfter(seat) # Idle
      BY <2>3, <2>4 DEF Idle
    <2> QED
      BY <2>2, <2>3, <2>5
  <1> QED
    BY <1>3, <1>4

\* To go on at another seat keeps what is known of a saving.
LEMMA ToSeatKeeps ==
    ASSUME TypeInv, saving # Idle, NEW seat \in Nat,
           saving' = ToSeatAfter(seat), sessions' = sessions
    PROVE  SavingInv'
  <1>1. /\ saving.game \in DOMAIN sessions /\ saving \in SavingStep
        /\ MemoryInv /\ SavingInv
    BY DEF SavingInv, TypeInv
  <1>2. CASE KnownAfter(seat) = {} /\ ToSeatAfter(seat) = Idle
    BY <1>2 DEF SavingInv
  <1>3. ASSUME NEW i \in KnownAfter(seat),
               ToSeatAfter(seat) = AtSeat(i)
        PROVE  SavingInv'
    <2>1. /\ i \in DOMAIN sessions[saving.game].playerNames
          /\ i \in Nat
          /\ Player(i) \in Users
      BY <1>1, SeatsType DEF KnownAfter
    <2>2. /\ saving' \in SavingStep
          /\ saving'.stage = "stats" /\ saving'.seat = i
          /\ saving'.game = saving.game /\ saving'.left = saving.left
      BY <1>1, <1>3, <2>1 DEF SavingStep, AtSeat
    <2> QED
      BY <1>1, <2>1, <2>2 DEF SavingInv, Player
  <1> QED
    BY <1>1, <1>2, <1>3, NextSeat

-----------------------------------------------------------------------------
\* The types hold at the start, and every action keeps them.
LEMMA InitTypes == Init => TypeInv
  <1> SUFFICES ASSUME Init PROVE TypeInv
    OBVIOUS
  <1>1. DOMAIN sessions = {} /\ DOMAIN history = {} /\ DOMAIN rows = {} /\ Len(rows) = 0
    BY DEF Init
  <1>2. rows \in Seq(Row)
    BY DEF Init
  <1>3. totals \in [Users -> UserTotals]
    BY DEF Init, NoTotals, UserTotals
  <1>4. MaxFaults \in Nat /\ MaxGames \in Nat
    BY StoreAssumption
  <1> QED
    BY <1>1, <1>2, <1>3, <1>4, FS_EmptySet
       DEF Init, TypeInv, MemoryInv, DatabaseInv, BoundInv, SavingInv

LEMMA CreateTypes ==
    ASSUME TypeInv, NEW m \in 2 .. MaxSeats, CreateGame(m)
    PROVE  TypeInv'
  <1>1. MemoryInv /\ DatabaseInv /\ BoundInv /\ saving = Idle /\ saving' = saving
    BY DEF TypeInv, CreateGame, MutexFree
  <1>2. MaxFaults \in Nat /\ MaxGames \in Nat
    BY StoreAssumption
  <1>3. nextGameId \in Nat \ {0} /\ nextGameId' = nextGameId + 1
    BY <1>1 DEF MemoryInv, CreateGame
  <1>4. CASE /\ rows' = Append(rows, NewRow(nextGameId))
             /\ sessions' = Extend(sessions, nextGameId, NewSession(m))
             /\ UNCHANGED faults
    <2>1. NewRow(nextGameId) \in Row
      BY <1>1, <1>3 DEF NewRow, Row, Game, BoundInv
    <2>2. rows' \in Seq(Row) /\ DOMAIN rows \subseteq DOMAIN rows' /\ Len(rows') = Len(rows) + 1
      BY <1>1, <1>4, <2>1 DEF DatabaseInv
    <2>3. NewSession(m) \in Session
      BY DEF NewSession, Session
    <2>4. DOMAIN sessions' = DOMAIN sessions \cup {nextGameId}
      BY <1>4 DEF Extend
    <2>5. \A g \in DOMAIN sessions' :
             sessions'[g] = IF g = nextGameId THEN NewSession(m) ELSE sessions[g]
      BY <1>4 DEF Extend
    <2>6. sessions' \in [DOMAIN sessions' -> Session]
      BY <1>1, <1>4, <2>3, <2>4, <2>5 DEF Extend, MemoryInv
    <2>7. Len(NewSession(m).playerNames) <= NewSession(m).maxPlayers /\ ~NewSession(m).won
      BY DEF NewSession
    <2>8. MemoryInv'
      BY <1>1, <1>3, <2>4, <2>5, <2>6, <2>7 DEF MemoryInv
    <2>9. DatabaseInv'
      BY <1>1, <2>2 DEF DatabaseInv, CreateGame
    <2>10. BoundInv'
      BY <1>1, <1>2, <1>3, <1>4, <2>2 DEF BoundInv, CreateGame, DatabaseInv
    <2> QED
      BY <1>1, <2>8, <2>9, <2>10 DEF TypeInv, SavingInv
  <1>5. CASE faults < MaxFaults /\ faults' = faults + 1 /\ UNCHANGED <<rows, sessions>>
    <2>1. MemoryInv' /\ DatabaseInv'
      BY <1>1, <1>3, <1>5 DEF MemoryInv, DatabaseInv, CreateGame
    <2>2. BoundInv'
      BY <1>1, <1>2, <1>3, <1>5 DEF BoundInv, CreateGame, DatabaseInv
    <2> QED
      BY <1>1, <2>1, <2>2 DEF TypeInv, SavingInv
  <1> QED
    BY <1>4, <1>5 DEF CreateGame

LEMMA JoinTypes ==
    ASSUME TypeInv, NEW g, NEW name \in Names, JoinGame(g, name)
    PROVE  TypeInv'
  <1>1. MemoryInv /\ DatabaseInv /\ BoundInv /\ saving = Idle /\ saving' = saving
    BY DEF TypeInv, JoinGame, MutexFree
  <1>2. g \in DOMAIN sessions /\ sessions[g] \in Session
    BY <1>1 DEF JoinGame, MemoryInv
  <1> DEFINE names == Append(sessions[g].playerNames, name)
             new == [sessions[g] EXCEPT !.playerNames = names,
                        !.status = IF Len(names) = sessions[g].maxPlayers THEN "playing" ELSE @]
  <1>3. sessions' = [sessions EXCEPT ![g] = new]
    BY DEF JoinGame
  <1>4. /\ names \in Seq(Names) /\ Len(names) = Len(sessions[g].playerNames) + 1
        /\ Len(sessions[g].playerNames) < sessions[g].maxPlayers
        /\ sessions[g].status = "waiting"
    BY <1>2 DEF Session, JoinGame
  <1>5. /\ new \in Session
        /\ new.playerNames = names /\ new.maxPlayers = sessions[g].maxPlayers
        /\ new.won = sessions[g].won /\ new.status # "finished"
    BY <1>2, <1>4 DEF Session
  <1>6. Len(names) <= sessions[g].maxPlayers
    BY <1>2, <1>4 DEF Session
  <1>7. ~sessions[g].won
    BY <1>1, <1>2, <1>4 DEF MemoryInv
  <1> HIDE DEF new, names
  <1>8. MemoryInv'
    BY <1>1, <1>2, <1>3, <1>5, <1>6, <1>7 DEF MemoryInv, JoinGame
  <1>9. DatabaseInv' /\ BoundInv'
    BY <1>1 DEF DatabaseInv, BoundInv, JoinGame, database
  <1> QED
    BY <1>1, <1>8, <1>9 DEF TypeInv, SavingInv

LEMMA StartTypes ==
    ASSUME TypeInv, NEW g, StartGame(g)
    PROVE  TypeInv'
  <1>1. MemoryInv /\ DatabaseInv /\ BoundInv /\ saving = Idle /\ saving' = saving
    BY DEF TypeInv, StartGame, MutexFree
  <1>2. g \in DOMAIN sessions /\ sessions[g] \in Session /\ sessions[g].status = "waiting"
    BY <1>1 DEF StartGame, MemoryInv
  <1>3. sessions' = [sessions EXCEPT ![g] = [sessions[g] EXCEPT !.status = "playing"]]
    BY DEF StartGame
  <1>4. [sessions[g] EXCEPT !.status = "playing"] \in Session
    BY <1>2 DEF Session
  <1>5. MemoryInv'
    BY <1>1, <1>2, <1>3, <1>4 DEF MemoryInv, StartGame, Session
  <1>6. DatabaseInv' /\ BoundInv'
    BY <1>1 DEF DatabaseInv, BoundInv, StartGame, database
  <1> QED
    BY <1>1, <1>5, <1>6 DEF TypeInv, SavingInv

LEMMA FinishGameTypes ==
    ASSUME TypeInv, NEW g, FinishGame(g)
    PROVE  TypeInv'
  <1>1. MemoryInv /\ DatabaseInv /\ BoundInv /\ saving = Idle
    BY DEF TypeInv, FinishGame, MutexFree
  <1>0. g \in DOMAIN sessions
    BY DEF FinishGame
  <1>2. g \in DOMAIN sessions /\ sessions[g] \in Session /\ g \in Nat
    BY <1>0, <1>1 DEF MemoryInv
  <1>3. PICK left \in [DOMAIN sessions[g].playerNames -> {0, FullHand}] :
           /\ sessions' = [sessions EXCEPT ![g].status = "finished",
                                           ![g].won = \A i \in DOMAIN left : left[i] = 0]
           /\ saving' = [stage |-> "session", game |-> g, seat |-> 0, left |-> left]
    BY Zenon DEF FinishGame
  <1> DEFINE won == \A i \in DOMAIN left : left[i] = 0
             new == [sessions[g] EXCEPT !.status = "finished", !.won = won]
  <1>4. sessions' = [sessions EXCEPT ![g] = new]
    BY <1>3
  <1>5. won \in BOOLEAN
    OBVIOUS
  <1> HIDE DEF won
  <1>6. new \in Session
    BY <1>2, <1>5 DEF Session
  <1>7. /\ new.playerNames = sessions[g].playerNames /\ new.maxPlayers = sessions[g].maxPlayers
        /\ new.status = "finished"
    BY <1>2 DEF Session
  <1> HIDE DEF new
  <1>8. MemoryInv'
    BY <1>1, <1>2, <1>4, <1>6, <1>7 DEF MemoryInv, FinishGame
  <1>9. DatabaseInv'
    BY <1>1 DEF DatabaseInv, FinishGame, database
  <1>10. \A u \in Users : Cardinality(SeatsOf(u, g)) \in Nat
    BY <1>1, <1>2, SeatsType
  <1>11. due' = [u \in Users |-> due[u] + Cardinality(SeatsOf(u, g))]
    BY Zenon DEF FinishGame
  <1>12. due' \in [Users -> Nat]
    BY <1>1, <1>10, <1>11 DEF BoundInv
  <1>16. BoundInv'
    BY <1>1, <1>12 DEF BoundInv, FinishGame, database
  <1>13. left \in Seq({0, FullHand}) /\ Len(left) = Len(sessions[g].playerNames)
    BY <1>1, <1>2, SeatsType
  <1>14. saving' \in SavingStep
    BY <1>2, <1>3, <1>13 DEF SavingStep
  <1>15. SavingInv'
    BY <1>2, <1>3, <1>4, <1>7, <1>13, <1>14 DEF SavingInv
  <1> QED
    BY <1>8, <1>9, <1>16, <1>15 DEF TypeInv

\* The outcome goes on the row of the game, and the saving on to a seat.
LEMMA FinishSessionTypes ==
    ASSUME TypeInv, FinishSession
    PROVE  TypeInv'
  <1>1. MemoryInv /\ DatabaseInv /\ BoundInv /\ SavingInv
    BY DEF TypeInv
  <1>2. saving # Idle /\ saving.stage = "session"
    BY DEF FinishSession, Idle
  <1>3. MemoryInv'
    BY <1>1 DEF MemoryInv, FinishSession
  <1>4. SavingInv'
    BY <1>2, ToSeatKeeps DEF FinishSession
  <1>5. sessions[saving.game] \in Session
    BY <1>1, <1>2 DEF SavingInv, MemoryInv
  <1>6. /\ rows' \in Seq(Row) /\ Len(rows') = Len(rows) /\ DOMAIN rows' = DOMAIN rows
        /\ faults' \in 0 .. MaxFaults /\ faults' >= faults
    <2>1. MaxFaults \in Nat
      BY StoreAssumption
    <2>2. CASE rows' = rows
      BY <1>1, <2>1, <2>2 DEF FinishSession, DatabaseInv, BoundInv
    <2>3. CASE /\ saving.game \in DOMAIN rows
               /\ rows' = [rows EXCEPT ![saving.game].status = "Finished",
                                       ![saving.game].won = sessions[saving.game].won]
               /\ UNCHANGED faults
      <3>1. rows[saving.game] \in Row
        BY <1>1, <2>3 DEF DatabaseInv
      <3>2. [rows[saving.game] EXCEPT !.status = "Finished",
                                      !.won = sessions[saving.game].won] \in Row
        BY <1>5, <3>1 DEF Row, Session
      <3> QED
        BY <1>1, <2>1, <2>3, <3>2 DEF DatabaseInv, BoundInv
    <2> QED
      BY <2>2, <2>3 DEF FinishSession
  <1>7. DatabaseInv'
    BY <1>1, <1>6 DEF DatabaseInv, FinishSession
  <1>8. BoundInv'
    BY <1>1, <1>6 DEF BoundInv, DatabaseInv, FinishSession, MemoryInv
  <1> QED
    BY <1>3, <1>4, <1>7, <1>8 DEF TypeInv

\* What is written of a seat.
LEMMA EntryType ==
    ASSUME TypeInv, saving # Idle, saving.stage # "session"
    PROVE  /\ Entry \in HistoryEntry
           /\ Player(saving.seat) \in Users
           /\ saving.seat \in Nat
  <1>1. MemoryInv /\ SavingInv /\ BoundInv
    BY DEF TypeInv
  <1>2. /\ saving \in SavingStep
        /\ saving.game \in DOMAIN sessions
        /\ Len(saving.left) = Len(sessions[saving.game].playerNames)
        /\ saving.seat \in DOMAIN sessions[saving.game].playerNames
        /\ Player(saving.seat) \in Users
    BY <1>1 DEF SavingInv
  <1>3. saving.left \in Seq({0, FullHand}) /\ saving.game \in Nat /\ saving.seat \in Nat
    BY <1>2 DEF SavingStep
  <1>4. saving.seat \in 1 .. Len(sessions[saving.game].playerNames)
    BY <1>1, <1>2, SeatsType
  <1>5. saving.left[saving.seat] \in {0, FullHand}
    BY <1>2, <1>3, <1>4
  <1>6. sessions[saving.game].won \in BOOLEAN
    BY <1>1, <1>2 DEF MemoryInv, Session
  <1>7. Game(saving.game) \in Nat \X Nat
    BY <1>1, <1>3 DEF Game, BoundInv
  <1> QED
    BY <1>2, <1>3, <1>5, <1>6, <1>7 DEF Entry, HistoryEntry

\* An entry is written under a user and an existing row.
LEMMA SavePlayerTypes ==
    ASSUME TypeInv, SavePlayerStats
    PROVE  TypeInv'
  <1>1. MemoryInv /\ DatabaseInv /\ BoundInv /\ SavingInv
    BY DEF TypeInv
  <1>2. saving # Idle /\ saving.stage = "stats"
    BY DEF SavePlayerStats, Idle
  <1>3. Entry \in HistoryEntry /\ Player(saving.seat) \in Users
    BY <1>2, EntryType
  <1>4. MemoryInv' /\ BoundInv'
    BY <1>1 DEF MemoryInv, BoundInv, SavePlayerStats
  <1> DEFINE k == <<Player(saving.seat), saving.game>>
  <1>5. CASE /\ saving.game \in DOMAIN rows
             /\ history' = Extend(history, k, Entry)
             /\ saving' = [saving EXCEPT !.stage = "totals"]
    <2>1. /\ DOMAIN history' = DOMAIN history \cup {k}
          /\ history' \in [DOMAIN history' -> HistoryEntry]
      <3>1. history \in [DOMAIN history -> HistoryEntry]
        BY <1>1 DEF DatabaseInv
      <3> HIDE DEF k
      <3>2. /\ DOMAIN Extend(history, k, Entry) = DOMAIN history \cup {k}
            /\ Extend(history, k, Entry) \in [DOMAIN history \cup {k} -> HistoryEntry]
        BY <1>3, <3>1 DEF Extend
      <3>3. history' = Extend(history, k, Entry)
        BY <1>5
      <3> QED
        BY <3>2, <3>3, Zenon
    <2>2. k \in Users \X DOMAIN rows
      BY <1>3, <1>5
    <2>3. IsFiniteSet(DOMAIN history')
      <3>1. IsFiniteSet(DOMAIN history)
        BY <1>1 DEF DatabaseInv
      <3> HIDE DEF k
      <3>2. IsFiniteSet(DOMAIN history \cup {k})
        BY <3>1, FS_AddElement
      <3> QED
        BY <2>1, <3>2, Zenon
    <2>4. DatabaseInv'
      BY <1>1, <2>1, <2>2, <2>3 DEF DatabaseInv, SavePlayerStats
    <2>5. saving \in SavingStep
      BY <1>1, <1>2 DEF SavingInv
    <2>6. /\ saving' \in SavingStep /\ saving'.stage = "totals"
          /\ saving'.game = saving.game /\ saving'.seat = saving.seat
          /\ saving'.left = saving.left
      BY <1>5, <2>5 DEF SavingStep
    <2>7. sessions' = sessions /\ life' = life
      BY DEF SavePlayerStats
    <2>8. Player(saving.seat)' = Player(saving.seat) /\ k' = k /\ Entry' = Entry
      BY <2>6, <2>7 DEF Player, Entry, Game
    <2>9. history'[k] = Entry
      <3> HIDE DEF k
      <3> QED
        BY <1>5 DEF Extend
    <2>10. SavingInv'
      BY <1>1, <1>2, <1>3, <2>1, <2>6, <2>7, <2>8, <2>9 DEF SavingInv
    <2> QED
      BY <1>4, <2>4, <2>10 DEF TypeInv
  <1>6. CASE saving' = Idle /\ UNCHANGED history
    BY <1>1, <1>4, <1>6 DEF TypeInv, SavingInv, DatabaseInv, SavePlayerStats
  <1> QED
    BY <1>5, <1>6 DEF SavePlayerStats

\* The score stays in its range whatever the history says.
LEMMA ScoreType ==
    ASSUME NEW u, NEW won \in Nat, NEW played \in Nat, NEW lost, NEW left
    PROVE  /\ ScoreFromWinRate(won, played) \in 1 .. 5
           /\ PerformanceScore(u, won, played, lost, left) \in 1 .. 5
  <1> DEFINE losses == Cardinality(LossesOf(u))
             AverageIsAtLeast(n) == IF losses > 0 THEN CardsOnLosses(u) >= n * losses
                                                  ELSE left >= n
             high == {n \in {10, 15} : AverageIsAtLeast(n)}
             penalty == IF lost = 0 THEN 0 ELSE Cardinality(high)
             score == ScoreFromWinRate(won, played) - penalty
  <1>1. ScoreFromWinRate(won, played) \in 1 .. 5
    BY DEF ScoreFromWinRate
  <1>2. IsFiniteSet({10, 15})
    <2>1. IsFiniteSet({10}) /\ {10} \cup {15} = {10, 15}
      BY FS_Singleton
    <2> QED
      BY <2>1, FS_AddElement
  <1>3. Cardinality(high) \in Nat
    BY <1>2, FS_Subset, FS_CardinalityType
  <1>4. penalty \in Nat
    BY <1>3
  <1>5. PerformanceScore(u, won, played, lost, left) = Max({1, score})
    BY DEF PerformanceScore
  <1> HIDE DEF penalty
  <1>6. score \in Int /\ score <= 5
    BY <1>1, <1>4
  <1> HIDE DEF score
  <1>7. Max({1, score}) \in {1, score} /\ Max({1, score}) >= 1
    <2>1. \E x \in {1, score} : \A y \in {1, score} : x >= y
      BY <1>6
    <2> QED
      BY <2>1 DEF Max
  <1> QED
    BY <1>1, <1>5, <1>6, <1>7

\* The counters of one user move.
LEMMA UpdateTypes ==
    ASSUME TypeInv, UpdateUserStatsIncrement
    PROVE  TypeInv'
  <1>1. MemoryInv /\ DatabaseInv /\ BoundInv /\ SavingInv
    BY DEF TypeInv
  <1>2. saving # Idle /\ saving.stage = "totals"
    BY DEF UpdateUserStatsIncrement, Idle
  <1>3. /\ Entry \in HistoryEntry /\ Player(saving.seat) \in Users
        /\ saving.seat \in Nat
    BY <1>2, EntryType
  <1>4. MemoryInv' /\ BoundInv'
    <2>1. UNCHANGED <<nextGameId, sessions, rows, life, due>>
      BY DEF UpdateUserStatsIncrement
    <2>2. faults' = faults \/ (faults < MaxFaults /\ faults' = faults + 1)
      BY DEF UpdateUserStatsIncrement
    <2>3. nextGameId \in Nat /\ Len(rows) \in Nat /\ MaxFaults \in Nat
      BY <1>1, StoreAssumption DEF MemoryInv, DatabaseInv
    <2> QED
      BY <1>1, <2>1, <2>2, <2>3 DEF MemoryInv, BoundInv
  <1>5. SavingInv'
    BY <1>2, <1>3, ToSeatKeeps DEF UpdateUserStatsIncrement
  <1> DEFINE u == Player(saving.seat)
             played == totals[u].played + 1
             won == totals[u].won + IF Entry.won THEN 1 ELSE 0
             lost == totals[u].lost + IF Entry.won THEN 0 ELSE 1
             new == [played |-> played, won |-> won, lost |-> lost,
                     score |-> PerformanceScore(u, won, played, lost, Entry.cards)]
  <1>6. totals' = [totals EXCEPT ![u] = new] \/ totals' = totals
    BY Zenon DEF UpdateUserStatsIncrement, Incremented
  <1>7. totals[u] \in UserTotals /\ Entry.won \in BOOLEAN
    BY <1>1, <1>3 DEF DatabaseInv, HistoryEntry
  <1>8. played \in Nat /\ won \in Nat /\ lost \in Nat
    BY <1>7 DEF UserTotals
  <1> HIDE DEF played, won, lost
  <1>9. new \in UserTotals
    BY <1>8, ScoreType DEF UserTotals
  <1> HIDE DEF new
  <1>10. DatabaseInv'
    BY <1>1, <1>6, <1>9 DEF DatabaseInv, UpdateUserStatsIncrement
  <1> QED
    BY <1>4, <1>5, <1>10 DEF TypeInv

LEMMA FailTypes ==
    ASSUME TypeInv, SavingFails
    PROVE  TypeInv'
  <1>1. MaxFaults \in Nat
    BY StoreAssumption
  <1>2. MemoryInv' /\ DatabaseInv'
    BY DEF TypeInv, MemoryInv, DatabaseInv, SavingFails, database
  <1>3. BoundInv'
    BY <1>1 DEF TypeInv, BoundInv, MemoryInv, DatabaseInv, SavingFails, database
  <1> QED
    BY <1>2, <1>3 DEF TypeInv, SavingInv, SavingFails

LEMMA RestartTypes ==
    ASSUME TypeInv, Restart
    PROVE  TypeInv'
  <1>1. DatabaseInv'
    BY DEF TypeInv, DatabaseInv, Restart, database
  <1>2. Len(rows) \in Nat /\ rows' = rows /\ nextGameId' = 1 /\ faults' = faults
    BY DEF TypeInv, DatabaseInv, Restart, database
  <1>3. MemoryInv'
    BY DEF MemoryInv, Restart
  <1>4. BoundInv'
    BY <1>2, StoreAssumption DEF TypeInv, BoundInv, Restart
  <1> QED
    BY <1>1, <1>3, <1>4 DEF TypeInv, SavingInv, Restart

LEMMA NextTypes == TypeInv /\ [Next]_vars => TypeInv'
  <1> SUFFICES ASSUME TypeInv, [Next]_vars PROVE TypeInv'
    OBVIOUS
  <1>1. CASE UNCHANGED vars
    BY <1>1 DEF TypeInv, MemoryInv, DatabaseInv, BoundInv, SavingInv, Player, Entry, Game,
                vars, memory, database
  <1> QED
    BY <1>1, CreateTypes, JoinTypes, StartTypes, FinishGameTypes, FinishSessionTypes,
       SavePlayerTypes, UpdateTypes, FailTypes, RestartTypes DEF Next

\* The values memory and database can hold: ids in memory are ones that were
\* handed out, what is being saved is a finished game, and every entry of the
\* history points to a user and to a row.
THEOREM StoreTypes == Spec => []TypeOK
  <1>1. TypeInv => TypeOK
    <2> SUFFICES ASSUME TypeInv PROVE TypeOK
      OBVIOUS
    <2>1. MaxGames \in Nat /\ MaxFaults \in Nat
      BY StoreAssumption
    <2>2. Len(rows) \in Nat
      BY DEF TypeInv, DatabaseInv
    <2>3. nextGameId \in 1 .. (MaxGames + MaxFaults + 1)
      BY <2>1, <2>2 DEF TypeInv, BoundInv, MemoryInv
    <2>4. \A g \in DOMAIN sessions : sessions[g] \in Session
      BY DEF TypeInv, MemoryInv
    <2>5. \A k \in DOMAIN history : k[1] \in Users /\ k[2] \in DOMAIN rows
      BY DEF TypeInv, DatabaseInv
    <2>6. \A u \in Users : totals[u].score \in 1 .. 5
      BY DEF TypeInv, DatabaseInv, UserTotals
    <2>7. saving # Idle =>
             /\ saving.stage \in {"session", "stats", "totals"}
             /\ saving.game \in DOMAIN sessions
             /\ sessions[saving.game].status = "finished"
             /\ saving.stage # "session" =>
                   sessions[saving.game].playerNames[saving.seat] \in Users
      BY DEF TypeInv, SavingInv, SavingStep, Player
    <2> QED
      BY <2>3, <2>4, <2>5, <2>6, <2>7 DEF TypeOK, TypeInv, MemoryInv, Session
  <1> QED
    BY <1>1, InitTypes, NextTypes, PTL DEF Spec

-----------------------------------------------------------------------------
\* The seats of u whose player the saving has not counted yet.
Ahead(u) == IF saving = Idle THEN {}
            ELSE {i \in SeatsOf(u, saving.game) : i >= saving.seat}

\* What a user is still owed is what is ahead of the saving, or was lost.
CountInv ==
    \A u \in Users :
       /\ totals[u].played + Cardinality(Ahead(u)) <= due[u]
       /\ Undisturbed => totals[u].played + Cardinality(Ahead(u)) = due[u]

AwaitsOutcome(g) == saving # Idle /\ saving.stage = "session" /\ saving.game = g

\* While nothing was disturbed, memory and database run in step, but for the
\* row of the game whose saving has just begun.
StepInv ==
    Undisturbed =>
        /\ DOMAIN sessions = 1 .. (nextGameId - 1)
        /\ Len(rows) = nextGameId - 1
        /\ \A g \in DOMAIN rows :
              /\ rows[g].owner = Game(g)
              /\ AwaitsOutcome(g) => rows[g].status = "Waiting"
              /\ ~AwaitsOutcome(g) =>
                    /\ rows[g].status = "Finished" <=> sessions[g].status = "finished"
                    /\ rows[g].won = sessions[g].won
        /\ \A k \in DOMAIN history : history[k].by = Game(k[2])

StoreInv == TypeInv /\ CountInv /\ StepInv

\* A fault or a restart is never undone.
LEMMA DisturbedForGood ==
    ASSUME TypeInv, [Next]_vars, Undisturbed'
    PROVE  Undisturbed /\ life' = life /\ faults' = faults /\ ~Restart /\ ~SavingFails
  <1>1. life \in Nat /\ faults \in Nat
    BY StoreAssumption DEF TypeInv, BoundInv
  <1>2. life' \in {life, life + 1} /\ faults' \in {faults, faults + 1}
    BY Zenon DEF Next, CreateGame, JoinGame, StartGame, FinishGame, FinishSession, SavePlayerStats,
           UpdateUserStatsIncrement, SavingFails, Restart, vars
  <1> QED
    BY <1>1, <1>2 DEF Undisturbed, Restart, SavingFails

\* Going on behind a seat leaves ahead what is behind it.
LEMMA AheadAfter ==
    ASSUME TypeInv, saving # Idle, NEW seat \in Nat, NEW u \in Users,
           saving' = ToSeatAfter(seat), sessions' = sessions
    PROVE  Ahead(u)' = {i \in SeatsOf(u, saving.game) : i > seat}
  <1>1. /\ saving.game \in DOMAIN sessions /\ saving \in SavingStep
        /\ MemoryInv /\ SavingInv
    BY DEF SavingInv, TypeInv
  <1>2. /\ SeatsOf(u, saving.game) \subseteq Nat
        /\ {i \in SeatsOf(u, saving.game) : i > seat} \subseteq KnownAfter(seat)
    <2>1. DOMAIN sessions[saving.game].playerNames \subseteq Nat
      BY <1>1, SeatsType
    <2> QED
      BY <2>1 DEF SeatsOf, KnownAfter, Player
  <1>3. CASE KnownAfter(seat) = {} /\ ToSeatAfter(seat) = Idle
    BY <1>2, <1>3 DEF Ahead
  <1>4. ASSUME NEW i \in KnownAfter(seat), \A j \in KnownAfter(seat) : i <= j,
               ToSeatAfter(seat) = AtSeat(i), ToSeatAfter(seat) # Idle
        PROVE  Ahead(u)' = {j \in SeatsOf(u, saving.game) : j > seat}
    <2>1. i \in Nat /\ i > seat
      BY <1>1, SeatsType DEF KnownAfter
    <2>2. saving'.seat = i /\ saving'.game = saving.game
      BY <1>1, <1>4 DEF SavingStep, AtSeat
    <2>3. SeatsOf(u, saving.game)' = SeatsOf(u, saving.game)
      BY <2>2 DEF SeatsOf
    <2>4. Ahead(u)' = {j \in SeatsOf(u, saving.game) : j >= i}
      BY <1>4, <2>2, <2>3 DEF Ahead
    <2> QED
      BY <1>2, <1>4, <2>1, <2>4
  <1> QED
    BY <1>1, <1>3, <1>4, NextSeat

\* Nothing is ahead where nothing is being saved.
LEMMA AheadOfIdle ==
    ASSUME NEW u, saving = Idle
    PROVE  Ahead(u) = {} /\ Cardinality(Ahead(u)) = 0
  BY FS_EmptySet DEF Ahead

\* The seats ahead are finitely many.
LEMMA AheadType ==
    ASSUME TypeInv, NEW u
    PROVE  IsFiniteSet(Ahead(u)) /\ Cardinality(Ahead(u)) \in Nat
  <1>1. CASE saving = Idle
    BY <1>1, AheadOfIdle, FS_EmptySet
  <1>2. CASE saving # Idle
    <2>1. IsFiniteSet(SeatsOf(u, saving.game))
      BY <1>2, SeatsType DEF TypeInv, SavingInv
    <2>2. Ahead(u) \subseteq SeatsOf(u, saving.game)
      BY <1>2 DEF Ahead
    <2> QED
      BY <2>1, <2>2, FS_Subset, FS_CardinalityType
  <1> QED
    BY <1>1, <1>2

\* The end of a game owes every user at it its seats, all of them ahead.
LEMMA FinishGameCounts ==
    ASSUME StoreInv, NEW g, FinishGame(g)
    PROVE  CountInv'
  <1>1. TypeInv /\ CountInv /\ saving = Idle /\ g \in DOMAIN sessions
    BY DEF StoreInv, FinishGame, MutexFree
  <1>2. PICK left \in [DOMAIN sessions[g].playerNames -> {0, FullHand}] :
           /\ sessions' = [sessions EXCEPT ![g].status = "finished",
                                           ![g].won = \A i \in DOMAIN left : left[i] = 0]
           /\ saving' = [stage |-> "session", game |-> g, seat |-> 0, left |-> left]
    BY Zenon DEF FinishGame
  <1>3. saving' # Idle /\ saving'.game = g /\ saving'.seat = 0
    BY <1>2 DEF Idle
  <1>4. sessions[g] \in Session
    BY <1>1 DEF TypeInv, MemoryInv
  <1>5. sessions'[g].playerNames = sessions[g].playerNames
    BY <1>1, <1>2, <1>4 DEF Session
  <1> SUFFICES ASSUME NEW u \in Users
               PROVE  /\ totals'[u].played + Cardinality(Ahead(u)') <= due'[u]
                      /\ Undisturbed' =>
                            totals'[u].played + Cardinality(Ahead(u)') = due'[u]
    BY DEF CountInv
  <1>6. SeatsOf(u, g)' = SeatsOf(u, g)
    BY <1>5 DEF SeatsOf
  <1>7. Cardinality(SeatsOf(u, g)) \in Nat /\ SeatsOf(u, g) \subseteq Nat
    <2>1. DOMAIN sessions[g].playerNames \subseteq Nat
      BY <1>1, SeatsType DEF TypeInv
    <2> QED
      BY <1>1, <2>1, SeatsType DEF TypeInv, SeatsOf
  <1>8. Ahead(u)' = SeatsOf(u, g)
    BY <1>3, <1>6, <1>7 DEF Ahead
  <1>9. Cardinality(Ahead(u)) = 0
    BY <1>1, AheadOfIdle
  <1>10. due' = [v \in Users |-> due[v] + Cardinality(SeatsOf(v, g))]
    BY Zenon DEF FinishGame
  <1>11. totals' = totals /\ (Undisturbed' => Undisturbed)
    BY DEF FinishGame, database, Undisturbed
  <1>12. totals[u].played \in Nat /\ due[u] \in Nat
    BY <1>1 DEF TypeInv, DatabaseInv, BoundInv, UserTotals
  <1> QED
    BY <1>1, <1>7, <1>8, <1>9, <1>10, <1>11, <1>12 DEF CountInv

\* The row of a game is before its first seat.
LEMMA FinishSessionCounts ==
    ASSUME StoreInv, FinishSession
    PROVE  CountInv'
  <1>1. /\ TypeInv /\ CountInv /\ saving # Idle /\ saving.stage = "session"
        /\ saving.game \in DOMAIN sessions /\ saving.seat = 0
    BY DEF StoreInv, FinishSession, Idle, TypeInv, SavingInv
  <1> SUFFICES ASSUME NEW u \in Users
               PROVE  Ahead(u)' = Ahead(u)
    <2>1. totals' = totals /\ due' = due
      BY DEF FinishSession
    <2>2. TypeInv /\ [Next]_vars
      BY <1>1 DEF Next
    <2> QED
      BY <1>1, <2>1, <2>2, DisturbedForGood DEF CountInv
  <1>2. DOMAIN sessions[saving.game].playerNames \subseteq Nat \ {0}
    BY <1>1, SeatsType DEF TypeInv
  <1>3. Ahead(u)' = {i \in SeatsOf(u, saving.game) : i > 0}
    BY <1>1, AheadAfter DEF FinishSession
  <1> QED
    BY <1>1, <1>2, <1>3 DEF Ahead, SeatsOf

\* A player's entry is written before it is counted; the missing row that ends
\* the saving there is a sign of an earlier disturbance.
LEMMA SavePlayerCounts ==
    ASSUME StoreInv, SavePlayerStats
    PROVE  CountInv'
  <1>1. /\ TypeInv /\ CountInv /\ saving # Idle /\ saving.stage = "stats"
        /\ saving \in SavingStep
    BY DEF StoreInv, SavePlayerStats, Idle, TypeInv, SavingInv
  <1>2. totals' = totals /\ due' = due /\ sessions' = sessions
        /\ (Undisturbed' => Undisturbed)
    BY DEF SavePlayerStats, Undisturbed
  <1>3. CASE saving' = [saving EXCEPT !.stage = "totals"]
    <2>1. /\ saving'.game = saving.game /\ saving'.seat = saving.seat
          /\ saving'.stage = "totals"
      BY <1>1, <1>3 DEF SavingStep
    <2>2. saving' # Idle
      BY <2>1 DEF Idle
    <2>3. \A u \in Users : Ahead(u)' = Ahead(u)
      BY <1>1, <1>2, <2>1, <2>2 DEF Ahead, SeatsOf
    <2> QED
      BY <1>1, <1>2, <2>3 DEF CountInv
  <1>4. CASE saving' = Idle /\ saving.game \notin DOMAIN rows
    <2>1. ~Undisturbed
      <3> SUFFICES ASSUME Undisturbed PROVE FALSE
        OBVIOUS
      <3>1. DOMAIN sessions = 1 .. (nextGameId - 1) /\ Len(rows) = nextGameId - 1
        BY DEF StoreInv, StepInv
      <3>2. DOMAIN rows = 1 .. Len(rows)
        BY <1>1 DEF TypeInv, DatabaseInv
      <3> QED
        BY <1>1, <1>4, <3>1, <3>2 DEF TypeInv, SavingInv
    <2> SUFFICES ASSUME NEW u \in Users
                 PROVE  totals[u].played + Cardinality(Ahead(u)') <= due[u]
      BY <1>2, <2>1 DEF CountInv
    <2>2. Cardinality(Ahead(u)') = 0
      BY <1>4, FS_EmptySet DEF Ahead
    <2>3. totals[u].played \in Nat /\ due[u] \in Nat
      BY <1>1 DEF TypeInv, DatabaseInv, BoundInv, UserTotals
    <2> QED
      BY <1>1, <2>2, <2>3, AheadType DEF CountInv
  <1> QED
    BY <1>3, <1>4 DEF SavePlayerStats

\* Only UpdateUserStatsIncrement moves counters.
LEMMA TotalsMoveOnUpdate ==
    ASSUME [Next]_vars, ~UpdateUserStatsIncrement
    PROVE  totals' = totals
  BY Zenon DEF Next, CreateGame, JoinGame, StartGame, FinishGame, FinishSession,
     SavePlayerStats, SavingFails, Restart, vars, database

\* Counting moves the totals of the player at the seat alone, or of nobody.
LEMMA WhatIsCounted ==
    ASSUME TypeInv, UpdateUserStatsIncrement, totals' # totals
    PROVE  /\ totals' = [totals EXCEPT ![Player(saving.seat)] = Incremented(Player(saving.seat))]
           /\ faults' = faults
  BY Zenon DEF UpdateUserStatsIncrement

\* A player that is not counted was passed over because of an error.
LEMMA PassedOverOnAFault ==
    ASSUME TypeInv, UpdateUserStatsIncrement, totals' = totals
    PROVE  ~Undisturbed'
  <1> DEFINE u == Player(saving.seat)
  <1>1. saving # Idle /\ saving.stage = "totals"
    BY DEF UpdateUserStatsIncrement, Idle
  <1>2. u \in Users /\ totals \in [Users -> UserTotals] /\ totals[u] \in UserTotals
    BY <1>1, EntryType DEF TypeInv, DatabaseInv
  <1>3. totals # [totals EXCEPT ![u] = Incremented(u)]
    <2>1. Incremented(u).played = totals[u].played + 1 /\ totals[u].played \in Nat
      BY <1>2 DEF Incremented, UserTotals
    <2>2. Incremented(u) # totals[u]
      BY <2>1
    <2> HIDE DEF u
    <2> QED
      BY <1>2, <2>2
  <1>4. faults' = faults + 1
    BY <1>3, Zenon DEF UpdateUserStatsIncrement
  <1> QED
    BY <1>4 DEF Undisturbed, TypeInv, BoundInv

\* A seat is counted, or not counted for good, and is no longer ahead; a seat of
\* nobody else was passed.
LEMMA UpdateCounts ==
    ASSUME StoreInv, UpdateUserStatsIncrement
    PROVE  CountInv'
  <1>1. /\ TypeInv /\ CountInv /\ saving # Idle /\ saving.stage = "totals"
        /\ saving.game \in DOMAIN sessions
        /\ saving.seat \in DOMAIN sessions[saving.game].playerNames
        /\ Player(saving.seat) \in Users /\ saving.seat \in Nat
    BY EntryType DEF StoreInv, UpdateUserStatsIncrement, Idle, TypeInv, SavingInv
  <1>2. due' = due /\ sessions' = sessions /\ (Undisturbed' => Undisturbed)
    BY <1>1, DisturbedForGood DEF UpdateUserStatsIncrement, Next
  <1>3. DOMAIN sessions[saving.game].playerNames \subseteq Nat
    BY <1>1, SeatsType DEF TypeInv
  <1>4. \A u \in Users :
           Ahead(u)' = {i \in SeatsOf(u, saving.game) : i > saving.seat}
    BY <1>1, <1>2, AheadAfter DEF UpdateUserStatsIncrement
  <1>5. \A u \in Users :
           Ahead(u) = {i \in SeatsOf(u, saving.game) : i >= saving.seat}
    BY <1>1 DEF Ahead
  <1>6. totals \in [Users -> UserTotals] /\ \A u \in Users : totals[u] \in UserTotals
    BY <1>1 DEF TypeInv, DatabaseInv
  <1>7. \A u \in Users \ {Player(saving.seat)} :
           Ahead(u)' = Ahead(u) /\ totals'[u] = totals[u]
    <2>1. \A u \in Users \ {Player(saving.seat)} : totals'[u] = totals[u]
      BY <1>1, <1>6, WhatIsCounted
    <2>2. \A u \in Users \ {Player(saving.seat)} : saving.seat \notin SeatsOf(u, saving.game)
      BY DEF SeatsOf, Player
    <2>3. \A u \in Users : SeatsOf(u, saving.game) \subseteq Nat
      BY <1>3 DEF SeatsOf
    <2>4. ASSUME NEW u \in Users \ {Player(saving.seat)}
          PROVE  Ahead(u)' = Ahead(u)
      <3>1. {i \in SeatsOf(u, saving.game) : i > saving.seat}
            = {i \in SeatsOf(u, saving.game) : i >= saving.seat}
        BY <1>1, <2>2, <2>3
      <3> QED
        BY <1>4, <1>5, <3>1
    <2> QED
      BY <2>1, <2>4
  <1>8. ASSUME NEW u \in Users, u = Player(saving.seat)
        PROVE  /\ Cardinality(Ahead(u)') = Cardinality(Ahead(u)) - 1
               /\ totals' = totals \/ totals'[u].played = totals[u].played + 1
    <2>1. saving.seat \in Ahead(u)
      BY <1>1, <1>5, <1>8 DEF SeatsOf, Player
    <2>2. Ahead(u)' = Ahead(u) \ {saving.seat}
      <3>1. SeatsOf(u, saving.game) \subseteq Nat
        BY <1>3 DEF SeatsOf
      <3> QED
        BY <1>1, <1>4, <1>5, <3>1
    <2>3. Cardinality(Ahead(u)') = Cardinality(Ahead(u)) - 1
      BY <1>1, <2>1, <2>2, AheadType, FS_RemoveElement
    <2>4. ASSUME totals' # totals
          PROVE  totals'[u].played = totals[u].played + 1
      <3>1. totals'[u] = Incremented(u)
        BY <1>1, <1>6, <1>8, <2>4, WhatIsCounted
      <3> QED
        BY <3>1 DEF Incremented
    <2> QED
      BY <2>3, <2>4
  <1>9. \A u \in Users : Cardinality(Ahead(u)) \in Nat /\ due[u] \in Nat
                         /\ totals[u].played \in Nat
    BY <1>1, <1>6, AheadType DEF TypeInv, BoundInv, UserTotals
  <1>10. \A u \in Users :
            /\ totals[u].played + Cardinality(Ahead(u)) <= due[u]
            /\ Undisturbed => totals[u].played + Cardinality(Ahead(u)) = due[u]
    BY <1>1 DEF CountInv
  <1> SUFFICES ASSUME NEW u \in Users
               PROVE  /\ totals'[u].played + Cardinality(Ahead(u)') <= due[u]
                      /\ Undisturbed' =>
                            totals'[u].played + Cardinality(Ahead(u)') = due[u]
    BY <1>2 DEF CountInv
  <1>11. CASE u = Player(saving.seat) /\ totals' # totals
    BY <1>2, <1>8, <1>9, <1>10, <1>11
  <1>12. CASE u = Player(saving.seat) /\ totals' = totals
    <2>1. ~Undisturbed'
      BY <1>1, <1>12, PassedOverOnAFault
    <2> QED
      BY <1>8, <1>9, <1>10, <1>12, <2>1
  <1>13. CASE u # Player(saving.seat)
    BY <1>2, <1>7, <1>10, <1>13
  <1> QED
    BY <1>11, <1>12, <1>13

\* What ends a saving early leaves users with less than they are owed.
LEMMA CutOffCounts ==
    ASSUME StoreInv, SavingFails \/ Restart
    PROVE  CountInv'
  <1>1. TypeInv /\ CountInv /\ saving' = Idle /\ totals' = totals /\ due' = due
    BY DEF StoreInv, SavingFails, Restart, database
  <1>2. ~Undisturbed'
    BY <1>1, DisturbedForGood DEF Next
  <1>3. \A u \in Users : Cardinality(Ahead(u)') = 0
    BY <1>1, FS_EmptySet DEF Ahead
  <1>4. \A u \in Users : /\ totals[u].played \in Nat /\ due[u] \in Nat
                         /\ Cardinality(Ahead(u)) \in Nat
    BY <1>1, AheadType DEF TypeInv, DatabaseInv, BoundInv, UserTotals
  <1> QED
    BY <1>1, <1>2, <1>3, <1>4 DEF CountInv

\* What happens between savings owes nobody anything.
LEMMA OthersCount ==
    ASSUME StoreInv, [Next]_vars, saving = Idle, saving' = Idle,
           totals' = totals, due' = due
    PROVE  CountInv'
  <1>1. TypeInv /\ CountInv /\ (Undisturbed' => Undisturbed)
    BY DisturbedForGood DEF StoreInv
  <1>2. \A u \in Users : Ahead(u)' = Ahead(u)
    BY DEF Ahead
  <1> QED
    BY <1>1, <1>2 DEF CountInv

LEMMA NextCounts == StoreInv /\ [Next]_vars => CountInv'
  <1> SUFFICES ASSUME StoreInv, [Next]_vars PROVE CountInv'
    OBVIOUS
  <1>1. CASE UNCHANGED vars
    BY <1>1 DEF StoreInv, CountInv, Ahead, SeatsOf, Undisturbed, vars, memory, database
  <1>2. ASSUME NEW m \in 2 .. MaxSeats, CreateGame(m)
        PROVE  CountInv'
    BY <1>2, OthersCount DEF CreateGame, MutexFree
  <1>3. ASSUME NEW g, NEW name, JoinGame(g, name)
        PROVE  CountInv'
    BY <1>3, OthersCount DEF JoinGame, MutexFree, database
  <1>4. ASSUME NEW g, StartGame(g)
        PROVE  CountInv'
    BY <1>4, OthersCount DEF StartGame, MutexFree, database
  <1> QED
    BY <1>1, <1>2, <1>3, <1>4, FinishGameCounts, FinishSessionCounts, SavePlayerCounts,
       UpdateCounts, CutOffCounts DEF Next

-----------------------------------------------------------------------------
\* A game and its row are created under one id.
LEMMA CreateInStep ==
    ASSUME StoreInv, NEW m \in 2 .. MaxSeats, CreateGame(m), Undisturbed, faults' = faults
    PROVE  StepInv'
  <1>1. TypeInv /\ StepInv /\ saving = Idle /\ saving' = saving
        /\ nextGameId' = nextGameId + 1 /\ nextGameId \in Nat \ {0} /\ rows \in Seq(Row)
        /\ life' = life /\ history' = history
    BY DEF StoreInv, CreateGame, MutexFree, TypeInv, MemoryInv, DatabaseInv
  <1>2. /\ rows' = Append(rows, NewRow(nextGameId))
        /\ sessions' = Extend(sessions, nextGameId, NewSession(m))
    <2>1. faults # faults + 1
      BY StoreAssumption, <1>1 DEF TypeInv, BoundInv
    <2> QED
      BY <2>1 DEF CreateGame
  <1>3. DOMAIN sessions' = 1 .. (nextGameId' - 1) /\ Len(rows') = nextGameId' - 1
    BY <1>1, <1>2 DEF StepInv, Extend
  <1>4. ASSUME NEW g \in DOMAIN rows'
        PROVE  /\ rows'[g].owner = Game(g)'
               /\ rows'[g].status = "Finished" <=> sessions'[g].status = "finished"
               /\ rows'[g].won = sessions'[g].won
    <2>1. CASE g = nextGameId
      <3>1. rows'[g] = NewRow(g) /\ sessions'[g] = NewSession(m)
        BY <1>1, <1>2, <2>1 DEF StepInv, Extend
      <3> QED
        BY <1>1, <3>1 DEF NewRow, NewSession, Game
    <2>2. CASE g # nextGameId
      <3>1. g \in DOMAIN rows /\ g \in DOMAIN sessions
        BY <1>1, <1>2, <2>2 DEF StepInv
      <3>2. rows'[g] = rows[g] /\ sessions'[g] = sessions[g]
        BY <1>1, <1>2, <2>2, <3>1 DEF Extend
      <3> QED
        BY <1>1, <3>1, <3>2 DEF StepInv, Game, AwaitsOutcome
    <2> QED
      BY <2>1, <2>2
  <1>5. \A k \in DOMAIN history' : history'[k].by = Game(k[2])'
    BY <1>1 DEF StepInv, Game
  <1> QED
    BY <1>1, <1>3, <1>4, <1>5 DEF StepInv, AwaitsOutcome

\* The steps between a game's creation and its end leave the rows alone.
LEMMA PlayInStep ==
    ASSUME StoreInv, Undisturbed, saving = Idle, saving' = Idle,
           UNCHANGED <<nextGameId, database, life, faults>>,
           DOMAIN sessions' = DOMAIN sessions,
           \A g \in DOMAIN sessions :
              /\ sessions'[g].won = sessions[g].won
              /\ sessions'[g].status = "finished" <=> sessions[g].status = "finished"
    PROVE  StepInv'
  <1>1. DOMAIN rows = DOMAIN sessions
    BY DEF StoreInv, TypeInv, MemoryInv, DatabaseInv, StepInv
  <1> QED
    BY <1>1 DEF StoreInv, StepInv, AwaitsOutcome, Game, database

\* The end of a game leaves its row to the saving that begins.
LEMMA FinishGameInStep ==
    ASSUME StoreInv, NEW g, FinishGame(g), Undisturbed
    PROVE  StepInv'
  <1>1. /\ TypeInv /\ StepInv /\ saving = Idle /\ g \in DOMAIN sessions
        /\ UNCHANGED <<nextGameId, database, life, faults>>
    BY DEF StoreInv, FinishGame, MutexFree
  <1>2. PICK left \in [DOMAIN sessions[g].playerNames -> {0, FullHand}] :
           /\ \/ sessions[g].status = "playing"
              \/ sessions[g].status = "waiting" /\ \A i \in DOMAIN left : left[i] = 0
           /\ sessions' = [sessions EXCEPT ![g].status = "finished",
                                           ![g].won = \A i \in DOMAIN left : left[i] = 0]
           /\ saving' = [stage |-> "session", game |-> g, seat |-> 0, left |-> left]
    BY Zenon DEF FinishGame
  <1>3. saving' # Idle /\ saving'.game = g /\ saving'.stage = "session"
    BY <1>2 DEF Idle
  <1>4. DOMAIN sessions' = DOMAIN sessions /\ \A h \in DOMAIN sessions \ {g} : sessions'[h] = sessions[h]
    BY <1>2
  <1>5. sessions[g].status # "finished"
    BY <1>2
  <1>6. rows[g].status = "Waiting"
    <2>1. DOMAIN rows = DOMAIN sessions /\ rows[g] \in Row
      BY <1>1 DEF TypeInv, MemoryInv, DatabaseInv, StepInv
    <2>2. rows[g].status # "Finished"
      BY <1>1, <1>5, <2>1 DEF StepInv, AwaitsOutcome
    <2> QED
      BY <2>1, <2>2 DEF Row
  <1> QED
    BY <1>1, <1>3, <1>4, <1>6 DEF StepInv, AwaitsOutcome, Game, database

\* What ToSeatAfter leads to is not about the row of the game any more.
LEMMA OutcomeDealtWith ==
    ASSUME TypeInv, saving # Idle, NEW seat \in Nat, saving' = ToSeatAfter(seat)
    PROVE  \A g : ~AwaitsOutcome(g)'
  <1>1. MemoryInv /\ SavingInv /\ saving \in SavingStep
    BY DEF TypeInv, SavingInv
  <1>2. \A i : AtSeat(i).stage = "stats"
    BY <1>1 DEF AtSeat, SavingStep
  <1> QED
    BY <1>1, <1>2, NextSeat DEF AwaitsOutcome

\* The row of the game gets the status and the outcome that memory has.
LEMMA FinishSessionInStep ==
    ASSUME StoreInv, FinishSession, Undisturbed, faults' = faults
    PROVE  StepInv'
  <1>1. /\ TypeInv /\ StepInv /\ saving # Idle /\ saving.stage = "session"
        /\ saving.game \in DOMAIN sessions /\ sessions[saving.game].status = "finished"
        /\ UNCHANGED <<nextGameId, sessions, history, life>>
    BY DEF StoreInv, FinishSession, Idle, TypeInv, SavingInv
  <1>2. /\ DOMAIN rows = DOMAIN sessions /\ rows \in Seq(Row) /\ rows[saving.game] \in Row
        /\ sessions[saving.game] \in Session
    BY <1>1 DEF TypeInv, MemoryInv, DatabaseInv, StepInv
  <1>3. rows[saving.game].status # "Finished"
    BY <1>1, <1>2 DEF StepInv, AwaitsOutcome
  <1>4. rows' = [rows EXCEPT ![saving.game].status = "Finished",
                             ![saving.game].won = sessions[saving.game].won]
    <2>1. faults # faults + 1
      BY StoreAssumption, <1>1 DEF TypeInv, BoundInv
    <2> QED
      BY <1>1, <1>2, <1>3, <2>1 DEF FinishSession
  <1>5. /\ Len(rows') = Len(rows) /\ DOMAIN rows' = DOMAIN rows
        /\ rows'[saving.game].status = "Finished"
        /\ rows'[saving.game].won = sessions[saving.game].won
        /\ rows'[saving.game].owner = rows[saving.game].owner
        /\ \A g \in DOMAIN rows \ {saving.game} : rows'[g] = rows[g]
    <2> DEFINE new == [rows[saving.game] EXCEPT !.status = "Finished",
                                                !.won = sessions[saving.game].won]
    <2>1. new.status = "Finished" /\ new.won = sessions[saving.game].won
          /\ new.owner = rows[saving.game].owner
      BY <1>2 DEF Row
    <2>2. rows' = [rows EXCEPT ![saving.game] = new]
      BY <1>4
    <2>3. saving.game \in DOMAIN rows
      BY <1>1, <1>2
    <2> HIDE DEF new
    <2> QED
      BY <1>2, <2>1, <2>2, <2>3
  <1>6. \A g : ~AwaitsOutcome(g)'
    BY <1>1, OutcomeDealtWith DEF FinishSession
  <1>7. \A g : AwaitsOutcome(g) <=> g = saving.game
    BY <1>1 DEF AwaitsOutcome
  <1> QED
    BY <1>1, <1>2, <1>5, <1>6, <1>7 DEF StepInv, Game

\* An entry is written on the row of its game.
LEMMA SavePlayerInStep ==
    ASSUME StoreInv, SavePlayerStats, Undisturbed
    PROVE  StepInv'
  <1>1. /\ TypeInv /\ StepInv /\ saving # Idle /\ saving.stage = "stats"
        /\ saving \in SavingStep
        /\ UNCHANGED <<nextGameId, sessions, rows, life, faults>>
    BY DEF StoreInv, SavePlayerStats, Idle, TypeInv, SavingInv
  <1>2. \A g : ~AwaitsOutcome(g) /\ ~AwaitsOutcome(g)'
    BY <1>1 DEF AwaitsOutcome, SavePlayerStats, SavingStep
  <1>3. Entry.by = Game(saving.game)
    BY DEF Entry
  <1> DEFINE k == <<Player(saving.seat), saving.game>>
  <1>4. history' = history \/ history' = Extend(history, k, Entry)
    BY DEF SavePlayerStats
  <1>5. \A h \in DOMAIN history : history[h].by = Game(h[2])
    BY <1>1 DEF StepInv
  <1>6. \A h \in DOMAIN history' : history'[h].by = Game(h[2])
    BY <1>3, <1>4, <1>5 DEF Extend
  <1> QED
    BY <1>1, <1>2, <1>6 DEF StepInv, Game

LEMMA UpdateInStep ==
    ASSUME StoreInv, UpdateUserStatsIncrement, Undisturbed, faults' = faults
    PROVE  StepInv'
  <1>1. /\ TypeInv /\ StepInv /\ saving # Idle /\ saving.stage = "totals"
        /\ saving.seat \in Nat
        /\ UNCHANGED <<nextGameId, sessions, rows, history, life, faults>>
    BY EntryType DEF StoreInv, UpdateUserStatsIncrement, Idle, TypeInv, SavingInv
  <1>2. \A g : ~AwaitsOutcome(g) /\ ~AwaitsOutcome(g)'
    BY <1>1, OutcomeDealtWith DEF AwaitsOutcome, UpdateUserStatsIncrement
  <1> QED
    BY <1>1, <1>2 DEF StepInv, Game

LEMMA NextInStep == StoreInv /\ [Next]_vars => StepInv'
  <1> SUFFICES ASSUME StoreInv, [Next]_vars, Undisturbed' PROVE StepInv'
    BY DEF StepInv
  <1>1. /\ TypeInv /\ MemoryInv
        /\ Undisturbed /\ life' = life /\ faults' = faults /\ ~Restart /\ ~SavingFails
    BY DisturbedForGood DEF StoreInv, TypeInv
  <1>2. CASE UNCHANGED vars
    BY <1>2 DEF StoreInv, StepInv, AwaitsOutcome, Game, Undisturbed, vars, memory, database
  <1>3. ASSUME NEW g, NEW name, JoinGame(g, name)
        PROVE  StepInv'
    <2>1. sessions[g] \in Session /\ sessions[g].status = "waiting" /\ g \in DOMAIN sessions
      BY <1>1, <1>3 DEF JoinGame, MemoryInv
    <2>2. /\ DOMAIN sessions' = DOMAIN sessions
          /\ \A h \in DOMAIN sessions \ {g} : sessions'[h] = sessions[h]
          /\ sessions'[g].won = sessions[g].won
          /\ sessions'[g].status # "finished"
      BY <1>3, <2>1 DEF JoinGame, Session
    <2> QED
      BY <1>1, <1>3, <2>1, <2>2, PlayInStep DEF JoinGame, MutexFree
  <1>4. ASSUME NEW g, StartGame(g)
        PROVE  StepInv'
    <2>1. sessions[g] \in Session /\ sessions[g].status = "waiting" /\ g \in DOMAIN sessions
      BY <1>1, <1>4 DEF StartGame, MemoryInv
    <2>2. /\ DOMAIN sessions' = DOMAIN sessions
          /\ \A h \in DOMAIN sessions \ {g} : sessions'[h] = sessions[h]
          /\ sessions'[g].won = sessions[g].won
          /\ sessions'[g].status # "finished"
      BY <1>4, <2>1 DEF StartGame, Session
    <2> QED
      BY <1>1, <1>4, <2>1, <2>2, PlayInStep DEF StartGame, MutexFree
  <1> QED
    BY <1>1, <1>2, <1>3, <1>4, CreateInStep, FinishGameInStep, FinishSessionInStep,
       SavePlayerInStep, UpdateInStep DEF Next

\* What the claims below follow from: the types, what users are still owed, and
\* the step of memory and database.
THEOREM StoreInvariant == Spec => []StoreInv
  <1>1. Init => StoreInv
    <2> SUFFICES ASSUME Init PROVE StoreInv
      OBVIOUS
    <2>1. TypeInv
      BY InitTypes
    <2>2. CountInv
      BY FS_EmptySet DEF Init, CountInv, Ahead, NoTotals
    <2>3. StepInv
      BY DEF Init, StepInv
    <2> QED
      BY <2>1, <2>2, <2>3 DEF StoreInv
  <1>2. StoreInv /\ [Next]_vars => StoreInv'
    BY NextTypes, NextCounts, NextInStep DEF StoreInv
  <1> QED
    BY <1>1, <1>2, PTL DEF Spec

\* The exception of SavePlayerStats keeps UpdateUserStatsIncrement from running:
\* what is counted of a player was recorded of that very game just before.
THEOREM CountersCoveredByHistory == Spec => RecordedBeforeCounted
  <1>1. TypeInv /\ [Next]_vars =>
           [\A u \in Users : totals'[u].played > totals[u].played =>
              LET k == <<u, saving.game>>
              IN  /\ k \in DOMAIN history
                  /\ history[k].by = Game(saving.game)
                  /\ history[k].won <=> totals'[u].won > totals[u].won]_vars
    <2> SUFFICES ASSUME TypeInv, [Next]_vars, NEW u \in Users,
                        totals'[u].played > totals[u].played
                 PROVE  /\ <<u, saving.game>> \in DOMAIN history
                        /\ history[<<u, saving.game>>].by = Game(saving.game)
                        /\ history[<<u, saving.game>>].won <=> totals'[u].won > totals[u].won
      OBVIOUS
    <2>1. totals \in [Users -> UserTotals] /\ totals[u] \in UserTotals
      BY DEF TypeInv, DatabaseInv
    <2>2. totals'[u] # totals[u]
      BY <2>1 DEF UserTotals
    <2>3. UpdateUserStatsIncrement
      BY <2>2, TotalsMoveOnUpdate
    <2>4. totals' = [totals EXCEPT ![Player(saving.seat)] = Incremented(Player(saving.seat))]
      BY <2>2, <2>3, WhatIsCounted
    <2>5. u = Player(saving.seat)
      BY <2>1, <2>2, <2>4
    <2>6. saving # Idle /\ saving.stage = "totals"
      BY <2>3 DEF UpdateUserStatsIncrement, Idle
    <2>7. <<u, saving.game>> \in DOMAIN history /\ history[<<u, saving.game>>] = Entry
      BY <2>5, <2>6 DEF TypeInv, SavingInv
    <2>8. Entry.by = Game(saving.game) /\ Entry.won \in BOOLEAN
      BY <2>6, EntryType DEF Entry, HistoryEntry
    <2>9. totals'[u] = Incremented(u)
      BY <2>1, <2>4, <2>5
    <2>10. totals'[u].won = totals[u].won + IF Entry.won THEN 1 ELSE 0
      BY <2>9 DEF Incremented
    <2>11. totals'[u].won > totals[u].won <=> Entry.won
      BY <2>1, <2>8, <2>10 DEF UserTotals
    <2> QED
      BY <2>7, <2>8, <2>11
  <1> QED
    BY <1>1, InitTypes, NextTypes, PTL DEF Spec, RecordedBeforeCounted

\* No failure and no restart makes a seat of a finished game count twice: the
\* loop of FinishGameAndSaveStats never goes back and nothing starts it again.
THEOREM AtMostOnce == Spec => []CountedAtMostOnce
  <1>1. StoreInv => CountedAtMostOnce
    <2> SUFFICES ASSUME StoreInv, NEW u \in Users
                 PROVE  totals[u].played <= due[u]
      BY DEF CountedAtMostOnce
    <2>1. /\ totals[u].played \in Nat /\ due[u] \in Nat
          /\ Cardinality(Ahead(u)) \in Nat
      BY AheadType DEF StoreInv, TypeInv, DatabaseInv, BoundInv, UserTotals
    <2> QED
      BY <2>1 DEF StoreInv, CountInv
  <1> QED
    BY <1>1, StoreInvariant, PTL

\* Without errors and restarts every seat of a finished game that a user held is
\* counted, wherever guests sit between them.
THEOREM ExactlyOnceUnlessDisturbed == Spec => []CountedUnlessDisturbed
  <1>1. StoreInv => CountedUnlessDisturbed
    <2> SUFFICES ASSUME StoreInv, Undisturbed, saving = Idle, NEW u \in Users
                 PROVE  totals[u].played = due[u]
      BY DEF CountedUnlessDisturbed, MutexFree
    <2>1. totals[u].played \in Nat /\ due[u] \in Nat /\ Cardinality(Ahead(u)) = 0
      BY AheadOfIdle DEF StoreInv, TypeInv, DatabaseInv, BoundInv, UserTotals
    <2> QED
      BY <2>1 DEF StoreInv, CountInv
  <1> QED
    BY <1>1, StoreInvariant, PTL

\* Until something fails, the id of a game in memory is the id of its row: what
\* is written of a game is written on that row and says what memory says.
THEOREM OwnRow == Spec => []OwnRowUntilDisturbed
  <1>1. StoreInv => OwnRowUntilDisturbed
    <2> SUFFICES ASSUME StoreInv, Undisturbed PROVE OwnRowUntilDisturbed
      BY DEF OwnRowUntilDisturbed
    <2>1. DOMAIN rows = DOMAIN sessions
      BY DEF StoreInv, TypeInv, MemoryInv, DatabaseInv, StepInv
    <2>2. \A k \in DOMAIN history : k[2] \in DOMAIN rows
      BY DEF StoreInv, TypeInv, DatabaseInv
    <2> QED
      BY <2>1, <2>2 DEF StoreInv, StepInv, OwnRowUntilDisturbed, AwaitsOutcome, MutexFree
  <1> QED
    BY <1>1, StoreInvariant, PTL

\* A row that is finished is never written again, whichever game reaches its
\* number later: FinishSession looks at the status first.
THEOREM OutcomesStand == Spec => FirstOutcomeStands
  <1>1. TypeInv /\ [Next]_vars =>
           [\A r \in DOMAIN rows : rows[r].status = "Finished" => rows'[r] = rows[r]]_vars
    <2> SUFFICES ASSUME TypeInv, [Next]_vars, NEW r \in DOMAIN rows,
                        rows[r].status = "Finished"
                 PROVE  rows'[r] = rows[r]
      OBVIOUS
    <2>1. rows \in Seq(Row)
      BY DEF TypeInv, DatabaseInv
    <2>2. CASE rows' = rows
      BY <2>2
    <2>3. ASSUME NEW m \in 2 .. MaxSeats, CreateGame(m)
          PROVE  rows'[r] = rows[r]
      BY <2>1, <2>3 DEF CreateGame
    <2>4. CASE FinishSession
      BY <2>1, <2>4 DEF FinishSession
    <2>5. rows' = rows \/ (\E m \in 2 .. MaxSeats : CreateGame(m)) \/ FinishSession
      BY Zenon DEF Next, JoinGame, StartGame, FinishGame, SavePlayerStats,
         UpdateUserStatsIncrement, SavingFails, Restart, vars, database
    <2> QED
      BY <2>2, <2>3, <2>4, <2>5
  <1> QED
    BY <1>1, InitTypes, NextTypes, PTL DEF Spec, FirstOutcomeStands

-----------------------------------------------------------------------------
\* With hands of fewer than 10 cards no point comes off: the losses in the
\* history hold at most 9 cards each.
LEMMA NoPenalty ==
    ASSUME TypeInv, FullHand < 10, NEW u, NEW won \in Nat, NEW played \in Nat,
           NEW lost, NEW left \in {0, FullHand}
    PROVE  PerformanceScore(u, won, played, lost, left) = ScoreFromWinRate(won, played)
  <1> DEFINE losses == Cardinality(LossesOf(u))
             AverageIsAtLeast(n) == IF losses > 0 THEN CardsOnLosses(u) >= n * losses
                                                  ELSE left >= n
             high == {n \in {10, 15} : AverageIsAtLeast(n)}
             cards == [k \in DOMAIN history |-> history[k].cards]
  <1>1. FullHand \in Nat
    BY StoreAssumption
  <1>2. IsFiniteSet(LossesOf(u)) /\ losses \in Nat
    <2>1. LossesOf(u) \subseteq DOMAIN history /\ IsFiniteSet(DOMAIN history)
      BY DEF LossesOf, TypeInv, DatabaseInv
    <2> QED
      BY <2>1, FS_Subset, FS_CardinalityType
  <1>3. \A k \in LossesOf(u) : cards[k] \in 0 .. 9
    BY <1>1 DEF LossesOf, TypeInv, DatabaseInv, HistoryEntry
  <1>4. CardsOnLosses(u) \in Nat /\ CardsOnLosses(u) <= 9 * losses
    <2> HIDE DEF cards
    <2>1. SumFunctionOnSet(cards, LossesOf(u)) \in Nat
      BY <1>2, <1>3, SumType
    <2>2. SumFunctionOnSet(cards, LossesOf(u)) <= 9 * losses
      BY <1>2, <1>3, SumAtMost
    <2> QED
      BY <2>1, <2>2 DEF CardsOnLosses, cards
  <1>5. ~AverageIsAtLeast(10) /\ ~AverageIsAtLeast(15)
    <2> HIDE DEF losses
    <2> QED
      BY <1>1, <1>2, <1>4
  <1>6. high = {}
    BY <1>5
  <1>7. Cardinality(high) = 0
    BY <1>6, FS_EmptySet
  <1>8. PerformanceScore(u, won, played, lost, left) = Max({1, ScoreFromWinRate(won, played) - 0})
    <2>1. PerformanceScore(u, won, played, lost, left) =
             Max({1, ScoreFromWinRate(won, played) -
                        (IF lost = 0 THEN 0 ELSE Cardinality(high))})
      BY DEF PerformanceScore
    <2> HIDE DEF high
    <2> QED
      BY <1>7, <2>1
  <1>9. ScoreFromWinRate(won, played) \in 1 .. 5
    BY DEF ScoreFromWinRate
  <1>10. ASSUME NEW s \in 1 .. 5 PROVE Max({1, s - 0}) = s
    <2>1. /\ \E x \in {1, s - 0} : \A y \in {1, s - 0} : x >= y
          /\ \A x \in {1, s - 0} : (\A y \in {1, s - 0} : x >= y) => x = s
      BY <1>10
    <2> QED
      BY <2>1 DEF Max
  <1> QED
    BY <1>8, <1>9, <1>10

\* The counters of a user add up, and the score is the one of their rate.
ScoreInv ==
    \A u \in Users :
       /\ totals[u].played = totals[u].won + totals[u].lost
       /\ totals[u].score = IF totals[u].played = 0 THEN 1
                            ELSE ScoreFromWinRate(totals[u].won, totals[u].played)

\* One more result moves the score of a user, and of nobody else.
LEMMA UpdateScores ==
    ASSUME TypeInv, ScoreInv, FullHand < 10, UpdateUserStatsIncrement, totals' # totals
    PROVE  \E u \in Users, w \in {0, 1} :
              /\ \A v \in Users \ {u} : totals'[v] = totals[v]
              /\ totals'[u].played = totals[u].played + 1
              /\ totals'[u].won = totals[u].won + w
              /\ totals'[u].lost = totals[u].lost + 1 - w
              /\ totals'[u].score =
                    ScoreFromWinRate(totals[u].won + w, totals[u].played + 1)
  <1>1. saving # Idle /\ saving.stage = "totals"
    BY DEF UpdateUserStatsIncrement, Idle
  <1>2. Entry \in HistoryEntry /\ Player(saving.seat) \in Users
    BY <1>1, EntryType
  <1> DEFINE u == Player(saving.seat)
             w == IF Entry.won THEN 1 ELSE 0
             l == IF Entry.won THEN 0 ELSE 1
  <1>3. totals' = [totals EXCEPT ![u] =
           [played |-> totals[u].played + 1, won |-> totals[u].won + w,
            lost |-> totals[u].lost + l,
            score |-> PerformanceScore(u, totals[u].won + w, totals[u].played + 1,
                                       totals[u].lost + l, Entry.cards)]]
    BY WhatIsCounted, Zenon DEF Incremented
  <1>4. /\ totals \in [Users -> UserTotals] /\ totals[u] \in UserTotals
        /\ Entry.cards \in {0, FullHand}
    BY <1>2 DEF TypeInv, DatabaseInv, HistoryEntry
  <1>5. w \in {0, 1} /\ l = 1 - w
    OBVIOUS
  <1> HIDE DEF w, l
  <1>6. /\ totals[u].won + w \in Nat /\ totals[u].played + 1 \in Nat
        /\ totals[u].lost \in Nat
    BY <1>4, <1>5 DEF UserTotals
  <1>7. PerformanceScore(u, totals[u].won + w, totals[u].played + 1,
                         totals[u].lost + l, Entry.cards)
        = ScoreFromWinRate(totals[u].won + w, totals[u].played + 1)
    BY <1>4, <1>6, NoPenalty
  <1>8. /\ \A v \in Users \ {u} : totals'[v] = totals[v]
        /\ totals'[u].played = totals[u].played + 1
        /\ totals'[u].won = totals[u].won + w
        /\ totals'[u].lost = totals[u].lost + l
        /\ totals'[u].score = ScoreFromWinRate(totals[u].won + w, totals[u].played + 1)
    BY <1>2, <1>3, <1>4, <1>7
  <1>9. totals[u].lost + l = totals[u].lost + 1 - w
    BY <1>5, <1>6
  <1> HIDE DEF u
  <1> QED
    BY <1>2, <1>5, <1>8, <1>9 DEF u

LEMMA NextScores == FullHand < 10 /\ TypeInv /\ ScoreInv /\ [Next]_vars => ScoreInv'
  <1> SUFFICES ASSUME FullHand < 10, TypeInv, ScoreInv, [Next]_vars PROVE ScoreInv'
    OBVIOUS
  <1>1. CASE UpdateUserStatsIncrement /\ totals' # totals
    <2>1. PICK u \in Users, w \in {0, 1} :
              /\ \A v \in Users \ {u} : totals'[v] = totals[v]
              /\ totals'[u].played = totals[u].played + 1
              /\ totals'[u].won = totals[u].won + w
              /\ totals'[u].lost = totals[u].lost + 1 - w
              /\ totals'[u].score =
                    ScoreFromWinRate(totals[u].won + w, totals[u].played + 1)
      BY <1>1, UpdateScores
    <2>2. totals[u].won \in Nat /\ totals[u].lost \in Nat /\ totals[u].played \in Nat
      BY DEF TypeInv, DatabaseInv, UserTotals
    <2> QED
      BY <2>1, <2>2 DEF ScoreInv
  <1>2. CASE ~UpdateUserStatsIncrement \/ totals' = totals
    BY <1>2, TotalsMoveOnUpdate DEF ScoreInv
  <1> QED
    BY <1>1, <1>2

\* With hands of fewer than 10 cards the score is the one of the rate of wins.
LEMMA ScoreInvariant ==
    ASSUME FullHand < 10
    PROVE  Spec => [](TypeInv /\ ScoreInv)
  <1>1. Init => ScoreInv
    BY DEF Init, ScoreInv, NoTotals
  <1>2. TypeInv /\ ScoreInv /\ [Next]_vars => (TypeInv /\ ScoreInv)'
    BY NextTypes, NextScores
  <1> QED
    BY <1>1, <1>2, InitTypes, PTL DEF Spec

\* The score is that of the win rate alone.
ScoreIsWinRate ==
    \A u \in Users : totals[u].played > 0 =>
        totals[u].score = ScoreFromWinRate(totals[u].won, totals[u].played)

\* The penalty for cards left over never applies when hands hold fewer than 10
\* cards, as those of the code do (8 at most), however ids were used again.
THEOREM ScoreOfWinRate ==
    ASSUME FullHand < 10
    PROVE  Spec => []ScoreIsWinRate
  <1>1. TypeInv /\ ScoreInv => ScoreIsWinRate
    BY DEF TypeInv, DatabaseInv, UserTotals, ScoreInv, ScoreIsWinRate
  <1> QED
    BY <1>1, ScoreInvariant, PTL

\* The rate of wins moves the score the way the last result did.
LEMMA RateMonotone ==
    ASSUME NEW won \in Nat, NEW played \in Nat
    PROVE  /\ ScoreFromWinRate(won + 1, played + 1) >= ScoreFromWinRate(won, played)
           /\ ScoreFromWinRate(won, played + 1) <= ScoreFromWinRate(won, played)
           /\ ScoreFromWinRate(0, 1) = 1
           /\ ScoreFromWinRate(won, played) \in 1 .. 5
  BY DEF ScoreFromWinRate

\* With such hands a win never lowers a score and a loss never raises it, for
\* any number of games played before.
THEOREM ScoreFollows ==
    ASSUME FullHand < 10
    PROVE  Spec => ScoreFollowsResult
  <1>1. TypeInv /\ ScoreInv /\ [Next]_vars =>
           [\A u \in Users :
              /\ totals'[u].won > totals[u].won => totals'[u].score >= totals[u].score
              /\ totals'[u].lost > totals[u].lost => totals'[u].score <= totals[u].score]_vars
    <2> SUFFICES ASSUME TypeInv, ScoreInv, [Next]_vars, NEW v \in Users
                 PROVE  /\ totals'[v].won > totals[v].won => totals'[v].score >= totals[v].score
                        /\ totals'[v].lost > totals[v].lost => totals'[v].score <= totals[v].score
      OBVIOUS
    <2>0. /\ totals[v].won \in Nat /\ totals[v].lost \in Nat /\ totals[v].played \in Nat
          /\ totals[v].score \in 1 .. 5
      BY DEF TypeInv, DatabaseInv, UserTotals
    <2>1. CASE UpdateUserStatsIncrement /\ totals' # totals
      <3>1. PICK u \in Users, w \in {0, 1} :
              /\ \A x \in Users \ {u} : totals'[x] = totals[x]
              /\ totals'[u].played = totals[u].played + 1
              /\ totals'[u].won = totals[u].won + w
              /\ totals'[u].lost = totals[u].lost + 1 - w
              /\ totals'[u].score =
                    ScoreFromWinRate(totals[u].won + w, totals[u].played + 1)
        BY <2>1, UpdateScores
      <3>2. CASE v # u
        BY <2>0, <3>1, <3>2
      <3>3. CASE v = u /\ totals[v].played = 0
        <4>1. totals[v].won = 0 /\ totals[v].score = 1
          BY <2>0, <3>3 DEF ScoreInv
        <4>2. totals'[v].score \in 1 .. 5 /\ (w = 0 => totals'[v].score = 1)
          BY <2>0, <3>1, <3>3, <4>1, RateMonotone
        <4> QED
          BY <2>0, <3>1, <3>3, <4>1, <4>2
      <3>4. CASE v = u /\ totals[v].played # 0
        <4>1. totals[v].score = ScoreFromWinRate(totals[v].won, totals[v].played)
          BY <3>4 DEF ScoreInv
        <4>2. CASE w = 0
          BY <2>0, <3>1, <3>4, <4>1, <4>2, RateMonotone
        <4>3. CASE w = 1
          BY <2>0, <3>1, <3>4, <4>1, <4>3, RateMonotone
        <4> QED
          BY <4>2, <4>3
      <3> QED
        BY <3>2, <3>3, <3>4
    <2>2. CASE ~UpdateUserStatsIncrement \/ totals' = totals
      BY <2>0, <2>2, TotalsMoveOnUpdate
    <2> QED
      BY <2>1, <2>2
  <1> QED
    BY <1>1, ScoreInvariant, PTL DEF Spec, ScoreFollowsResult
=============================================================================
