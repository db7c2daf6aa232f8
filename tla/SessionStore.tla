---------------------------- MODULE SessionStore ----------------------------
(***************************************************************************)
(* The games of the server beside the database that outlives it:           *)
(* GameSessionManager's m_sessions, the tables of DatabaseManager, and the *)
(* row by row writing of a finished game, which a database error or the    *)
(* end of the process cuts short.  How a game is played is GameSession's   *)
(* subject: here it ends won, with every hand empty, or lost, with a card  *)
(* in some hand, as LossMeansBlocked and LedgerMatchesOutcome say there.   *)
(***************************************************************************)
EXTENDS Integers, Sequences, FiniteSets, FiniteSetsExt, Functions

CONSTANTS
    Users,        \* names with a row in the users table
    Guest,        \* a name without one, as the default "Anonymous"
    MaxSeats,     \* most players of a game (5)
    FullHand,     \* cards left in a hand that is not empty at the end
    MaxGames,     \* bound: rows of game_sessions
    MaxRestarts,  \* bound: restarts of the process
    MaxFaults     \* bound: database errors

ASSUME StoreAssumption ==
    /\ Guest \notin Users
    /\ MaxSeats \in Nat \ {0, 1}
    /\ FullHand \in Nat \ {0}
    /\ {MaxGames, MaxRestarts, MaxFaults} \subseteq Nat

VARIABLES
    \* memory of the process
    nextGameId,  \* m_nextGameId
    sessions,    \* m_sessions: what a game id stands for
    saving,      \* progress of FinishGameAndSaveStats, Idle outside it
    \* the database
    rows,        \* game_sessions, by id
    history,     \* player_game_stats, by user and game_session_id
    totals,      \* the counters and the score of the users table
    \* not in the code: observation of the two
    life,        \* restarts so far
    faults,      \* database errors so far
    due          \* per user, the seats it held in games that were finished

memory == <<nextGameId, sessions, saving>>
database == <<rows, history, totals>>
vars == <<memory, database, life, faults, due>>

Idle == [stage |-> "idle"]
Names == Users \cup {Guest}
NoTotals == [played |-> 0, won |-> 0, lost |-> 0, score |-> 1]

\* A game as the observer names it: in which life, under which id.
Game(g) == <<life, g>>

TypeOK ==
    /\ nextGameId \in 1 .. (MaxGames + MaxFaults + 1)
    /\ DOMAIN sessions \subseteq 1 .. (nextGameId - 1)
    /\ \A g \in DOMAIN sessions :
          /\ sessions[g].status \in {"waiting", "playing", "finished"}
          /\ sessions[g].won \in BOOLEAN
          /\ sessions[g].maxPlayers \in 2 .. MaxSeats
          /\ sessions[g].playerNames \in Seq(Names)
          /\ Len(sessions[g].playerNames) <= sessions[g].maxPlayers
    /\ saving # Idle =>
          /\ saving.stage \in {"session", "stats", "totals"}
          /\ saving.game \in DOMAIN sessions
          /\ sessions[saving.game].status = "finished"
          /\ saving.stage # "session" =>
                sessions[saving.game].playerNames[saving.seat] \in Users
    /\ \A k \in DOMAIN history : k[1] \in Users /\ k[2] \in DOMAIN rows
    /\ \A u \in Users : totals[u].score \in 1 .. 5

Init ==
    /\ nextGameId = 1
    /\ sessions = <<>>
    /\ saving = Idle
    /\ rows = <<>>
    /\ history = <<>>
    /\ totals = [u \in Users |-> NoTotals]
    /\ life = 0
    /\ faults = 0
    /\ due = [u \in Users |-> 0]

\* The mutex is held from the end of a game until its statistics are written:
\* every handler of the manager waits for that.
MutexFree == saving = Idle

Extend(f, k, v) == [x \in DOMAIN f \cup {k} |-> IF x = k THEN v ELSE f[x]]

-----------------------------------------------------------------------------
NewSession(m) ==
    [status |-> "waiting", won |-> FALSE, maxPlayers |-> m, playerNames |-> <<>>]

NewRow(g) == [status |-> "Waiting", won |-> FALSE, owner |-> Game(g)]

\* The id is taken from the counter, the id of the new row is not looked at; an
\* insert that fails throws out of the handler after the id has been taken.
CreateGame(m) ==
    /\ MutexFree
    /\ Len(rows) < MaxGames
    /\ nextGameId' = nextGameId + 1
    /\ \/ /\ rows' = Append(rows, NewRow(nextGameId))
          /\ sessions' = Extend(sessions, nextGameId, NewSession(m))
          /\ UNCHANGED faults
       \/ /\ faults < MaxFaults
          /\ faults' = faults + 1
          /\ UNCHANGED <<rows, sessions>>
    /\ UNCHANGED <<saving, history, totals, life, due>>

\* A name may sit down twice, in one game or in several.
JoinGame(g, name) ==
    /\ MutexFree
    /\ g \in DOMAIN sessions
    /\ sessions[g].status = "waiting"
    /\ Len(sessions[g].playerNames) < sessions[g].maxPlayers
    /\ LET names == Append(sessions[g].playerNames, name)
       IN  sessions' = [sessions EXCEPT
              ![g].playerNames = names,
              ![g].status = IF Len(names) = sessions[g].maxPlayers THEN "playing" ELSE @]
    /\ UNCHANGED <<nextGameId, saving, database, life, faults, due>>

StartGame(g) ==
    /\ MutexFree
    /\ g \in DOMAIN sessions
    /\ sessions[g].status = "waiting"
    /\ Len(sessions[g].playerNames) >= 2
    /\ sessions' = [sessions EXCEPT ![g].status = "playing"]
    /\ UNCHANGED <<nextGameId, saving, database, life, faults, due>>

SeatsOf(u, g) == {i \in DOMAIN sessions[g].playerNames : sessions[g].playerNames[i] = u}

\* PlayCard, EndTurn, StartGame, GetGameState or ForceWin end the game (only the
\* last can end one that waits) and enter FinishGameAndSaveStats.
FinishGame(g) ==
    /\ MutexFree
    /\ g \in DOMAIN sessions
    /\ \E left \in [DOMAIN sessions[g].playerNames -> {0, FullHand}] :
         LET won == \A i \in DOMAIN left : left[i] = 0
         IN  /\ \/ sessions[g].status = "playing"
                \/ sessions[g].status = "waiting" /\ won
             /\ sessions' = [sessions EXCEPT ![g].status = "finished", ![g].won = won]
             /\ saving' = [stage |-> "session", game |-> g, seat |-> 0, left |-> left]
    /\ due' = [u \in Users |-> due[u] + Cardinality(SeatsOf(u, g))]
    /\ UNCHANGED <<nextGameId, database, life, faults>>

Player(seat) == sessions[saving.game].playerNames[seat]

\* Variant: a player is taken for a user without a look at the users table.
KnownAfterAnybody(seat) == {i \in DOMAIN sessions[saving.game].playerNames : i > seat}

KnownAfter(seat) ==
    {i \in DOMAIN sessions[saving.game].playerNames : i > seat /\ Player(i) \in Users}

\* Variant: the loop ends at the first player without a user row.
ToSeatAfterUnlessGuest(seat) ==
    IF (seat + 1) \in KnownAfter(seat)
    THEN [saving EXCEPT !.stage = "stats", !.seat = seat + 1]
    ELSE Idle

\* The loop goes on to the next player with a user row, or ends.
ToSeatAfter(seat) ==
    IF KnownAfter(seat) = {} THEN Idle
    ELSE [saving EXCEPT !.stage = "stats", !.seat = Min(KnownAfter(seat))]

\* Variant: an outcome is written whatever the row holds.
FinishSessionAgain ==
    /\ saving.stage = "session"
    /\ rows' = IF saving.game \notin DOMAIN rows THEN rows
               ELSE [rows EXCEPT ![saving.game].status = "Finished",
                                 ![saving.game].won = sessions[saving.game].won]
    /\ saving' = ToSeatAfter(0)
    /\ UNCHANGED <<nextGameId, sessions, history, totals, life, faults, due>>

\* Variant: only a running session can be finished, and none is ever running.
FinishSessionIfRunning ==
    /\ saving.stage = "session"
    /\ saving' = ToSeatAfter(0)
    /\ UNCHANGED <<nextGameId, sessions, database, life, faults, due>>

\* Nothing is written for a missing or finished row; an update that fails is
\* reported to a caller that does not look, and the players follow regardless.
FinishSession ==
    /\ saving.stage = "session"
    /\ LET r == saving.game
       IN  \/ /\ rows' = IF r \in DOMAIN rows /\ rows[r].status # "Finished"
                         THEN [rows EXCEPT ![r].status = "Finished",
                                           ![r].won = sessions[r].won]
                         ELSE rows
              /\ UNCHANGED faults
           \/ /\ faults < MaxFaults
              /\ faults' = faults + 1
              /\ UNCHANGED rows
    /\ saving' = ToSeatAfter(0)
    /\ UNCHANGED <<nextGameId, sessions, history, totals, life, due>>

Entry == [won |-> sessions[saving.game].won /\ saving.left[saving.seat] = 0,
          cards |-> saving.left[saving.seat],
          by |-> Game(saving.game)]

\* Variant: a rejected insert does not stop the writing of the player.
SavePlayerStatsIgnoringErrors ==
    /\ saving.stage = "stats"
    /\ LET k == <<Player(saving.seat), saving.game>>
       IN  history' = IF k[2] \in DOMAIN rows THEN Extend(history, k, Entry) ELSE history
    /\ saving' = [saving EXCEPT !.stage = "totals"]
    /\ UNCHANGED <<nextGameId, sessions, rows, totals, life, faults, due>>

\* One entry per user and session id: a second one takes the place of the
\* first.  An entry for a session without a row breaks the foreign key, and
\* the exception ends the whole saving.
SavePlayerStats ==
    /\ saving.stage = "stats"
    /\ LET k == <<Player(saving.seat), saving.game>>
       IN  IF k[2] \in DOMAIN rows
           THEN /\ history' = Extend(history, k, Entry)
                /\ saving' = [saving EXCEPT !.stage = "totals"]
           ELSE saving' = Idle /\ UNCHANGED history
    /\ UNCHANGED <<nextGameId, sessions, rows, totals, life, faults, due>>

LossesOf(u) == {k \in DOMAIN history : k[1] = u /\ ~history[k].won}

CardsOnLosses(u) ==
    SumFunctionOnSet([k \in DOMAIN history |-> history[k].cards], LossesOf(u))

\* Variant: the win rate is taken over the games before this one.
ScoreFromOldRate(won, played) ==
    IF played = 1 \/ 5 * won < played - 1 THEN 1
    ELSE IF 5 * won < 2 * (played - 1) THEN 2
    ELSE IF 5 * won < 3 * (played - 1) THEN 3
    ELSE IF 5 * won < 4 * (played - 1) THEN 4 ELSE 5

\* scoreFromWinRate: fifths of the games played.
ScoreFromWinRate(won, played) ==
    IF 5 * won < played THEN 1
    ELSE IF 5 * won < 2 * played THEN 2
    ELSE IF 5 * won < 3 * played THEN 3
    ELSE IF 5 * won < 4 * played THEN 4 ELSE 5

\* Two points may come off for an average of 10 and of 15 cards left on losses.
PerformanceScore(u, won, played, lost, left) ==
    LET losses == Cardinality(LossesOf(u))
        AverageIsAtLeast(n) == IF losses > 0 THEN CardsOnLosses(u) >= n * losses
                                             ELSE left >= n
        penalty == IF lost = 0 THEN 0
                   ELSE Cardinality({n \in {10, 15} : AverageIsAtLeast(n)})
    IN  Max({1, ScoreFromWinRate(won, played) - penalty})

Incremented(u) ==
    LET played == totals[u].played + 1
        won == totals[u].won + IF Entry.won THEN 1 ELSE 0
        lost == totals[u].lost + IF Entry.won THEN 0 ELSE 1
    IN  [played |-> played, won |-> won, lost |-> lost,
         score |-> PerformanceScore(u, won, played, lost, Entry.cards)]

\* A user that cannot be read is passed over: that error goes no further than
\* getUserByIdSafe, and the loop goes on with the next player.
UpdateUserStatsIncrement ==
    /\ saving.stage = "totals"
    /\ \/ /\ totals' = [totals EXCEPT ![Player(saving.seat)] = Incremented(Player(saving.seat))]
          /\ UNCHANGED faults
       \/ /\ faults < MaxFaults
          /\ faults' = faults + 1
          /\ UNCHANGED totals
    /\ saving' = ToSeatAfter(saving.seat)
    /\ UNCHANGED <<nextGameId, sessions, rows, history, life, due>>

\* Variant: the saving starts over when it failed.
SavingRetries ==
    /\ saving # Idle
    /\ faults < MaxFaults
    /\ faults' = faults + 1
    /\ saving' = [saving EXCEPT !.stage = "session"]
    /\ UNCHANGED <<nextGameId, sessions, database, life, due>>

\* An exception that leaves any of the steps ends the whole loop: it is logged,
\* the mutex is released, nothing is undone and nothing is tried again.
SavingFails ==
    /\ saving # Idle
    /\ faults < MaxFaults
    /\ faults' = faults + 1
    /\ saving' = Idle
    /\ UNCHANGED <<nextGameId, sessions, database, life, due>>

\* The process ends, in the middle of a saving or not, and is started again:
\* the sessions are gone, the ids start from 1, the database is as it was.
Restart ==
    /\ life < MaxRestarts
    /\ life' = life + 1
    /\ nextGameId' = 1
    /\ sessions' = <<>>
    /\ saving' = Idle
    /\ UNCHANGED <<database, faults, due>>

Next ==
    \/ \E m \in 2 .. MaxSeats : CreateGame(m)
    \/ \E g \in 1 .. (MaxGames + MaxFaults), name \in Names : JoinGame(g, name)
    \/ \E g \in 1 .. (MaxGames + MaxFaults) : StartGame(g)
    \/ \E g \in 1 .. (MaxGames + MaxFaults) : FinishGame(g)
    \/ FinishSession
    \/ SavePlayerStats
    \/ UpdateUserStatsIncrement
    \/ SavingFails
    \/ Restart

Spec == Init /\ [][Next]_vars

-----------------------------------------------------------------------------
Undisturbed == life = 0 /\ faults = 0

\* Until the first restart or failed insert the ids in memory and in the
\* database run in step: what is saved of a game is saved on its own row, and
\* between savings the row of a game has the game's status and outcome.
OwnRowUntilDisturbed ==
    Undisturbed =>
        /\ \A k \in DOMAIN history : history[k].by = rows[k[2]].owner
        /\ MutexFree => \A g \in DOMAIN sessions :
              /\ g \in DOMAIN rows
              /\ rows[g].status = "Finished" <=> sessions[g].status = "finished"
              /\ rows[g].won = sessions[g].won

\* The first outcome written on a row stands, also when a later life of the
\* server finishes another game under the same id.
FirstOutcomeStands ==
    [][\A r \in DOMAIN rows : rows[r].status = "Finished" => rows'[r] = rows[r]]_vars

\* A user is credited at most once for every seat of a finished game, whatever
\* fails and whenever the server stops.
CountedAtMostOnce == \A u \in Users : totals[u].played <= due[u]

\* And exactly once if nothing fails, guests at the same table or not.
CountedUnlessDisturbed ==
    Undisturbed /\ MutexFree => \A u \in Users : totals[u].played = due[u]

\* The counters are moved only for a game that is in the history by then, as an
\* entry of that very game with the result that is counted, and not for one
\* that could not be recorded or under an entry an older game has left there.
RecordedBeforeCounted ==
    [][\A u \in Users : totals'[u].played > totals[u].played =>
          LET k == <<u, saving.game>>
          IN  /\ k \in DOMAIN history
              /\ history[k].by = Game(saving.game)
              /\ history[k].won <=> totals'[u].won > totals[u].won]_vars

\* A win never lowers the performance score and a loss never raises it, however
\* the history behind the average of cards was overwritten.
ScoreFollowsResult ==
    [][\A u \in Users :
          /\ totals'[u].won > totals[u].won => totals'[u].score >= totals[u].score
          /\ totals'[u].lost > totals[u].lost => totals'[u].score <= totals[u].score]_vars
=============================================================================
