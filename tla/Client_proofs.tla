---------------------------- MODULE Client_proofs ----------------------------
(***************************************************************************)
(* Proofs about one player's client: what lies on the stack of handlers,   *)
(* how deep it gets, which games the handlers ask about, and which name    *)
(* the lobby greets with.                                                  *)
(***************************************************************************)
EXTENDS Client, DataLemmas

Plain == [kind : Kinds, game : Games \cup {NoGame}, since : Missing .. Finished]
Logins == [kind : {"login"}, name : Names]
Handlers == Plain \cup Logins

Dialogs == {"dialog", "closed"}
Entries == {"create", "join"}
Boards == {"board", "chat"}

\* A handler that polls asks about a game of the player's, one that joins about
\* a game; what it may be told is not older than when it asked.
Sound(h, sv, sa) ==
    /\ h \in Handlers
    /\ h.kind \in Polling => h.game \in sa
    /\ h.kind = "join" => h.game \in Games
    /\ h.kind \in Polling \cup {"join"} => h.since <= sv[h.game]

\* At most one handler on the stack is of these kinds.
Sole(st, kinds) ==
    \A j, k \in DOMAIN st : st[j].kind \in kinds /\ st[k].kind \in kinds => j = k

None(st, kinds) == \A k \in DOMAIN st : st[k].kind \notin kinds

\* A dialog lies on the handler whose poll opened it.
WellStacked(st, sv, sa) ==
    /\ st \in Seq(Handlers)
    /\ \A k \in DOMAIN st : Sound(st[k], sv, sa)
    /\ \A k \in DOMAIN st : st[k].kind \in Dialogs => k > 1 /\ st[k - 1].kind \in Polling
    /\ Sole(st, Dialogs)
    /\ Sole(st, Boards)

LEMMA TopAndRest ==
    ASSUME NEW st \in Seq(Handlers), st # <<>>
    PROVE  /\ Len(st) \in Nat \ {0} /\ Last(st) = st[Len(st)] /\ Last(st) \in Handlers
           /\ Front(st) \in Seq(Handlers) /\ Len(Front(st)) = Len(st) - 1
           /\ \A k \in 1 .. Len(st) - 1 : Front(st)[k] = st[k]
  <1>1. Len(st) \in Nat \ {0} /\ DOMAIN st = 1 .. Len(st)
    OBVIOUS
  <1>2. Last(st) = st[Len(st)] /\ Last(st) \in Handlers
    BY <1>1 DEF Last
  <1>3. Front(st) \in Seq(Handlers) /\ Len(Front(st)) = Len(st) - 1
    BY <1>1 DEF Front
  <1>4. \A k \in 1 .. Len(st) - 1 : Front(st)[k] = st[k]
    BY <1>1 DEF Front
  <1> QED
    BY <1>1, <1>2, <1>3, <1>4

LEMMA OnTop ==
    ASSUME NEW st \in Seq(Handlers), NEW h \in Handlers
    PROVE  /\ Append(st, h) \in Seq(Handlers) /\ Len(Append(st, h)) = Len(st) + 1
           /\ Append(st, h)[Len(st) + 1] = h
           /\ \A k \in 1 .. Len(st) : Append(st, h)[k] = st[k]
           /\ Append(st, h) # <<>>
  OBVIOUS

LEMMA PushWell ==
    ASSUME NEW sv, NEW sa, NEW st, WellStacked(st, sv, sa), NEW h, Sound(h, sv, sa),
           h.kind \in Dialogs => st # <<>> /\ Last(st).kind \in Polling /\ None(st, Dialogs),
           h.kind \in Boards => None(st, Boards)
    PROVE  WellStacked(Append(st, h), sv, sa)
  <1> DEFINE new == Append(st, h)
             n == Len(st)
  <1>1. st \in Seq(Handlers) /\ h \in Handlers
    BY DEF WellStacked, Sound
  <1>2. /\ n \in Nat /\ DOMAIN st = 1 .. n /\ DOMAIN new = 1 .. n + 1
        /\ new \in Seq(Handlers) /\ new[n + 1] = h /\ \A k \in 1 .. n : new[k] = st[k]
    BY <1>1, OnTop
  <1>3. h.kind \in Dialogs => n > 0 /\ st[n].kind \in Polling
    BY <1>1, TopAndRest
  <1> HIDE DEF new, n
  <1>4. \A k \in DOMAIN new : Sound(new[k], sv, sa)
    BY <1>2 DEF WellStacked
  <1>5. ASSUME NEW k \in DOMAIN new, new[k].kind \in Dialogs
        PROVE  k > 1 /\ new[k - 1].kind \in Polling
    <2>1. CASE k = n + 1
      BY <1>2, <1>3, <1>5, <2>1
    <2>2. CASE k \in 1 .. n
      <3>1. k > 1 /\ st[k - 1].kind \in Polling /\ k - 1 \in 1 .. n
        BY <1>2, <1>5, <2>2 DEF WellStacked
      <3> QED
        BY <1>2, <3>1
    <2> QED
      BY <1>2, <2>1, <2>2
  <1>6. Sole(new, Dialogs)
    BY <1>2 DEF WellStacked, Sole, None
  <1>7. Sole(new, Boards)
    BY <1>2 DEF WellStacked, Sole, None
  <1> QED
    BY <1>2, <1>4, <1>5, <1>6, <1>7 DEF WellStacked, new

LEMMA PopWell ==
    ASSUME NEW sv, NEW sa, NEW st, WellStacked(st, sv, sa), st # <<>>
    PROVE  /\ WellStacked(Front(st), sv, sa)
           /\ Sound(Last(st), sv, sa)
           /\ Last(st).kind \in Dialogs =>
                /\ Front(st) # <<>> /\ Last(Front(st)).kind \in Polling
                /\ None(Front(st), Dialogs)
           /\ Last(st).kind \in Boards => None(Front(st), Boards)
  <1> DEFINE new == Front(st)
             n == Len(st)
  <1>1. st \in Seq(Handlers)
    BY DEF WellStacked
  <1>2. /\ n \in Nat \ {0} /\ DOMAIN st = 1 .. n /\ DOMAIN new = 1 .. n - 1 /\ Len(new) = n - 1
        /\ Last(st) = st[n]
        /\ new \in Seq(Handlers) /\ \A k \in 1 .. n - 1 : new[k] = st[k]
    BY <1>1, TopAndRest
  <1>3. n > 1 => new # <<>> /\ Last(new) = st[n - 1]
    BY <1>2 DEF Last
  <1> HIDE DEF new, n
  <1>4. \A k \in DOMAIN new : Sound(new[k], sv, sa)
    BY <1>2 DEF WellStacked
  <1>5. ASSUME NEW k \in DOMAIN new, new[k].kind \in Dialogs
        PROVE  k > 1 /\ new[k - 1].kind \in Polling
    <2>1. k > 1 /\ st[k - 1].kind \in Polling /\ k - 1 \in 1 .. n - 1
      BY <1>2, <1>5 DEF WellStacked
    <2> QED
      BY <1>2, <2>1
  <1>6. Sole(new, Dialogs) /\ Sole(new, Boards)
    BY <1>2 DEF WellStacked, Sole
  <1>7. WellStacked(new, sv, sa)
    BY <1>2, <1>4, <1>5, <1>6 DEF WellStacked
  <1>8. Sound(Last(st), sv, sa)
    BY <1>2 DEF WellStacked
  <1>9. Last(st).kind \in Dialogs =>
            new # <<>> /\ Last(new).kind \in Polling /\ None(new, Dialogs)
    BY <1>2, <1>3 DEF WellStacked, Sole, None
  <1>10. Last(st).kind \in Boards => None(new, Boards)
    BY <1>2 DEF WellStacked, Sole, None
  <1> QED
    BY <1>7, <1>8, <1>9, <1>10 DEF new

\* The world goes on: games advance, and more of them are the player's.
LEMMA StillWell ==
    ASSUME NEW sv, NEW sa, NEW st, WellStacked(st, sv, sa), NEW tv, NEW ta,
           sa \subseteq ta, ta \subseteq Games,
           \A g \in Games : sv[g] \in Nat /\ tv[g] \in Nat /\ sv[g] <= tv[g]
    PROVE  WellStacked(st, tv, ta)
  <1>1. ASSUME NEW k \in DOMAIN st PROVE Sound(st[k], tv, ta)
    <2>1. Sound(st[k], sv, sa)
      BY DEF WellStacked
    <2>2. CASE st[k].kind \in Polling \cup {"join"}
      <3>1. st[k].game \in Games /\ st[k] \in Plain
        BY <2>1, <2>2 DEF Sound, Handlers, Logins, Polling
      <3>2. st[k].since \in Int
        BY <3>1 DEF Plain, Missing, Finished
      <3> QED
        BY <2>1, <2>2, <3>1, <3>2 DEF Sound
    <2>3. CASE st[k].kind \notin Polling \cup {"join"}
      BY <2>1, <2>3 DEF Sound
    <2> QED
      BY <2>2, <2>3
  <1> QED
    BY <1>1 DEF WellStacked

\* A handler of the waiting timer that is aged, or a dialog or a box that is closed.
LEMMA RekindledWell ==
    ASSUME NEW sv, NEW sa, NEW st, WellStacked(st, sv, sa), NEW new \in Seq(Handlers),
           Len(new) = Len(st),
           \A k \in DOMAIN st :
              \/ new[k] = st[k]
              \/ st[k].kind = "wait" /\ new[k] = [st[k] EXCEPT !.kind = "oldWait"]
              \/ st[k].kind = "dialog" /\ new[k] = [st[k] EXCEPT !.kind = "closed"]
              \/ st[k].kind \in Boxes /\ \E kind \in {"shut", "entered"} :
                                            new[k] = [st[k] EXCEPT !.kind = kind]
    PROVE  WellStacked(new, sv, sa)
  <1>1. DOMAIN new = DOMAIN st
    BY DEF WellStacked
  <1>2. ASSUME NEW k \in DOMAIN st
        PROVE  /\ Sound(new[k], sv, sa)
               /\ new[k].kind \in Dialogs <=> st[k].kind \in Dialogs
               /\ new[k].kind \in Boards <=> st[k].kind \in Boards
               /\ new[k].kind \in Polling <=> st[k].kind \in Polling
    <2> USE DEF Dialogs, Boards, Polling
    <2>0. Sound(st[k], sv, sa)
      BY DEF WellStacked
    <2>1. CASE new[k] = st[k]
      BY <2>0, <2>1
    <2>2. CASE st[k].kind = "wait" /\ new[k] = [st[k] EXCEPT !.kind = "oldWait"]
      <3>1. st[k] \in Plain
        BY <2>0, <2>2 DEF Sound, Handlers, Logins
      <3>2. /\ new[k].kind = "oldWait" /\ new[k].game = st[k].game /\ new[k].since = st[k].since
            /\ new[k] \in Plain
        BY <2>2, <3>1 DEF Plain, Kinds
      <3> QED
        BY <2>0, <2>2, <3>2 DEF Sound, Handlers
    <2>3. CASE st[k].kind = "dialog" /\ new[k] = [st[k] EXCEPT !.kind = "closed"]
      <3>1. st[k] \in Plain
        BY <2>0, <2>3 DEF Sound, Handlers, Logins
      <3>2. new[k].kind = "closed" /\ new[k] \in Plain
        BY <2>3, <3>1 DEF Plain, Kinds
      <3> QED
        BY <2>0, <2>3, <3>2 DEF Sound, Handlers
    <2>4. CASE st[k].kind \in Boxes /\ \E kind \in {"shut", "entered"} :
                                         new[k] = [st[k] EXCEPT !.kind = kind]
      <3>1. st[k] \in Plain
        BY <2>0, <2>4 DEF Sound, Handlers, Logins, Boxes
      <3>2. new[k].kind \in {"shut", "entered"} /\ new[k] \in Plain
        BY <2>4, <3>1 DEF Plain, Kinds
      <3> QED
        BY <2>0, <2>4, <3>2 DEF Sound, Handlers, Boxes
    <2> QED
      BY <2>1, <2>2, <2>3, <2>4
  <1>3. ASSUME NEW k \in DOMAIN new, new[k].kind \in Dialogs
        PROVE  k > 1 /\ new[k - 1].kind \in Polling
    <2>1. k > 1 /\ st[k - 1].kind \in Polling /\ k - 1 \in DOMAIN st
      BY <1>1, <1>2, <1>3 DEF WellStacked
    <2> QED
      BY <1>2, <2>1
  <1> QED
    BY <1>1, <1>2, <1>3 DEF WellStacked, Sole

LEMMA AgedWell ==
    ASSUME NEW sv, NEW sa, NEW st, WellStacked(st, sv, sa)
    PROVE  /\ WellStacked(Aged(st), sv, sa) /\ DOMAIN Aged(st) = DOMAIN st
           /\ None(Aged(st), {"wait"})
  <1> DEFINE new == Aged(st)
  <1>1. st \in Seq(Handlers)
    BY DEF WellStacked
  <1>2. /\ DOMAIN new = 1 .. Len(st) /\ Len(st) \in Nat /\ DOMAIN st = 1 .. Len(st)
        /\ \A k \in DOMAIN st : new[k] = IF st[k].kind = "wait"
                                         THEN [st[k] EXCEPT !.kind = "oldWait"] ELSE st[k]
    BY <1>1 DEF Aged
  <1>3. ASSUME NEW k \in DOMAIN st PROVE new[k] \in Handlers /\ new[k].kind # "wait"
    <2>1. CASE st[k].kind = "wait"
      <3>1. st[k] \in Plain
        BY <1>1, <2>1 DEF Handlers, Logins
      <3> QED
        BY <1>2, <2>1, <3>1 DEF Plain, Handlers, Kinds, Polling
    <2>2. CASE st[k].kind # "wait"
      BY <1>1, <1>2, <2>2
    <2> QED
      BY <2>1, <2>2
  <1>4. new \in Seq(Handlers) /\ Len(new) = Len(st)
    <2>1. new = [k \in 1 .. Len(st) |-> new[k]]
      BY <1>1 DEF Aged
    <2> HIDE DEF new
    <2> QED
      BY <1>2, <1>3, <2>1
  <1> HIDE DEF new
  <1>5. WellStacked(new, sv, sa)
    BY <1>2, <1>4, RekindledWell
  <1> QED
    BY <1>2, <1>3, <1>5 DEF new, None

-----------------------------------------------------------------------------
\* What a handler may still put on the stack, in halves of a press: a login may
\* open the lobby, and with it the ways of the board and the dialog onto the
\* stack, which therefore cost nothing; a join leads to a poll and a waiting timer, and
\* the box that asks for the id of a game to a join.
Weight(h) == IF h.kind \in {"login", "create", "join", "asking", "box", "shut", "entered"} THEN 2
             ELSE IF h.kind \in Dialogs \cup Boards THEN 0 ELSE 1

Weights(st) == [k \in DOMAIN st |-> Weight(st[k])]

Load(st) == SumFunctionOnSet(Weights(st), DOMAIN st)

LEMMA WeightType == ASSUME NEW h PROVE Weight(h) \in 0 .. 2
  BY DEF Weight

LEMMA LoadType ==
    ASSUME NEW st \in Seq(Handlers)
    PROVE  /\ Load(st) \in Nat /\ IsFiniteSet(DOMAIN st)
           /\ \A k \in DOMAIN st : Weights(st)[k] \in Nat
  <1>1. \A k \in DOMAIN st : Weights(st)[k] \in Nat
    BY WeightType DEF Weights
  <1>2. DOMAIN st = 1 .. Len(st) /\ IsFiniteSet(1 .. Len(st))
    BY FS_Interval
  <1> QED
    BY <1>1, <1>2, SumType DEF Load

LEMMA LoadPush ==
    ASSUME NEW st \in Seq(Handlers), NEW h \in Handlers
    PROVE  Load(Append(st, h)) = Load(st) + Weight(h)
  <1> DEFINE new == Append(st, h)
             n == Len(st)
  <1>1. /\ n \in Nat /\ DOMAIN st = 1 .. n /\ DOMAIN new = 1 .. n + 1
        /\ new \in Seq(Handlers) /\ new[n + 1] = h /\ \A k \in 1 .. n : new[k] = st[k]
    BY OnTop
  <1> HIDE DEF new, n
  <1>2. \A k \in 1 .. n : Weights(st)[k] \in Nat /\ Weights(st)[k] = Weights(new)[k]
    BY <1>1, WeightType DEF Weights
  <1>3. Weights(new)[n + 1] = Weight(h)
    BY <1>1 DEF Weights
  <1>4. (1 .. n + 1) \ {n + 1} = 1 .. n /\ n + 1 \in 1 .. n + 1
    BY <1>1
  <1>5. /\ IsFiniteSet(1 .. n + 1) /\ IsFiniteSet(1 .. n)
        /\ \A k \in 1 .. n + 1 : Weights(new)[k] \in Nat
    BY <1>1, LoadType, FS_Interval
  <1>6. SumFunctionOnSet(Weights(new), 1 .. n + 1)
           = Weights(new)[n + 1] + SumFunctionOnSet(Weights(new), 1 .. n)
    <2> DEFINE D == 1 .. n + 1
    <2>1. n + 1 \in D /\ D \ {n + 1} = 1 .. n
      BY <1>4
    <2>2. IsFiniteSet(D) /\ \A k \in D : Weights(new)[k] \in Nat
      BY <1>5
    <2> HIDE DEF D
    <2>3. SumFunctionOnSet(Weights(new), D)
             = Weights(new)[n + 1] + SumFunctionOnSet(Weights(new), D \ {n + 1})
      BY <2>1, <2>2, SumRemove
    <2> QED
      BY <2>1, <2>3 DEF D
  <1>7. SumFunctionOnSet(Weights(st), 1 .. n) = SumFunctionOnSet(Weights(new), 1 .. n)
    BY <1>2, <1>5, SumCongruence
  <1>8. Load(st) \in Nat /\ Weight(h) \in Nat
    BY LoadType, WeightType
  <1>9. Load(new) = Load(st) + Weight(h)
    BY <1>1, <1>3, <1>6, <1>7, <1>8 DEF Load
  <1> QED
    BY <1>9 DEF new

LEMMA LoadPop ==
    ASSUME NEW st \in Seq(Handlers), st # <<>>
    PROVE  Load(st) = Load(Front(st)) + Weight(Last(st))
  <1>1. Front(st) \in Seq(Handlers) /\ Last(st) \in Handlers
    BY TopAndRest
  <1>2. st = Append(Front(st), Last(st))
    <2>1. /\ Len(st) \in Nat \ {0} /\ Len(Front(st)) = Len(st) - 1 /\ Last(st) = st[Len(st)]
          /\ \A k \in 1 .. Len(st) - 1 : Front(st)[k] = st[k]
      BY TopAndRest
    <2> DEFINE new == Append(Front(st), Last(st))
    <2>2. /\ new \in Seq(Handlers) /\ Len(new) = Len(st)
          /\ \A k \in 1 .. Len(st) : new[k] = st[k]
      BY <1>1, <2>1
    <2> HIDE DEF new
    <2>3. new = st
      BY <2>2
    <2> QED
      BY <2>3 DEF new
  <1> QED
    BY <1>1, <1>2, LoadPush

\* A handler that is aged or closed weighs what it did.
LEMMA LoadSame ==
    ASSUME NEW st \in Seq(Handlers), NEW new, DOMAIN new = DOMAIN st,
           \A k \in DOMAIN st : Weight(new[k]) = Weight(st[k])
    PROVE  Load(new) = Load(st)
  <1>1. Weights(new) = Weights(st)
    BY DEF Weights
  <1> QED
    BY <1>1 DEF Load

\* Only the dialog and the board's handler, one of each, weigh nothing.
LEMMA Depth ==
    ASSUME NEW st \in Seq(Handlers), Sole(st, Dialogs), Sole(st, Boards)
    PROVE  /\ Len(st) <= Load(st) + 2
           /\ None(st, Dialogs \cup Boards) => Len(st) <= Load(st)
  <1> DEFINE S == DOMAIN st
             f == Weights(st)
             At(kinds) == {k \in S : st[k].kind \in kinds}
  <1>1. /\ IsFiniteSet(S) /\ \A k \in S : f[k] \in Nat
        /\ Cardinality(S) = Len(st) /\ Len(st) \in Nat
    <2>1. S = 1 .. Len(st) /\ Len(st) \in Nat
      OBVIOUS
    <2>2. Cardinality(1 .. Len(st)) = Len(st)
      BY <2>1, FS_Interval
    <2> QED
      BY <2>1, <2>2, LoadType
  <1>2. \A R \in SUBSET S : /\ IsFiniteSet(R) /\ Cardinality(R) \in Nat
                            /\ SumFunctionOnSet(f, R) \in Nat
    BY <1>1, FS_Subset, FS_CardinalityType, SumType
  <1>3. ASSUME NEW R \in SUBSET S, NEW kinds, Sole(st, kinds)
        PROVE  /\ Cardinality(R \ At(kinds)) >= Cardinality(R) - 1
               /\ SumFunctionOnSet(f, R \ At(kinds)) <= SumFunctionOnSet(f, R)
    <2> DEFINE T == At(kinds)
    <2>1. \A x, y \in R : x \in T /\ y \in T => x = y
      BY <1>3 DEF Sole
    <2>2. IsFiniteSet(R) /\ \A x \in R : f[x] \in Nat
      BY <1>1, <1>2
    <2> HIDE DEF T, f, S
    <2>3. /\ Cardinality(R \ T) >= Cardinality(R) - 1
          /\ SumFunctionOnSet(f, R \ T) <= SumFunctionOnSet(f, R)
      BY <2>1, <2>2, ButOne
    <2> QED
      BY <2>3 DEF T
  <1>4. \A k \in S : st[k].kind \notin Dialogs \cup Boards => f[k] >= 1
    BY DEF Weights, Weight
  <1>5. Load(st) = SumFunctionOnSet(f, S)
    BY DEF Load
  <1>6. ASSUME None(st, Dialogs \cup Boards) PROVE Len(st) <= Load(st)
    <2>1. \A k \in S : f[k] \in Nat /\ f[k] >= 1
      BY <1>1, <1>4, <1>6 DEF None
    <2> HIDE DEF f, S
    <2> QED
      BY <1>1, <1>5, <2>1, SumAtLeast
  <1>7. Len(st) <= Load(st) + 2
    <2> DEFINE R == S \ At(Dialogs)
               Q == R \ At(Boards)
    <2>1. \A k \in Q : f[k] \in Nat /\ f[k] >= 1
      <3>1. \A k \in Q : k \in S /\ st[k].kind \notin Dialogs \cup Boards
        OBVIOUS
      <3> HIDE DEF f, S, Q
      <3> QED
        BY <1>1, <1>4, <3>1
    <2>2. /\ Cardinality(R) >= Cardinality(S) - 1
          /\ SumFunctionOnSet(f, R) <= SumFunctionOnSet(f, S)
      BY <1>3
    <2>3. /\ Cardinality(Q) >= Cardinality(R) - 1
          /\ SumFunctionOnSet(f, Q) <= SumFunctionOnSet(f, R)
      <3>1. R \in SUBSET S
        OBVIOUS
      <3> HIDE DEF f, S, R, At
      <3> QED
        BY <1>3, <3>1
    <2>4. R \in SUBSET S /\ Q \in SUBSET S
      OBVIOUS
    <2> HIDE DEF f, S, R, Q, At
    <2>5. Cardinality(Q) <= SumFunctionOnSet(f, Q)
      BY <1>2, <2>1, <2>4, SumAtLeast
    <2>6. S \in SUBSET S
      OBVIOUS
    <2> QED
      BY <1>1, <1>2, <1>5, <2>2, <2>3, <2>4, <2>5, <2>6
  <1> QED
    BY <1>6, <1>7

-----------------------------------------------------------------------------
\* What a stack of handlers may still grow by: while the player waits, the
\* waiting timer may put a handler on it if none is there.
Due(st, w) == Load(st) + (IF w /\ None(st, {"wait"}) THEN 1 ELSE 0)

LEMMA DuePush ==
    ASSUME NEW st \in Seq(Handlers), NEW h \in Handlers, NEW w \in BOOLEAN
    PROVE  /\ Due(st, w) \in Nat /\ Due(Append(st, h), w) \in Nat
           /\ Due(Append(st, h), w) <= Due(st, w) + Weight(h)
           /\ h.kind = "wait" /\ w /\ None(st, {"wait"}) => Due(Append(st, h), w) = Due(st, w)
  <1>1. Load(Append(st, h)) = Load(st) + Weight(h) /\ Load(st) \in Nat /\ Weight(h) \in Nat
    BY LoadPush, LoadType, WeightType
  <1>2. None(Append(st, h), {"wait"}) <=> None(st, {"wait"}) /\ h.kind # "wait"
    BY OnTop DEF None
  <1>3. h.kind = "wait" => Weight(h) = 1
    BY DEF Weight, Dialogs, Boards
  <1> QED
    BY <1>1, <1>2, <1>3 DEF Due

LEMMA DuePop ==
    ASSUME NEW st \in Seq(Handlers), st # <<>>, NEW w \in BOOLEAN
    PROVE  /\ Due(st, w) \in Nat /\ Due(Front(st), w) \in Nat
           /\ Due(Front(st), w) <= Due(st, w)
           /\ Last(st).kind # "wait" => Due(Front(st), w) + Weight(Last(st)) = Due(st, w)
  <1>1. /\ Load(st) = Load(Front(st)) + Weight(Last(st)) /\ Load(st) \in Nat
        /\ Load(Front(st)) \in Nat /\ Weight(Last(st)) \in Nat
    BY LoadPop, LoadType, TopAndRest, WeightType
  <1>2. None(st, {"wait"}) <=> None(Front(st), {"wait"}) /\ Last(st).kind # "wait"
    <2>1. /\ Len(st) \in Nat \ {0} /\ DOMAIN st = 1 .. Len(st) /\ Last(st) = st[Len(st)]
          /\ DOMAIN Front(st) = 1 .. Len(st) - 1
          /\ \A k \in 1 .. Len(st) - 1 : Front(st)[k] = st[k]
      BY TopAndRest
    <2> QED
      BY <2>1 DEF None
  <1>3. Last(st).kind = "wait" => Weight(Last(st)) = 1
    BY DEF Weight, Dialogs, Boards
  <1> QED
    BY <1>1, <1>2, <1>3 DEF Due

LEMMA DueAged ==
    ASSUME NEW sv, NEW sa, NEW st, WellStacked(st, sv, sa), NEW w \in BOOLEAN
    PROVE  /\ Due(Aged(st), FALSE) \in Nat /\ Due(Aged(st), TRUE) \in Nat /\ Due(st, w) \in Nat
           /\ Due(Aged(st), FALSE) <= Due(st, w)
           /\ Due(Aged(st), TRUE) <= Due(st, w) + 1
  <1>1. st \in Seq(Handlers)
    BY DEF WellStacked
  <1>2. DOMAIN Aged(st) = DOMAIN st
    BY AgedWell
  <1>3. ASSUME NEW k \in DOMAIN st PROVE Weight(Aged(st)[k]) = Weight(st[k])
    <2>1. CASE st[k].kind = "wait"
      <3>1. st[k] \in Plain
        BY <1>1, <2>1 DEF Handlers, Logins
      <3>2. Aged(st)[k].kind = "oldWait"
        BY <2>1, <3>1 DEF Aged, Plain
      <3> QED
        BY <2>1, <3>2 DEF Weight, Dialogs, Boards
    <2>2. CASE st[k].kind # "wait"
      BY <2>2 DEF Aged
    <2> QED
      BY <2>1, <2>2
  <1>4. Load(Aged(st)) = Load(st) /\ Load(st) \in Nat
    BY <1>1, <1>2, <1>3, LoadSame, LoadType
  <1> QED
    BY <1>4 DEF Due

-----------------------------------------------------------------------------
WorldTypes ==
    /\ server \in [Games -> Missing .. Finished]
    /\ gameId \in Games \cup {NoGame}
    /\ sat \subseteq Games
    /\ snapshot \in [game : Games \cup {NoGame}, stage : Missing .. Finished]
    /\ pendingStarts \in 0 .. MaxStarts

FormTypes ==
    /\ username \in Names \cup {NoName} /\ currentUsername \in Names \cup {NoName}
    /\ pendingLogins \in Seq(Names) /\ pendingLobby \in Seq(Names)
    /\ pendingRegisters \in Nat /\ pendingEntries \in Seq(Entries)
    /\ presses \in 0 .. MaxPresses

ScreenTypes ==
    /\ buttons \in BOOLEAN /\ waiting \in BOOLEAN /\ dialogMade \in BOOLEAN
    /\ window \in {"login", "lobby", "profile", "board"}

TypeInv == WorldTypes /\ FormTypes /\ ScreenTypes

StackInv ==
    /\ WellStacked(stack, server, sat)
    /\ ~dialogMade => None(stack, Dialogs)

\* What the client knows of games is of its own, and not newer than they are.
GameInv ==
    /\ gameId # NoGame => gameId \in sat
    /\ snapshot.game = NoGame => snapshot.stage = Missing
    /\ snapshot.game # NoGame =>
          snapshot.game \in sat /\ snapshot.stage <= server[snapshot.game]
    /\ BoardOnlyAfterStart

\* The last login that succeeded is the last to switch to the lobby.
GreetInv ==
    username = IF pendingLobby = <<>> THEN currentUsername ELSE Last(pendingLobby)

\* Before the first switch to the lobby there are only logins and registrations.
BeforeLobby ==
    currentUsername = NoName =>
        /\ window = "login" /\ waiting = FALSE /\ gameId = NoGame
        /\ pendingEntries = <<>> /\ pendingStarts = 0
        /\ \A k \in DOMAIN stack : stack[k].kind \in {"login", "register"}

\* Every press pays for two handlers, and the first lobby for two more.
Held == Due(stack, waiting)
Pending == Len(pendingLogins) + Len(pendingLobby) + pendingRegisters + Len(pendingEntries)
Lobby == IF currentUsername = NoName THEN 0 ELSE 2

Fits(held, pending, lobby, spent) == held + 2 * pending + lobby <= 2 * spent
LoadInv == Fits(Held, Pending, Lobby, presses)

ClientInv == TypeInv /\ StackInv /\ GameInv /\ GreetInv /\ BeforeLobby /\ LoadInv

LEMMA ClientInit == Init => ClientInv
  <1> SUFFICES ASSUME Init PROVE ClientInv
    OBVIOUS
  <1> USE DEF Init
  <1>1. TypeInv
    <2>1. MaxGames \in Nat /\ MaxPresses \in Nat /\ MaxStarts \in Nat
      BY ClientAssumption
    <2>2. WorldTypes
      BY <2>1 DEF WorldTypes, Missing, Finished
    <2>3. FormTypes
      BY <2>1 DEF FormTypes
    <2>4. ScreenTypes
      BY DEF ScreenTypes
    <2> QED
      BY <2>2, <2>3, <2>4 DEF TypeInv
  <1>2. StackInv
    BY DEF StackInv, WellStacked, Sole, None
  <1>3. GameInv
    BY DEF GameInv, BoardOnlyAfterStart
  <1>4. GreetInv /\ BeforeLobby
    BY DEF GreetInv, BeforeLobby
  <1>5. LoadInv
    <2>1. Load(stack) = 0
      <3>1. DOMAIN stack = {}
        OBVIOUS
      <3> QED
        BY <3>1, SumOfNothing DEF Load
    <2> QED
      BY <2>1 DEF LoadInv, Fits, Held, Pending, Lobby, Due
  <1> QED
    BY <1>1, <1>2, <1>3, <1>4, <1>5 DEF ClientInv

\* What a handler is and knows when it gets its reply.
LEMMA TopHandler ==
    ASSUME TypeInv, StackInv, NEW kinds \in SUBSET (Kinds \cup {"login"}), Finishing(kinds)
    PROVE  /\ stack \in Seq(Handlers) /\ stack # <<>>
           /\ Innermost \in Handlers /\ Below \in Seq(Handlers)
           /\ Innermost.kind \in kinds
           /\ WellStacked(Below, server, sat) /\ Sound(Innermost, server, sat)
           /\ Innermost.kind \in Polling \cup {"join"} =>
                 /\ Innermost \in Plain /\ Innermost.game \in Games
                 /\ Innermost.since \in Missing .. Finished
                 /\ Replies(Innermost) \subseteq Missing .. Finished
                 /\ \A r \in Replies(Innermost) : r <= server[Innermost.game]
           /\ Innermost.kind = "login" => Innermost.name \in Names
  <1>1. WellStacked(stack, server, sat) /\ stack # <<>> /\ Innermost.kind \in kinds
    BY DEF StackInv, Finishing
  <1>2. /\ WellStacked(Below, server, sat) /\ Sound(Innermost, server, sat)
    BY <1>1, PopWell DEF Below, Innermost
  <1>3. Innermost \in Handlers /\ Below \in Seq(Handlers) /\ stack \in Seq(Handlers)
    BY <1>1, <1>2 DEF WellStacked, Sound
  <1>4. ASSUME Innermost.kind \in Polling \cup {"join"}
        PROVE  /\ Innermost \in Plain /\ Innermost.game \in Games
               /\ Innermost.since \in Missing .. Finished
               /\ Replies(Innermost) \subseteq Missing .. Finished
               /\ \A r \in Replies(Innermost) : r <= server[Innermost.game]
    <2>1. Innermost \in Plain /\ Innermost.game \in Games
      BY <1>2, <1>3, <1>4 DEF Sound, Handlers, Logins, Polling, TypeInv, WorldTypes
    <2>2. Innermost.since \in Missing .. Finished
      BY <2>1 DEF Plain
    <2>3. server[Innermost.game] \in Missing .. Finished
      BY <2>1 DEF TypeInv, WorldTypes
    <2> QED
      BY <2>1, <2>2, <2>3 DEF Replies, Missing, Finished
  <1>5. Innermost.kind = "login" => Innermost.name \in Names
    BY <1>3 DEF Handlers, Plain, Logins, Kinds, Modal, Boxes, Polling
  <1> QED
    BY <1>1, <1>2, <1>3, <1>4, <1>5

LEMMA AfterPollStarts ==
    ASSUME TypeInv, NEW h, NEW below, NEW stage, AfterPoll(h, below, stage)
    PROVE  /\ pendingStarts' \in 0 .. MaxStarts
           /\ pendingStarts' > 0 =>
                 pendingStarts > 0 \/ (h.kind \in {"wait", "oldWait"} /\ stage = Playing)
  BY ClientAssumption DEF TypeInv, WorldTypes, AfterPoll

LEMMA WorldStep == TypeInv /\ StackInv /\ [Next]_vars => WorldTypes'
  <1> SUFFICES ASSUME TypeInv, StackInv, [Next]_vars PROVE WorldTypes'
    OBVIOUS
  <1> USE DEF client, login, screen, shots
  <1>0. WorldTypes /\ MaxGames \in Nat /\ MaxStarts \in Nat
    BY ClientAssumption DEF TypeInv
  <1>1. ASSUME NEW g \in Games, GameGoesOn(g) PROVE WorldTypes'
    <2>1. server[g] \in Missing .. Finished /\ server[g] < Finished
      BY <1>0, <1>1 DEF GameGoesOn, NextId, WorldTypes, Missing, Waiting, Playing, Finished
    <2>2. server' = [server EXCEPT ![g] = server[g] + 1]
      BY <1>1 DEF GameGoesOn
    <2>3. server' \in [Games -> Missing .. Finished]
      BY <1>0, <2>1, <2>2 DEF WorldTypes, Missing, Finished
    <2> QED
      BY <1>0, <1>1, <2>3 DEF GameGoesOn, WorldTypes
  <1>2. ASSUME NEW k \in 1 .. MaxDepth, LeaveDialog(k) PROVE WorldTypes'
    BY <1>0, <1>2 DEF LeaveDialog, WorldTypes
  <1>9. ASSUME NEW k \in 1 .. MaxDepth, CloseBox(k) PROVE WorldTypes'
    BY <1>0, <1>9 DEF CloseBox, WorldTypes
  <1>3. CASE StartShot
    <2>1. pendingStarts' \in 0 .. MaxStarts
      BY <1>0, <1>3 DEF StartShot, WorldTypes
    <2> QED
      BY <1>0, <1>3, <2>1 DEF StartShot, WorldTypes
  <1>4. CASE PollFails \/ ReturnDialog
    <2>1. pendingStarts' \in 0 .. MaxStarts
      BY <1>4, AfterPollStarts DEF PollFails, ReturnDialog
    <2> QED
      BY <1>0, <1>4, <2>1 DEF PollFails, ReturnDialog, WorldTypes
  <1>5. CASE ReturnPoll
    <2>1. Innermost.game \in Games /\ Replies(Innermost) \subseteq Missing .. Finished
      BY <1>5, TopHandler DEF ReturnPoll, Kinds
    <2>2. snapshot' \in [game : Games \cup {NoGame}, stage : Missing .. Finished]
      BY <1>5, <2>1 DEF ReturnPoll, Take
    <2>3. pendingStarts' \in 0 .. MaxStarts
      BY <1>0, <1>5, AfterPollStarts DEF ReturnPoll, WorldTypes
    <2> QED
      BY <1>0, <1>5, <2>2, <2>3 DEF ReturnPoll, WorldTypes
  <1>6. CASE ReturnCreate
    <2>1. \A g \in Games : [server EXCEPT ![g] = Waiting] \in [Games -> Missing .. Finished]
      BY <1>0 DEF WorldTypes, Missing, Waiting, Finished
    <2> QED
      BY <1>0, <1>6, <2>1 DEF ReturnCreate, WorldTypes
  <1>7. CASE ReturnJoin
    <2>1. Innermost.game \in Games
      BY <1>7, TopHandler DEF ReturnJoin, Kinds
    <2>2. gameId' \in Games \cup {NoGame} /\ sat' \subseteq Games
      BY <1>0, <1>7, <2>1 DEF ReturnJoin, WorldTypes
    <2> QED
      BY <1>0, <1>7, <2>2 DEF ReturnJoin, WorldTypes
  <1>8. CASE UNCHANGED <<server, gameId, sat, snapshot, pendingStarts>>
    BY <1>0, <1>8 DEF WorldTypes
  <1> QED
    BY <1>1, <1>2, <1>3, <1>4, <1>5, <1>6, <1>7, <1>8, <1>9
       DEF Next, Return, vars, PressLogin, PressRegister, PressProfile, PressBack, PressLogout,
           PressCreate, PressJoin, OpenBox, PressCancel, PressMove, GameTimer, WaitTimer,
           EntryShot, LoginShot, RegisterShot, LobbyShot, ReturnLogin, ReturnRegister, ReturnBox,
           ReturnProfile, ReturnShown, ReturnMove

LEMMA FormStep == TypeInv /\ StackInv /\ [Next]_vars => FormTypes'
  <1> SUFFICES ASSUME TypeInv, StackInv, [Next]_vars PROVE FormTypes'
    OBVIOUS
  <1> USE DEF client, login, screen, shots
  <1>0. FormTypes /\ MaxPresses \in Nat
    BY ClientAssumption DEF TypeInv
  <1>1. CASE PressLogin
    <2>1. presses' \in Names /\ presses' \in 0 .. MaxPresses
      BY <1>0, <1>1 DEF PressLogin, FormTypes, Names
    <2>2. pendingLogins' \in Seq(Names)
      BY <1>0, <1>1, <2>1 DEF PressLogin, FormTypes
    <2> QED
      BY <1>0, <1>1, <2>1, <2>2 DEF PressLogin, FormTypes
  <1>2. CASE \/ PressRegister \/ PressProfile \/ PressLogout \/ PressJoin \/ OpenBox
             \/ PressMove \/ PollFails
    <2>1. presses' \in 0 .. MaxPresses
      BY <1>0, <1>2 DEF PressRegister, PressProfile, PressLogout, PressJoin, OpenBox, PressMove,
                        PollFails, FormTypes
    <2>2. pendingRegisters' \in Nat /\ UNCHANGED pendingEntries
      BY <1>0, <1>2 DEF PressRegister, PressProfile, PressLogout, PressJoin, OpenBox, PressMove,
                        PollFails, FormTypes
    <2>3. UNCHANGED <<username, currentUsername, pendingLogins, pendingLobby>>
      BY <1>2 DEF PressRegister, PressProfile, PressLogout, PressJoin, OpenBox, PressMove, PollFails
    <2> QED
      BY <1>0, <2>1, <2>2, <2>3 DEF FormTypes
  <1>3. CASE RegisterShot
    <2>1. pendingRegisters' \in Nat
      BY <1>0, <1>3 DEF RegisterShot, FormTypes
    <2>2. UNCHANGED <<username, currentUsername, pendingLogins, pendingLobby, pendingEntries,
                      presses>>
      BY <1>3 DEF RegisterShot
    <2> QED
      BY <1>0, <2>1, <2>2 DEF FormTypes
  <1>8. CASE PressCreate \/ ReturnBox \/ EntryShot
    <2>1. pendingEntries \in Seq(Entries) /\ "create" \in Entries /\ "join" \in Entries
      BY <1>0 DEF FormTypes, Entries
    <2>2. \/ UNCHANGED pendingEntries
          \/ pendingEntries' = Append(pendingEntries, "create")
          \/ pendingEntries' = Append(pendingEntries, "join")
          \/ pendingEntries # <<>> /\ pendingEntries' = Tail(pendingEntries)
      BY <1>8 DEF PressCreate, ReturnBox, EntryShot
    <2>3. pendingEntries' \in Seq(Entries)
      BY <2>1, <2>2
    <2>4. presses' \in 0 .. MaxPresses
      BY <1>0, <1>8 DEF PressCreate, ReturnBox, EntryShot, FormTypes
    <2>5. UNCHANGED <<username, currentUsername, pendingLogins, pendingLobby, pendingRegisters>>
      BY <1>8 DEF PressCreate, ReturnBox, EntryShot
    <2> QED
      BY <1>0, <2>3, <2>4, <2>5 DEF FormTypes
  <1>4. CASE LoginShot
    <2>1. pendingLogins # <<>> /\ pendingLogins' = Tail(pendingLogins)
      BY <1>4 DEF LoginShot
    <2>2. pendingLogins' \in Seq(Names)
      BY <1>0, <2>1 DEF FormTypes
    <2> QED
      BY <1>0, <1>4, <2>2 DEF LoginShot, FormTypes
  <1>5. CASE LobbyShot
    <2>1. /\ pendingLobby # <<>> /\ pendingLobby' = Tail(pendingLobby)
          /\ currentUsername' = Head(pendingLobby)
      BY <1>5 DEF LobbyShot
    <2>2. pendingLobby' \in Seq(Names) /\ currentUsername' \in Names
      BY <1>0, <2>1 DEF FormTypes
    <2> QED
      BY <1>0, <1>5, <2>2 DEF LobbyShot, FormTypes
  <1>6. CASE ReturnLogin
    <2>1. Innermost.name \in Names
      BY <1>6, TopHandler DEF ReturnLogin, Kinds
    <2> DEFINE name == Innermost.name
    <2>2. /\ \/ username' = name /\ pendingLobby' = Append(pendingLobby, name)
             \/ UNCHANGED <<username, pendingLobby>>
          /\ UNCHANGED <<currentUsername, pendingLogins, pendingRegisters, pendingEntries, presses>>
      BY <1>6 DEF ReturnLogin
    <2> HIDE DEF name
    <2>3. username' \in Names \cup {NoName} /\ pendingLobby' \in Seq(Names)
      <3>1. pendingLobby \in Seq(Names) /\ username \in Names \cup {NoName} /\ name \in Names
        BY <1>0, <2>1 DEF FormTypes, name
      <3> QED
        BY <2>2, <3>1
    <2> QED
      BY <1>0, <2>2, <2>3 DEF FormTypes
  <1>7. CASE UNCHANGED <<username, currentUsername, pendingLogins, pendingLobby,
                         pendingRegisters, pendingEntries, presses>>
    BY <1>0, <1>7 DEF FormTypes
  <1> QED
    BY <1>1, <1>2, <1>3, <1>4, <1>5, <1>6, <1>7, <1>8
       DEF Next, Return, vars, GameGoesOn, PressBack, PressCancel, LeaveDialog, CloseBox,
           GameTimer, WaitTimer, StartShot, ReturnRegister, ReturnPoll, ReturnDialog,
           ReturnProfile, ReturnBox, ReturnShown, ReturnMove, ReturnCreate, ReturnJoin

LEMMA ScreenStep == ScreenTypes /\ [Next]_vars => ScreenTypes'
  <1> SUFFICES ASSUME ScreenTypes, [Next]_vars PROVE ScreenTypes'
    OBVIOUS
  <1> USE DEF client, login, screen, shots, ScreenTypes
  <1>1. CASE ReturnPoll \/ ReturnJoin \/ ReturnLogin \/ ReturnRegister \/ ReturnProfile
    BY <1>1 DEF ReturnPoll, ReturnJoin, ReturnLogin, ReturnRegister, ReturnProfile,
                ShowWaitingScreen
  <1>2. CASE \/ PressLogin \/ PressRegister \/ PressBack \/ PressLogout \/ PressCancel
             \/ StartShot \/ LobbyShot \/ \E k \in 1 .. MaxDepth : LeaveDialog(k)
    BY <1>2 DEF PressLogin, PressRegister, PressBack, PressLogout, PressCancel, StartShot,
                LobbyShot, LeaveDialog
  <1>3. CASE UNCHANGED <<buttons, waiting, dialogMade, window>>
    BY <1>3
  <1> QED
    BY <1>1, <1>2, <1>3
       DEF Next, Return, vars, GameGoesOn, PressProfile, PressCreate, PressJoin, OpenBox,
           PressMove, CloseBox, GameTimer, WaitTimer, EntryShot, LoginShot, RegisterShot,
           PollFails, ReturnDialog, ReturnBox, ReturnProfile, ReturnShown, ReturnMove,
           ReturnCreate

\* Games only advance, and once a game is the player's it stays so.
LEMMA Advance ==
    ASSUME TypeInv, StackInv, TypeInv', [Next]_vars
    PROVE  /\ sat \subseteq sat' /\ sat' \subseteq Games
           /\ \A g \in Games : server[g] \in Nat /\ server'[g] \in Nat /\ server[g] <= server'[g]
           /\ WellStacked(stack, server', sat')
  <1> USE DEF client, login, screen, shots
  <1>1. \A g \in Games : server[g] \in Nat /\ server'[g] \in Nat
    BY DEF TypeInv, WorldTypes, Missing, Finished
  <1>2. sat \subseteq sat' /\ sat' \subseteq Games
    <2>1. UNCHANGED sat \/ ReturnJoin
      BY DEF Next, vars, Return, GameGoesOn, PressLogin, PressRegister, PressProfile, PressBack,
             PressLogout, PressCreate, PressJoin, OpenBox, PressCancel, PressMove, LeaveDialog,
             CloseBox, GameTimer, WaitTimer, EntryShot, StartShot, LoginShot, RegisterShot,
             LobbyShot, PollFails, ReturnLogin, ReturnRegister, ReturnPoll, ReturnDialog,
             ReturnBox, ReturnProfile, ReturnShown, ReturnMove, ReturnCreate
    <2>2. ReturnJoin => sat \subseteq sat'
      BY DEF ReturnJoin
    <2> QED
      BY <2>1, <2>2 DEF TypeInv, WorldTypes
  <1>3. \A g \in Games : server[g] <= server'[g]
    <2>1. \/ UNCHANGED server
          \/ \E g \in Games : server' = [server EXCEPT ![g] = server[g] + 1]
          \/ \E g \in Games : server[g] = Missing /\ server' = [server EXCEPT ![g] = Waiting]
      BY DEF Next, vars, Return, GameGoesOn, PressLogin, PressRegister, PressProfile, PressBack,
             PressLogout, PressCreate, PressJoin, OpenBox, PressCancel, PressMove, LeaveDialog,
             CloseBox, GameTimer, WaitTimer, EntryShot, StartShot, LoginShot, RegisterShot,
             LobbyShot, PollFails, ReturnLogin, ReturnRegister, ReturnPoll, ReturnDialog,
             ReturnBox, ReturnProfile, ReturnShown, ReturnMove, ReturnCreate, ReturnJoin, NextId
    <2>2. DOMAIN server = Games
      BY DEF TypeInv, WorldTypes
    <2> QED
      BY <1>1, <2>1, <2>2 DEF Missing, Waiting
  <1>4. WellStacked(stack, server', sat')
    BY <1>1, <1>2, <1>3, StillWell DEF StackInv
  <1> QED
    BY <1>1, <1>2, <1>3, <1>4

-----------------------------------------------------------------------------
LEMMA PushNone ==
    ASSUME NEW st \in Seq(Handlers), NEW h \in Handlers, NEW kinds, None(st, kinds),
           h.kind \notin kinds
    PROVE  None(Append(st, h), kinds)
  BY OnTop DEF None

LEMMA PopNone ==
    ASSUME NEW st \in Seq(Handlers), st # <<>>, NEW kinds, None(st, kinds)
    PROVE  None(Front(st), kinds)
  <1>1. /\ Len(st) \in Nat \ {0} /\ DOMAIN st = 1 .. Len(st)
        /\ DOMAIN Front(st) = 1 .. Len(st) - 1
        /\ \A k \in 1 .. Len(st) - 1 : Front(st)[k] = st[k]
    BY TopAndRest
  <1> QED
    BY <1>1 DEF None

LEMMA AgedNone ==
    ASSUME NEW st \in Seq(Handlers), None(st, Dialogs)
    PROVE  None(Aged(st), Dialogs)
  <1>1. ASSUME NEW k \in DOMAIN st PROVE Aged(st)[k].kind \notin Dialogs
    <2>1. CASE st[k].kind = "wait"
      <3>1. st[k] \in Plain
        BY <2>1 DEF Handlers, Logins
      <3> QED
        BY <2>1, <3>1 DEF Aged, Plain, Dialogs
    <2>2. CASE st[k].kind # "wait"
      BY <2>2 DEF Aged, None
    <2> QED
      BY <2>1, <2>2
  <1>2. DOMAIN Aged(st) = DOMAIN st
    BY DEF Aged
  <1> QED
    BY <1>1, <1>2 DEF None

LEMMA HandlerSound ==
    ASSUME TypeInv, NEW kind \in Kinds, NEW g \in Games \cup {NoGame}, NEW sv, NEW sa,
           \A f \in Games : server[f] <= sv[f],
           kind \in Polling => g \in sa /\ g \in Games,
           kind = "join" => g \in Games
    PROVE  /\ Sound(Handler(kind, g), sv, sa)
           /\ Handler(kind, g).kind = kind
  <1> DEFINE h == Handler(kind, g)
  <1>1. h.kind = kind /\ h.game = g /\ h.since = IF g = NoGame THEN Missing ELSE server[g]
    BY DEF Handler
  <1>2. g \in Games => g # NoGame
    BY DEF Games, NoGame
  <1>3. h \in Plain
    BY DEF Handler, Plain, TypeInv, WorldTypes, Missing, Finished
  <1> HIDE DEF h
  <1>4. Sound(h, sv, sa)
    BY <1>1, <1>2, <1>3 DEF Sound, Handlers
  <1> QED
    BY <1>1, <1>4 DEF h

\* A handler of another kind than a dialog's or the board's is put on the stack.
LEMMA Pushed ==
    ASSUME NEW sv, NEW sa, NEW st, WellStacked(st, sv, sa), NEW h, Sound(h, sv, sa),
           h.kind \notin Dialogs, h.kind \notin Boards
    PROVE  /\ WellStacked(Append(st, h), sv, sa)
           /\ None(st, Dialogs) => None(Append(st, h), Dialogs)
  <1>1. st \in Seq(Handlers) /\ h \in Handlers
    BY DEF WellStacked, Sound
  <1> QED
    BY <1>1, PushWell, PushNone

LEMMA Popped ==
    ASSUME NEW sv, NEW sa, NEW st, WellStacked(st, sv, sa), st # <<>>
    PROVE  /\ WellStacked(Front(st), sv, sa)
           /\ None(st, Dialogs) => None(Front(st), Dialogs)
  BY PopWell, PopNone DEF WellStacked

\* What AfterPoll leaves of a handler's stack: the board goes on with the chat.
LEMMA AfterPollStack ==
    ASSUME TypeInv, NEW h, NEW below, NEW stage, AfterPoll(h, below, stage),
           WellStacked(below, server, sat), h.kind = "board" => None(below, Boards)
    PROVE  /\ stack' = below \/ stack' = Append(below, Handler("chat", NoGame))
           /\ WellStacked(stack', server, sat)
           /\ None(below, Dialogs) => None(stack', Dialogs)
  <1> DEFINE chat == Handler("chat", NoGame)
  <1>1. Sound(chat, server, sat) /\ chat.kind = "chat"
    <2>1. \A f \in Games : server[f] <= server[f]
      BY DEF TypeInv, WorldTypes, Missing, Finished
    <2> QED
      BY <2>1, HandlerSound DEF Kinds, Polling
  <1>2. stack' = IF h.kind = "board" /\ gameId # NoGame THEN Append(below, chat) ELSE below
    BY DEF AfterPoll
  <1> HIDE DEF chat
  <1>3. ASSUME h.kind = "board" PROVE WellStacked(Append(below, chat), server, sat)
    BY <1>1, <1>3, PushWell DEF Dialogs
  <1>4. None(below, Dialogs) => None(Append(below, chat), Dialogs)
    BY <1>1, PushNone DEF Dialogs, WellStacked, Sound
  <1> QED
    BY <1>2, <1>3, <1>4 DEF chat

LEMMA StackStep == TypeInv /\ TypeInv' /\ StackInv /\ GameInv /\ [Next]_vars => StackInv'
  <1> SUFFICES ASSUME TypeInv, TypeInv', StackInv, GameInv, [Next]_vars PROVE StackInv'
    OBVIOUS
  <1> USE DEF client, login, screen, shots
  <1>0. /\ WellStacked(stack, server, sat) /\ WellStacked(stack, server', sat')
        /\ ~dialogMade => None(stack, Dialogs)
        /\ stack \in Seq(Handlers)
    BY Advance DEF StackInv, WellStacked
  <1>a. \A g \in Games : server[g] <= server[g]
    BY DEF TypeInv, WorldTypes, Missing, Finished
  <1>b. gameId # NoGame => gameId \in Games /\ gameId \in sat
    BY DEF GameInv, TypeInv, WorldTypes
  <1>1. CASE UNCHANGED <<stack, dialogMade>>
    BY <1>0, <1>1 DEF StackInv
  <1>2. ASSUME NEW kind \in Kinds \ (Dialogs \cup Boards), NEW g \in Games \cup {NoGame},
               kind \in Polling => g \in sat, kind \in Polling \cup {"join"} => g \in Games,
               stack' = Append(stack, Handler(kind, g)), UNCHANGED <<server, sat, dialogMade>>
        PROVE  StackInv'
    <2>1. Sound(Handler(kind, g), server, sat) /\ Handler(kind, g).kind = kind
      BY <1>a, <1>2, HandlerSound
    <2> QED
      BY <1>0, <1>2, <2>1, Pushed DEF StackInv
  <1>3. ASSUME stack # <<>>, stack' = Below, UNCHANGED <<server, sat, dialogMade>>
        PROVE  StackInv'
    BY <1>0, <1>3, Popped DEF StackInv, Below
  <1>4. ASSUME stack' = Aged(stack), UNCHANGED <<server, sat, dialogMade>>
        PROVE  StackInv'
    BY <1>0, <1>4, AgedWell, AgedNone DEF StackInv
  <1>5. CASE PressProfile \/ PressJoin \/ OpenBox \/ PressMove
    <2>1. PICK kind \in {"profile", "asking", "box", "move"} :
              stack' = Append(stack, Handler(kind, NoGame))
      BY <1>5 DEF PressProfile, PressJoin, OpenBox, PressMove
    <2>2. UNCHANGED <<server, sat, dialogMade>>
      BY <1>5 DEF PressProfile, PressJoin, OpenBox, PressMove
    <2>3. /\ kind \in Kinds \ (Dialogs \cup Boards) /\ kind \notin Polling \cup {"join"}
          /\ NoGame \in Games \cup {NoGame}
      BY DEF Kinds, Modal, Boxes, Polling, Dialogs, Boards
    <2> QED
      BY <1>2, <2>1, <2>2, <2>3
  <1>6. CASE PressCancel \/ LobbyShot
    BY <1>4, <1>6 DEF PressCancel, LobbyShot
  <1>7. ASSUME NEW k \in 1 .. MaxDepth, LeaveDialog(k) PROVE StackInv'
    <2>1. /\ k \in DOMAIN stack /\ stack[k].kind = "dialog"
          /\ stack' = [stack EXCEPT ![k].kind = "closed"]
          /\ UNCHANGED <<server, sat, dialogMade>>
      BY <1>7 DEF LeaveDialog
    <2>2. stack[k] \in Plain
      BY <1>0, <2>1 DEF Handlers, Logins
    <2> DEFINE closed == [stack[k] EXCEPT !.kind = "closed"]
    <2>3. closed \in Handlers /\ closed.kind = "closed"
      BY <2>2 DEF Plain, Handlers, Kinds
    <2>4. stack' = [stack EXCEPT ![k] = closed]
      BY <2>1
    <2>5. \A j \in DOMAIN stack : stack'[j] = IF j = k THEN closed ELSE stack[j]
      BY <1>0, <2>1, <2>4
    <2>6. stack' \in Seq(Handlers) /\ Len(stack') = Len(stack)
      BY <1>0, <2>1, <2>3, <2>4
    <2>7. WellStacked(stack', server, sat)
      BY <1>0, <2>1, <2>5, <2>6, RekindledWell
    <2>8. ~dialogMade => FALSE
      BY <1>0, <2>1 DEF None, Dialogs
    <2> QED
      BY <2>1, <2>7, <2>8 DEF StackInv
  <1>21. ASSUME NEW k \in 1 .. MaxDepth, CloseBox(k) PROVE StackInv'
    <2>1. PICK kind \in {"shut", "entered"} : stack' = [stack EXCEPT ![k].kind = kind]
      BY <1>21 DEF CloseBox
    <2>2. k \in DOMAIN stack /\ stack[k].kind \in Boxes /\ UNCHANGED <<server, sat, dialogMade>>
      BY <1>21 DEF CloseBox, Boxes
    <2>3. stack[k] \in Plain
      BY <1>0, <2>2 DEF Handlers, Logins, Boxes
    <2> DEFINE shut == [stack[k] EXCEPT !.kind = kind]
    <2>4. shut \in Handlers /\ shut.kind = kind
      BY <2>3 DEF Plain, Handlers, Kinds
    <2>5. stack' = [stack EXCEPT ![k] = shut]
      BY <2>1
    <2>6. \A j \in DOMAIN stack : stack'[j] = IF j = k THEN shut ELSE stack[j]
      BY <1>0, <2>2, <2>5
    <2>7. stack' \in Seq(Handlers) /\ Len(stack') = Len(stack)
      BY <1>0, <2>2, <2>4, <2>5
    <2>8. WellStacked(stack', server, sat)
      BY <1>0, <2>2, <2>6, <2>7, RekindledWell
    <2>9. None(stack, Dialogs) => None(stack', Dialogs)
      <3>1. DOMAIN stack' = DOMAIN stack
        BY <1>0, <2>7
      <3>2. kind \notin Dialogs
        BY DEF Dialogs
      <3> HIDE DEF shut
      <3> QED
        BY <2>4, <2>6, <3>1, <3>2 DEF None
    <2> QED
      BY <1>0, <2>2, <2>8, <2>9 DEF StackInv
  <1>8. CASE GameTimer
    <2> DEFINE h == Handler("board", gameId)
    <2>1. /\ stack' = Append(stack, h) /\ gameId # NoGame /\ NotUnderWay(Boards)
          /\ UNCHANGED <<server, sat, dialogMade>>
      BY <1>8 DEF GameTimer, Boards
    <2>2. Sound(h, server, sat) /\ h.kind = "board"
      BY <1>a, <1>b, <2>1, HandlerSound DEF Kinds, Polling
    <2> HIDE DEF h
    <2>3. None(stack, Boards)
      BY <2>1 DEF NotUnderWay, None
    <2>4. WellStacked(stack', server, sat)
      BY <1>0, <2>1, <2>2, <2>3, PushWell DEF Dialogs
    <2>5. ~dialogMade => None(stack', Dialogs)
      BY <1>0, <2>1, <2>2, PushNone DEF Dialogs, Sound
    <2> QED
      BY <2>1, <2>4, <2>5 DEF StackInv
  <1>9. CASE WaitTimer
    BY <1>b, <1>2, <1>9 DEF WaitTimer, Kinds, Polling, Dialogs, Boards
  <1>10. CASE EntryShot
    <2>1. \/ stack' = Append(stack, Handler("create", NoGame))
          \/ \E g \in Games : stack' = Append(stack, Handler("join", g))
      <3>1. Head(pendingEntries) \in Entries
        BY <1>10 DEF EntryShot, TypeInv, FormTypes
      <3> QED
        BY <1>10, <3>1 DEF EntryShot, Entries
    <2>2. UNCHANGED <<server, sat, dialogMade>>
      BY <1>10 DEF EntryShot
    <2> QED
      BY <1>2, <2>1, <2>2 DEF Kinds, Polling, Dialogs, Boards
  <1>11. CASE LoginShot
    <2> DEFINE h == LoginHandler(Head(pendingLogins))
    <2>1. stack' = Append(stack, h) /\ UNCHANGED <<server, sat, dialogMade>>
      BY <1>11 DEF LoginShot
    <2>2. h.kind = "login" /\ h \in Logins
      BY <1>11 DEF LoginShot, LoginHandler, Logins, TypeInv, FormTypes
    <2> HIDE DEF h
    <2>3. Sound(h, server, sat)
      BY <2>2 DEF Sound, Handlers, Polling
    <2> QED
      BY <1>0, <2>1, <2>2, <2>3, Pushed DEF StackInv, Dialogs, Boards
  <1>12. CASE RegisterShot
    BY <1>2, <1>12 DEF RegisterShot, Kinds, Polling, Dialogs, Boards
  <1>13. CASE PollFails
    <2>1. PICK stage : AfterPoll(Innermost, Below, stage)
      BY <1>13 DEF PollFails
    <2>2. Finishing(Polling) /\ UNCHANGED <<server, sat, dialogMade>>
      BY <1>13 DEF PollFails
    <2>3. /\ WellStacked(Below, server, sat)
          /\ Innermost.kind = "board" => None(Below, Boards)
          /\ None(stack, Dialogs) => None(Below, Dialogs)
      BY <1>0, <2>2, PopWell, PopNone DEF Finishing, Below, Innermost, Boards
    <2> QED
      BY <1>0, <2>1, <2>2, <2>3, AfterPollStack DEF StackInv
  <1>14. CASE ReturnPoll
    <2>1. Finishing(Polling) /\ UNCHANGED <<server, sat>>
      BY <1>14 DEF ReturnPoll
    <2>2. PICK stage : IF OpensDialog(stage)
                       THEN /\ dialogMade' = TRUE
                            /\ stack' = Append(stack, Handler("dialog", NoGame))
                       ELSE AfterPoll(Innermost, Below, stage) /\ UNCHANGED dialogMade
      BY <1>14 DEF ReturnPoll
    <2>3. CASE OpensDialog(stage)
      <3> DEFINE h == Handler("dialog", NoGame)
      <3>1. Sound(h, server, sat) /\ h.kind = "dialog"
        BY <1>a, HandlerSound DEF Kinds, Modal, Polling
      <3>2. stack' = Append(stack, h) /\ dialogMade' = TRUE /\ ~dialogMade
        BY <2>2, <2>3 DEF OpensDialog
      <3> HIDE DEF h
      <3>3. stack # <<>> /\ Last(stack).kind \in Polling /\ None(stack, Dialogs)
        BY <1>0, <2>1, <3>2 DEF Finishing, Innermost
      <3>4. WellStacked(stack', server, sat)
        BY <1>0, <3>1, <3>2, <3>3, PushWell DEF Boards
      <3> QED
        BY <2>1, <3>2, <3>4 DEF StackInv
    <2>4. CASE ~OpensDialog(stage)
      <3>1. AfterPoll(Innermost, Below, stage) /\ UNCHANGED dialogMade
        BY <2>2, <2>4
      <3>2. /\ WellStacked(Below, server, sat)
            /\ Innermost.kind = "board" => None(Below, Boards)
            /\ None(stack, Dialogs) => None(Below, Dialogs)
        BY <1>0, <2>1, PopWell, PopNone DEF Finishing, Below, Innermost, Boards
      <3> QED
        BY <1>0, <2>1, <3>1, <3>2, AfterPollStack DEF StackInv
    <2> QED
      BY <2>3, <2>4
  <1>15. CASE ReturnDialog
    <2>1. /\ Finishing({"closed"}) /\ AfterPoll(Last(Below), Front(Below), snapshot.stage)
          /\ UNCHANGED <<server, sat, dialogMade>>
      BY <1>15 DEF ReturnDialog
    <2>2. /\ WellStacked(Below, server, sat) /\ Below # <<>>
          /\ None(stack, Dialogs) => None(Below, Dialogs)
      BY <1>0, <2>1, PopWell, PopNone DEF Finishing, Below, Innermost, Dialogs
    <2>3. /\ WellStacked(Front(Below), server, sat)
          /\ Last(Below).kind = "board" => None(Front(Below), Boards)
          /\ None(stack, Dialogs) => None(Front(Below), Dialogs)
      BY <2>2, PopWell, PopNone DEF Boards, WellStacked
    <2> QED
      BY <1>0, <2>1, <2>3, AfterPollStack DEF StackInv
  <1>16. CASE ReturnBox \/ ReturnShown \/ ReturnLogin \/ ReturnRegister
    BY <1>3, <1>16 DEF ReturnBox, ReturnShown, ReturnLogin, ReturnRegister, Finishing
  <1>17. ASSUME stack # <<>>, NEW kind \in Kinds \ (Dialogs \cup Boards),
               NEW g \in Games \cup {NoGame},
               kind \in Polling => g \in sat, kind \in Polling \cup {"join"} => g \in Games,
               stack' = Append(Below, Handler(kind, g)), UNCHANGED <<server, sat, dialogMade>>
        PROVE  StackInv'
    <2>1. Sound(Handler(kind, g), server, sat) /\ Handler(kind, g).kind = kind
      BY <1>a, <1>17, HandlerSound
    <2>2. WellStacked(Below, server, sat) /\ (None(stack, Dialogs) => None(Below, Dialogs))
      BY <1>0, <1>17, Popped DEF Below
    <2> QED
      BY <1>0, <1>17, <2>1, <2>2, Pushed DEF StackInv
  <1>18. CASE ReturnMove
    BY <1>b, <1>3, <1>17, <1>18 DEF ReturnMove, Finishing, Kinds, Polling, Dialogs, Boards
  <1>22. CASE ReturnProfile
    <2>1. /\ stack # <<>> /\ UNCHANGED <<server, sat, dialogMade>>
          /\ stack' = Below \/ stack' = Append(Below, Handler("figures", NoGame))
      BY <1>22 DEF ReturnProfile, Finishing
    <2>2. /\ "figures" \in Kinds \ (Dialogs \cup Boards) /\ "figures" \notin Polling \cup {"join"}
          /\ NoGame \in Games \cup {NoGame}
      BY DEF Kinds, Polling, Dialogs, Boards
    <2> QED
      BY <1>3, <1>17, <2>1, <2>2
  <1>19. CASE ReturnCreate
    <2>1. /\ stack # <<>> /\ UNCHANGED <<sat, dialogMade>>
          /\ \/ stack' = Below /\ UNCHANGED server
             \/ \E g \in Games :
                  /\ server' = [server EXCEPT ![g] = Waiting]
                  /\ stack' = Append(Below, [kind |-> "join", game |-> g, since |-> Waiting])
      BY <1>19 DEF ReturnCreate, Finishing
    <2>2. ASSUME NEW g \in Games, server' = [server EXCEPT ![g] = Waiting],
                 stack' = Append(Below, [kind |-> "join", game |-> g, since |-> Waiting])
          PROVE  StackInv'
      <3> DEFINE h == [kind |-> "join", game |-> g, since |-> Waiting]
      <3>1. h.kind = "join" /\ h.game = g /\ h.since = Waiting /\ h \in Plain
        BY DEF Plain, Kinds, Missing, Waiting, Finished
      <3>2. server'[g] = Waiting
        BY <2>2 DEF TypeInv, WorldTypes
      <3> HIDE DEF h
      <3>3. Sound(h, server', sat')
        BY <3>1, <3>2 DEF Sound, Handlers, Polling, Waiting
      <3>4. WellStacked(Below, server', sat') /\ (None(stack, Dialogs) => None(Below, Dialogs))
        BY <1>0, <2>1, Popped DEF Below
      <3>5. stack' = Append(Below, h)
        BY <2>2 DEF h
      <3>6. /\ WellStacked(Append(Below, h), server', sat')
            /\ None(Below, Dialogs) => None(Append(Below, h), Dialogs)
        BY <3>1, <3>3, <3>4, Pushed DEF Dialogs, Boards
      <3> QED
        BY <1>0, <2>1, <3>4, <3>5, <3>6 DEF StackInv
    <2> QED
      BY <1>3, <2>1, <2>2
  <1>20. CASE ReturnJoin
    <2>1. /\ stack # <<>> /\ UNCHANGED <<server, dialogMade>>
          /\ \/ stack' = Below /\ UNCHANGED sat
             \/ /\ sat' = sat \cup {gameId'} /\ gameId' = Innermost.game
                /\ stack' = Append(Aged(Below), Handler("poll", gameId'))
      BY <1>20 DEF ReturnJoin, Finishing, ShowWaitingScreen
    <2>2. Innermost.game \in Games
      BY <1>20, TopHandler DEF ReturnJoin, Kinds
    <2>3. ASSUME sat' = sat \cup {gameId'}, gameId' = Innermost.game,
                 stack' = Append(Aged(Below), Handler("poll", gameId'))
          PROVE  StackInv'
      <3> DEFINE g == Innermost.game
                 h == Handler("poll", g)
      <3>1. Sound(h, server, sat') /\ h.kind = "poll"
        BY <1>a, <2>2, <2>3, HandlerSound DEF Kinds, Polling
      <3>2. /\ WellStacked(Below, server, sat') /\ Below \in Seq(Handlers)
            /\ None(stack, Dialogs) => None(Below, Dialogs)
        BY <1>0, <2>1, Popped DEF Below, WellStacked
      <3>3. /\ WellStacked(Aged(Below), server, sat')
            /\ None(Below, Dialogs) => None(Aged(Below), Dialogs)
        BY <3>2, AgedWell, AgedNone
      <3>4. stack' = Append(Aged(Below), h)
        BY <2>3
      <3> HIDE DEF h
      <3>5. /\ WellStacked(Append(Aged(Below), h), server, sat')
            /\ None(Aged(Below), Dialogs) => None(Append(Aged(Below), h), Dialogs)
        BY <3>1, <3>3, Pushed DEF Dialogs, Boards
      <3> QED
        BY <1>0, <2>1, <3>2, <3>3, <3>4, <3>5 DEF StackInv
    <2> QED
      BY <1>3, <2>1, <2>3
  <1> QED
    BY <1>1, <1>5, <1>6, <1>7, <1>8, <1>9, <1>10, <1>11, <1>12, <1>13, <1>14, <1>15, <1>16,
       <1>18, <1>19, <1>20, <1>21, <1>22
       DEF Next, Return, vars, GameGoesOn, PressLogin, PressRegister, PressBack, PressLogout,
           PressCreate, StartShot

LEMMA GameStep ==
    TypeInv /\ TypeInv' /\ StackInv /\ GameInv /\ [Next]_vars => GameInv'
  <1> SUFFICES ASSUME TypeInv, TypeInv', StackInv, GameInv, [Next]_vars PROVE GameInv'
    OBVIOUS
  <1> USE DEF client, login, screen, shots
  <1>0. /\ sat \subseteq sat' /\ sat' \subseteq Games
        /\ \A g \in Games : server[g] \in Nat /\ server'[g] \in Nat /\ server[g] <= server'[g]
    BY Advance
  <1>a. gameId \in Games \cup {NoGame} /\ snapshot.game \in Games \cup {NoGame}
        /\ snapshot.stage \in Nat
    BY DEF TypeInv, WorldTypes, Missing, Finished
  <1>1. gameId' # NoGame => gameId' \in sat'
    <2>1. gameId' = NoGame \/ UNCHANGED gameId \/ gameId' \in sat'
      BY DEF Next, vars, Return, GameGoesOn, PressLogin, PressRegister, PressProfile, PressBack,
             PressLogout, PressCreate, PressJoin, OpenBox, PressCancel, PressMove, LeaveDialog,
             CloseBox, GameTimer, WaitTimer, EntryShot, StartShot, LoginShot, RegisterShot,
             LobbyShot, PollFails, ReturnLogin, ReturnRegister, ReturnPoll, ReturnDialog,
             ReturnBox, ReturnProfile, ReturnShown, ReturnMove, ReturnCreate, ReturnJoin
    <2> QED
      BY <1>0, <2>1 DEF GameInv
  <1>2. /\ snapshot'.game = NoGame => snapshot'.stage = Missing
        /\ snapshot'.game # NoGame =>
              snapshot'.game \in sat' /\ snapshot'.stage <= server'[snapshot'.game]
    <2>1. CASE ReturnPoll
      <3>1. PICK stage \in Replies(Innermost) :
                snapshot' = [game |-> Innermost.game, stage |-> stage]
        BY <2>1 DEF ReturnPoll, Take
      <3>2. /\ Innermost.game \in Games /\ Innermost.game \in sat
            /\ stage <= server[Innermost.game] /\ stage \in Nat
        BY <2>1, TopHandler DEF ReturnPoll, Kinds, Sound, Missing, Finished
      <3>3. Innermost.game # NoGame
        BY <3>2 DEF Games, NoGame
      <3> QED
        BY <1>0, <3>1, <3>2, <3>3
    <2>2. CASE UNCHANGED snapshot
      BY <1>0, <1>a, <2>2 DEF GameInv
    <2> QED
      BY <2>1, <2>2
         DEF Next, vars, Return, GameGoesOn, PressLogin, PressRegister, PressProfile, PressBack,
             PressLogout, PressCreate, PressJoin, OpenBox, PressCancel, PressMove, LeaveDialog,
             CloseBox, GameTimer, WaitTimer, EntryShot, StartShot, LoginShot, RegisterShot,
             LobbyShot, PollFails, ReturnLogin, ReturnRegister, ReturnDialog, ReturnBox,
             ReturnProfile, ReturnShown, ReturnMove, ReturnCreate, ReturnJoin
  <1>3. BoardOnlyAfterStart'
    <2>1. snapshot.stage = Playing => \E g \in sat : server[g] > Waiting
      <3>1. ASSUME snapshot.stage = Playing PROVE \E g \in sat : server[g] > Waiting
        <4>1. /\ snapshot.game \in sat /\ snapshot.stage <= server[snapshot.game]
              /\ snapshot.game \in Games
          BY <1>a, <3>1 DEF GameInv, Playing, Missing
        <4> QED
          BY <1>0, <3>1, <4>1 DEF Playing, Waiting
      <3> QED
        BY <3>1
    <2>2. ASSUME NEW stage, AfterPoll(Innermost, Below, stage), stage \in Replies(Innermost),
                 Finishing(Polling), pendingStarts' > 0
          PROVE  pendingStarts > 0 \/ \E g \in sat : server[g] > Waiting
      <3>1. /\ Innermost.game \in Games /\ Innermost.game \in sat
            /\ stage <= server[Innermost.game] /\ stage \in Nat
        BY <2>2, TopHandler DEF Kinds, Sound, Missing, Finished
      <3>2. pendingStarts > 0 \/ stage = Playing
        BY <2>2, AfterPollStarts
      <3> QED
        BY <1>0, <3>1, <3>2 DEF Playing, Waiting
    <2>3. ASSUME pendingStarts' > 0
          PROVE  pendingStarts > 0 \/ \E g \in sat : server[g] > Waiting
      <3>1. CASE ReturnPoll
        BY <2>2, <2>3, <3>1 DEF ReturnPoll
      <3>2. CASE PollFails
        <4>1. PICK stage \in {Missing, snapshot.stage} : AfterPoll(Innermost, Below, stage)
          BY <3>2 DEF PollFails
        <4>2. pendingStarts > 0 \/ stage = Playing
          BY <2>3, <4>1, AfterPollStarts
        <4> QED
          BY <2>1, <4>1, <4>2 DEF Missing, Playing
      <3>3. CASE ReturnDialog
        <4>1. AfterPoll(Last(Below), Front(Below), snapshot.stage)
          BY <3>3 DEF ReturnDialog
        <4>2. pendingStarts > 0 \/ snapshot.stage = Playing
          BY <2>3, <4>1, AfterPollStarts
        <4> QED
          BY <2>1, <4>2
      <3>4. CASE StartShot
        BY <3>4 DEF StartShot
      <3>5. CASE UNCHANGED pendingStarts
        BY <2>3, <3>5
      <3> QED
        BY <3>1, <3>2, <3>3, <3>4, <3>5
           DEF Next, vars, Return, GameGoesOn, PressLogin, PressRegister, PressProfile, PressBack,
               PressLogout, PressCreate, PressJoin, OpenBox, PressCancel, PressMove, LeaveDialog,
               CloseBox, GameTimer, WaitTimer, EntryShot, LoginShot, RegisterShot, LobbyShot,
               ReturnLogin, ReturnRegister, ReturnBox, ReturnProfile, ReturnShown, ReturnMove,
               ReturnCreate, ReturnJoin
    <2>4. window' = "board" => window = "board" \/ pendingStarts > 0
      BY DEF Next, vars, Return, GameGoesOn, PressLogin, PressRegister, PressProfile, PressBack,
             PressLogout, PressCreate, PressJoin, OpenBox, PressCancel, PressMove, LeaveDialog,
             CloseBox, GameTimer, WaitTimer, EntryShot, StartShot, LoginShot, RegisterShot,
             LobbyShot, PollFails, ReturnLogin, ReturnRegister, ReturnPoll, ReturnDialog,
             ReturnBox, ReturnProfile, ReturnShown, ReturnMove, ReturnCreate, ReturnJoin
    <2>5. (\E g \in sat : server[g] > Waiting) => \E g \in sat' : server'[g] > Waiting
      BY <1>0 DEF Waiting
    <2> QED
      BY <2>3, <2>4, <2>5 DEF GameInv, BoardOnlyAfterStart
  <1> QED
    BY <1>1, <1>2, <1>3 DEF GameInv

LEMMA TailLast ==
    ASSUME NEW S, NEW s \in Seq(S), s # <<>>
    PROVE  Last(s) = IF Tail(s) = <<>> THEN Head(s) ELSE Last(Tail(s))
  <1> DEFINE t == Tail(s)
  <1>1. Len(s) \in Nat \ {0} /\ Head(s) = s[1]
    OBVIOUS
  <1>2. /\ t \in Seq(S) /\ Len(t) = Len(s) - 1
        /\ \A k \in 1 .. Len(s) - 1 : t[k] = s[k + 1]
    BY <1>1
  <1> HIDE DEF t
  <1>3. t = <<>> => Len(s) = 1
    BY <1>1, <1>2
  <1>4. t # <<>> => Len(t) \in Nat \ {0}
    BY <1>2
  <1>5. t # <<>> => t[Len(t)] = s[Len(s)]
    BY <1>1, <1>2, <1>4
  <1> QED
    BY <1>1, <1>3, <1>5 DEF Last, t

LEMMA GreetStep == TypeInv /\ StackInv /\ GreetInv /\ [Next]_vars => GreetInv'
  <1> SUFFICES ASSUME TypeInv, StackInv, GreetInv, [Next]_vars PROVE GreetInv'
    OBVIOUS
  <1> USE DEF client, login, screen, shots
  <1>0. pendingLobby \in Seq(Names)
    BY DEF TypeInv, FormTypes
  <1>1. CASE LobbyShot
    <2>1. /\ pendingLobby # <<>> /\ pendingLobby' = Tail(pendingLobby)
          /\ currentUsername' = Head(pendingLobby) /\ UNCHANGED username
      BY <1>1 DEF LobbyShot
    <2> QED
      BY <1>0, <2>1, TailLast DEF GreetInv
  <1>2. CASE ReturnLogin
    <2> DEFINE name == Innermost.name
    <2>1. \/ username' = name /\ pendingLobby' = Append(pendingLobby, name)
          \/ UNCHANGED <<username, pendingLobby>>
      BY <1>2 DEF ReturnLogin
    <2>2. UNCHANGED currentUsername
      BY <1>2 DEF ReturnLogin
    <2>3. name \in Names
      BY <1>2, TopHandler DEF ReturnLogin, Kinds
    <2> HIDE DEF name
    <2>4. Append(pendingLobby, name) # <<>> /\ Last(Append(pendingLobby, name)) = name
      BY <1>0, <2>3 DEF Last
    <2> QED
      BY <2>1, <2>2, <2>4 DEF GreetInv
  <1>3. CASE UNCHANGED <<username, currentUsername, pendingLobby>>
    BY <1>3 DEF GreetInv
  <1> QED
    BY <1>1, <1>2, <1>3
       DEF Next, vars, Return, GameGoesOn, PressLogin, PressRegister, PressProfile, PressBack,
           PressLogout, PressCreate, PressJoin, OpenBox, PressCancel, PressMove, LeaveDialog,
           CloseBox, GameTimer, WaitTimer, EntryShot, StartShot, LoginShot, RegisterShot,
           PollFails, ReturnRegister, ReturnPoll, ReturnDialog, ReturnBox, ReturnProfile,
           ReturnShown, ReturnMove, ReturnCreate, ReturnJoin

LEMMA BeforeLobbyStep ==
    TypeInv /\ StackInv /\ BeforeLobby /\ [Next]_vars => BeforeLobby'
  <1> SUFFICES ASSUME TypeInv, StackInv, BeforeLobby, [Next]_vars, currentUsername' = NoName
               PROVE  /\ window' = "login" /\ waiting' = FALSE /\ gameId' = NoGame
                      /\ pendingEntries' = <<>> /\ pendingStarts' = 0
                      /\ \A k \in DOMAIN stack' : stack'[k].kind \in {"login", "register"}
    BY DEF BeforeLobby
  <1> USE DEF client, login, screen, shots
  <1>1. ~LobbyShot
    <2>1. ASSUME LobbyShot PROVE FALSE
      <3>1. currentUsername' \in Names
        BY <2>1 DEF LobbyShot, TypeInv, FormTypes
      <3> QED
        BY <3>1 DEF Names, NoName
    <2> QED
      BY <2>1
  <1>2. UNCHANGED currentUsername
    BY <1>1 DEF Next, vars, Return, GameGoesOn, PressLogin, PressRegister, PressProfile,
                PressBack, PressLogout, PressCreate, PressJoin, OpenBox, PressCancel, PressMove,
                LeaveDialog, CloseBox, GameTimer, WaitTimer, EntryShot, StartShot, LoginShot,
                RegisterShot, PollFails, ReturnLogin, ReturnRegister, ReturnPoll, ReturnDialog,
                ReturnBox, ReturnProfile, ReturnShown, ReturnMove, ReturnCreate, ReturnJoin
  <1>3. /\ window = "login" /\ waiting = FALSE /\ gameId = NoGame
        /\ pendingEntries = <<>> /\ pendingStarts = 0
        /\ None(stack, (Kinds \cup {"login"}) \ {"login", "register"})
        /\ \A k \in DOMAIN stack : stack[k].kind \in {"login", "register"}
    BY <1>2 DEF BeforeLobby, None
  <1>4. stack \in Seq(Handlers)
    BY DEF StackInv, WellStacked
  <1>5. \A kinds \in SUBSET (Kinds \ {"register"}) : ~Finishing(kinds)
    <2> SUFFICES ASSUME NEW kinds \in SUBSET (Kinds \ {"register"}), Finishing(kinds)
                 PROVE  FALSE
      OBVIOUS
    <2>1. stack # <<>> /\ Last(stack).kind \in kinds
      BY DEF Finishing, Innermost
    <2>2. Last(stack) = stack[Len(stack)] /\ Len(stack) \in DOMAIN stack
      BY <1>4, <2>1, TopAndRest
    <2> QED
      BY <1>3, <2>1, <2>2 DEF Kinds, Modal, Boxes, Polling
  <1>6. ASSUME NEW h \in Handlers, h.kind \in {"login", "register"}, stack' = Append(stack, h)
        PROVE  \A k \in DOMAIN stack' : stack'[k].kind \in {"login", "register"}
    <2>1. /\ DOMAIN stack' = 1 .. Len(stack) + 1 /\ DOMAIN stack = 1 .. Len(stack)
          /\ stack'[Len(stack) + 1] = h /\ \A k \in 1 .. Len(stack) : stack'[k] = stack[k]
          /\ Len(stack) \in Nat
      BY <1>4, <1>6, OnTop
    <2> QED
      BY <1>3, <1>6, <2>1
  <1>7. CASE LoginShot
    <2>1. LoginHandler(Head(pendingLogins)) \in Handlers
      BY <1>7 DEF LoginShot, LoginHandler, Handlers, Logins, TypeInv, FormTypes
    <2>2. LoginHandler(Head(pendingLogins)).kind = "login"
      BY DEF LoginHandler
    <2> QED
      BY <1>3, <1>6, <1>7, <2>1, <2>2 DEF LoginShot
  <1>8. CASE RegisterShot
    <2>1. /\ Handler("register", NoGame) \in Handlers
          /\ Handler("register", NoGame).kind = "register"
      BY DEF Handler, Handlers, Plain, Kinds, Missing, Finished
    <2> QED
      BY <1>3, <1>6, <1>8, <2>1 DEF RegisterShot
  <1>9. CASE ReturnLogin \/ ReturnRegister
    <2>1. stack # <<>> /\ stack' = Front(stack)
      BY <1>9 DEF ReturnLogin, ReturnRegister, Finishing, Below
    <2>2. /\ DOMAIN stack' = 1 .. Len(stack) - 1 /\ DOMAIN stack = 1 .. Len(stack)
          /\ \A k \in 1 .. Len(stack) - 1 : stack'[k] = stack[k]
          /\ Len(stack) \in Nat
      BY <1>4, <2>1, TopAndRest
    <2> QED
      BY <1>3, <1>9, <2>2 DEF ReturnLogin, ReturnRegister
  <1>10. /\ ~ReturnPoll /\ ~ReturnDialog /\ ~ReturnBox /\ ~ReturnProfile /\ ~ReturnShown
         /\ ~ReturnMove /\ ~ReturnCreate /\ ~ReturnJoin /\ ~PollFails
    <2>1. \A kinds \in {Polling, {"closed"}, {"shut", "entered"}, {"profile"},
                        {"chat", "figures"}, {"move"}, {"create"}, {"join"}} :
              kinds \in SUBSET (Kinds \ {"register"})
      BY DEF Kinds, Polling
    <2> QED
      BY <1>5, <2>1 DEF ReturnPoll, ReturnDialog, ReturnBox, ReturnProfile, ReturnShown, ReturnMove,
                        ReturnCreate, ReturnJoin, PollFails
  <1>11. \A k \in 1 .. MaxDepth : ~LeaveDialog(k) /\ ~CloseBox(k)
    BY <1>3 DEF LeaveDialog, CloseBox, Boxes
  <1>12. /\ ~PressProfile /\ ~PressBack /\ ~PressLogout /\ ~PressCreate /\ ~PressJoin
         /\ ~OpenBox /\ ~PressCancel /\ ~PressMove /\ ~GameTimer /\ ~WaitTimer /\ ~EntryShot
         /\ ~StartShot
    BY <1>3 DEF PressProfile, PressBack, PressLogout, PressCreate, PressJoin, OpenBox,
                PressCancel, PressMove, GameTimer, WaitTimer, EntryShot, StartShot
  <1>13. CASE UNCHANGED <<window, waiting, gameId, pendingEntries, pendingStarts, stack>>
    BY <1>3, <1>13
  <1> QED
    BY <1>1, <1>7, <1>8, <1>9, <1>10, <1>11, <1>12, <1>13
       DEF Next, vars, Return, GameGoesOn, PressLogin, PressRegister

LEMMA AfterPollHeld ==
    ASSUME TypeInv, NEW h, NEW below, NEW stage, AfterPoll(h, below, stage),
           WellStacked(below, server, sat)
    PROVE  Due(stack', waiting) \in Nat /\ Due(stack', waiting) <= Due(below, waiting)
  <1> DEFINE chat == Handler("chat", NoGame)
  <1>1. chat \in Handlers /\ chat.kind = "chat"
    BY DEF Handler, Handlers, Plain, Kinds, Missing, Finished
  <1>2. stack' = below \/ stack' = Append(below, chat)
    BY DEF AfterPoll
  <1> HIDE DEF chat
  <1>3. below \in Seq(Handlers) /\ waiting \in BOOLEAN
    BY DEF WellStacked, TypeInv, ScreenTypes
  <1>4. Weight(chat) = 0
    BY <1>1 DEF Weight, Boards
  <1>5. /\ Due(below, waiting) \in Nat /\ Due(Append(below, chat), waiting) \in Nat
        /\ Due(Append(below, chat), waiting) <= Due(below, waiting) + 0
    BY <1>1, <1>3, <1>4, DuePush
  <1>6. CASE stack' = below
    BY <1>5, <1>6
  <1>7. CASE stack' = Append(below, chat)
    <2>1. Due(Append(below, chat), waiting) <= Due(below, waiting)
      BY <1>5
    <2> QED
      BY <1>5, <1>7, <2>1
  <1> QED
    BY <1>2, <1>6, <1>7

\* Two steps of at most one each after one of two down.
LEMMA DownTwoUpTwo ==
    ASSUME NEW a \in Nat, NEW b \in Nat, NEW c \in Nat, NEW d \in Nat,
           a <= b + 1, b <= c + 1, c + 2 = d
    PROVE  a <= d
  OBVIOUS

LEMMA LoadStep ==
    TypeInv /\ TypeInv' /\ StackInv /\ StackInv' /\ LoadInv /\ [Next]_vars => LoadInv'
  <1> SUFFICES ASSUME TypeInv, TypeInv', StackInv, StackInv', LoadInv, [Next]_vars
               PROVE  LoadInv'
    OBVIOUS
  <1> USE DEF client, login, screen, shots
  <1>0. /\ WellStacked(stack, server, sat) /\ stack \in Seq(Handlers)
        /\ waiting \in BOOLEAN /\ waiting' \in BOOLEAN
    BY DEF StackInv, WellStacked, TypeInv, ScreenTypes
  <1>a. /\ pendingLogins \in Seq(Names) /\ pendingLobby \in Seq(Names)
        /\ Len(pendingLogins) \in Nat /\ Len(pendingLobby) \in Nat
        /\ pendingEntries \in Seq(Entries) /\ Len(pendingEntries) \in Nat
        /\ pendingRegisters \in Nat /\ presses \in Nat
    BY ClientAssumption DEF TypeInv, FormTypes
  <1>b. Held \in Nat /\ Pending \in Nat /\ Lobby \in Nat
    <2>1. Held \in Nat
      BY <1>0, LoadType DEF Held, Due
    <2> QED
      BY <1>a, <2>1 DEF Pending, Lobby
  <1>f. Held' \in Nat /\ Pending' \in Nat /\ Lobby' \in Nat /\ Lobby' <= 2 /\ presses' \in Nat
    <2>1. /\ stack' \in Seq(Handlers) /\ waiting' \in BOOLEAN
          /\ pendingLogins' \in Seq(Names) /\ pendingLobby' \in Seq(Names)
          /\ Len(pendingLogins') \in Nat /\ Len(pendingLobby') \in Nat
          /\ pendingEntries' \in Seq(Entries) /\ Len(pendingEntries') \in Nat
          /\ pendingRegisters' \in Nat /\ presses' \in Nat
      BY ClientAssumption DEF TypeInv, FormTypes, ScreenTypes, StackInv, WellStacked
    <2>2. Held' \in Nat
      BY <2>1, LoadType DEF Held, Due
    <2> QED
      BY <2>1, <2>2 DEF Pending, Lobby
  \* A press pays for a request or for a handler, a shot turns a request into a handler
  \* of weight 2, the lobby takes the place of a request, and a login handler that returns may
  \* leave a request behind.
  <1>g. ASSUME \/ Held' <= Held /\ Pending' = Pending /\ Lobby' = Lobby /\ presses' >= presses
               \/ /\ Held' <= Held /\ Pending' = Pending + 1 /\ Lobby' = Lobby
                  /\ presses' = presses + 1
               \/ /\ Held' <= Held + 2 /\ Pending' = Pending /\ Lobby' = Lobby
                  /\ presses' = presses + 1
               \/ /\ Held' <= Held + 2 /\ Pending' = Pending - 1 /\ Lobby' = Lobby
                  /\ presses' = presses
               \/ /\ Held' <= Held /\ Pending' = Pending - 1 /\ Lobby' <= 2
                  /\ presses' = presses
               \/ /\ Held' + 2 = Held /\ Pending' \in {Pending, Pending + 1}
                  /\ Lobby' = Lobby /\ presses' = presses
        PROVE  LoadInv'
    <2>1. Fits(Held, Pending, Lobby, presses)
      BY DEF LoadInv
    <2>2. PICK h \in Nat, p \in Nat, l \in Nat, n \in Nat :
              h = Held /\ p = Pending /\ l = Lobby /\ n = presses
      BY <1>a, <1>b
    <2>3. PICK h2 \in Nat, p2 \in Nat, l2 \in Nat, n2 \in Nat :
              h2 = Held' /\ p2 = Pending' /\ l2 = Lobby' /\ n2 = presses'
      BY <1>f
    <2>4. Fits(h, p, l, n)
      BY <2>1, <2>2
    <2>5. \/ h2 <= h /\ p2 = p /\ l2 = l /\ n2 >= n
          \/ h2 <= h /\ p2 = p + 1 /\ l2 = l /\ n2 = n + 1
          \/ h2 <= h + 2 /\ p2 = p /\ l2 = l /\ n2 = n + 1
          \/ h2 <= h + 2 /\ p2 = p - 1 /\ l2 = l /\ n2 = n
          \/ h2 <= h /\ p2 = p - 1 /\ l2 <= 2 /\ n2 = n
          \/ h2 + 2 = h /\ p2 \in {p, p + 1} /\ l2 = l /\ n2 = n
      BY <1>g, <2>2, <2>3
    <2>6. Fits(h2, p2, l2, n2)
      BY <2>4, <2>5 DEF Fits
    <2> QED
      BY <2>3, <2>6 DEF LoadInv
  <1>1. ASSUME Held' \in Nat, Held' <= Held, UNCHANGED <<Pending, Lobby>>,
               presses' \in Nat, presses' >= presses
        PROVE  LoadInv'
    BY <1>1, <1>g
  <1>c. UNCHANGED <<pendingLogins, pendingLobby, pendingRegisters, pendingEntries>>
            => UNCHANGED Pending
    BY DEF Pending
  <1>d. UNCHANGED currentUsername => UNCHANGED Lobby
    BY DEF Lobby
  <1>e. UNCHANGED <<stack, waiting>> => UNCHANGED Held
    BY DEF Held
  <1>2. ASSUME NEW h \in Handlers, stack' = Append(stack, h), UNCHANGED waiting
        PROVE  Held' \in Nat /\ Held' <= Held + Weight(h)
    BY <1>0, <1>2, DuePush DEF Held
  <1>3. ASSUME stack # <<>>, stack' = Below, UNCHANGED waiting
        PROVE  /\ Held' \in Nat /\ Held' <= Held
               /\ Innermost.kind # "wait" => Held' + Weight(Innermost) = Held
    BY <1>0, <1>3, DuePop DEF Held, Below, Innermost
  <1>4. ASSUME NEW kind \in Kinds, NEW g \in Games \cup {NoGame}
        PROVE  Handler(kind, g) \in Handlers /\ Handler(kind, g).kind = kind
    BY <1>4 DEF Handler, Handlers, Plain, TypeInv, WorldTypes, Missing, Finished
  <1>5. CASE UNCHANGED <<stack, waiting, pendingLogins, pendingLobby, pendingRegisters,
                         pendingEntries, currentUsername>>
    <2>1. presses' \in Nat /\ presses' >= presses
      BY <1>a DEF Next, vars, Return, GameGoesOn, PressLogin, PressRegister, PressProfile,
                  PressBack, PressLogout, PressCreate, PressJoin, OpenBox, PressCancel, PressMove,
                  LeaveDialog, CloseBox, GameTimer, WaitTimer, EntryShot, StartShot, LoginShot,
                  RegisterShot, LobbyShot, PollFails, ReturnLogin, ReturnRegister, ReturnPoll,
                  ReturnDialog, ReturnBox, ReturnProfile, ReturnShown, ReturnMove, ReturnCreate,
                  ReturnJoin
    <2>2. Held' = Held /\ UNCHANGED <<Pending, Lobby>>
      BY <1>5, <1>c, <1>d, <1>e
    <2> QED
      BY <1>1, <1>b, <2>1, <2>2
  <1>6. CASE PressLogin
    <2>1. /\ UNCHANGED <<stack, waiting, currentUsername, pendingLobby, pendingRegisters,
                         pendingEntries>>
          /\ presses' = presses + 1 /\ pendingLogins' = Append(pendingLogins, presses')
      BY <1>6 DEF PressLogin
    <2>2. Len(pendingLogins') = Len(pendingLogins) + 1
      BY <1>a, <2>1
    <2>3. Pending' = Pending + 1
      BY <1>a, <2>1, <2>2 DEF Pending
    <2> QED
      BY <1>a, <1>b, <1>d, <1>e, <2>1, <2>3, <1>g
  <1>7. CASE PressRegister \/ PressCreate
    <2>1. UNCHANGED <<stack, waiting, currentUsername>> /\ presses' = presses + 1
      BY <1>7 DEF PressRegister, PressCreate
    <2>2. Pending' = Pending + 1
      <3>1. CASE PressRegister
        BY <3>1, <1>a DEF PressRegister, Pending
      <3>2. CASE PressCreate
        <4>1. /\ pendingEntries' = Append(pendingEntries, "create")
              /\ UNCHANGED <<pendingLogins, pendingLobby, pendingRegisters>>
          BY <3>2 DEF PressCreate
        <4>2. Len(pendingEntries') = Len(pendingEntries) + 1
          BY <1>a, <4>1
        <4> QED
          BY <1>a, <4>1, <4>2 DEF Pending
      <3> QED
        BY <1>7, <3>1, <3>2
    <2> QED
      BY <1>a, <1>b, <1>d, <1>e, <2>1, <2>2, <1>g
  <1>8. CASE PressProfile \/ PressJoin \/ OpenBox \/ PressMove
    <2>1. PICK kind \in {"profile", "asking", "box", "move"} :
              stack' = Append(stack, Handler(kind, NoGame))
      BY <1>8 DEF PressProfile, PressJoin, OpenBox, PressMove
    <2>2. /\ UNCHANGED <<waiting, currentUsername>> /\ presses' = presses + 1 /\ UNCHANGED Pending
      BY <1>8, <1>c DEF PressProfile, PressJoin, OpenBox, PressMove
    <2>3. Handler(kind, NoGame) \in Handlers /\ Handler(kind, NoGame).kind = kind
      BY <1>4 DEF Kinds, Modal, Boxes
    <2>4. Held' \in Nat /\ Held' <= Held + Weight(Handler(kind, NoGame))
      BY <1>2, <2>1, <2>2, <2>3
    <2>5. Weight(Handler(kind, NoGame)) \in 0 .. 2
      BY WeightType
    <2>6. Held' <= Held + 2
      BY <1>b, <2>4, <2>5
    <2> QED
      BY <1>a, <1>d, <2>2, <2>4, <2>6, <1>g
  <1>9. CASE PressCancel
    <2>1. Held' \in Nat /\ Held' <= Held
      <3>1. stack' = Aged(stack) /\ waiting' = FALSE
        BY <1>9 DEF PressCancel
      <3> QED
        BY <1>0, <3>1, DueAged DEF Held
    <2> QED
      BY <1>1, <1>9, <1>a, <1>c, <1>d, <2>1 DEF PressCancel
  <1>10. ASSUME NEW k \in 1 .. MaxDepth, LeaveDialog(k) PROVE LoadInv'
    <2>1. /\ k \in DOMAIN stack /\ stack[k].kind = "dialog"
          /\ stack' = [stack EXCEPT ![k].kind = "closed"]
          /\ UNCHANGED <<login, waiting, shots, presses>>
      BY <1>10 DEF LeaveDialog
    <2>2. stack[k] \in Plain
      BY <1>0, <2>1 DEF Handlers, Logins
    <2> DEFINE closed == [stack[k] EXCEPT !.kind = "closed"]
    <2>3. closed.kind = "closed"
      BY <2>2 DEF Plain
    <2>4. stack' = [stack EXCEPT ![k] = closed]
      BY <2>1
    <2> HIDE DEF closed
    <2>5. /\ DOMAIN stack' = DOMAIN stack
          /\ \A j \in DOMAIN stack : stack'[j] = IF j = k THEN closed ELSE stack[j]
      BY <1>0, <2>1, <2>4
    <2>6. \A j \in DOMAIN stack : Weight(stack'[j]) = Weight(stack[j])
      BY <2>1, <2>3, <2>5 DEF Weight, Dialogs
    <2>7. Load(stack') = Load(stack)
      BY <1>0, <2>5, <2>6, LoadSame
    <2>8. None(stack', {"wait"}) <=> None(stack, {"wait"})
      BY <2>1, <2>3, <2>5 DEF None
    <2>9. Held' = Held
      BY <2>1, <2>7, <2>8 DEF Held, Due
    <2> QED
      BY <1>1, <1>a, <1>b, <1>c, <1>d, <2>1, <2>9
  <1>27. ASSUME NEW k \in 1 .. MaxDepth, CloseBox(k) PROVE LoadInv'
    <2>1. PICK kind \in {"shut", "entered"} : stack' = [stack EXCEPT ![k].kind = kind]
      BY <1>27 DEF CloseBox
    <2>a. /\ k \in DOMAIN stack /\ stack[k].kind \in Boxes
          /\ UNCHANGED <<login, waiting, shots, presses>>
      BY <1>27 DEF CloseBox, Boxes
    <2>2. stack[k] \in Plain
      BY <1>0, <2>a DEF Handlers, Logins, Boxes
    <2> DEFINE shut == [stack[k] EXCEPT !.kind = kind]
    <2>3. shut.kind \in {"shut", "entered"}
      BY <2>2 DEF Plain
    <2>4. stack' = [stack EXCEPT ![k] = shut]
      BY <2>1
    <2> HIDE DEF shut
    <2>5. /\ DOMAIN stack' = DOMAIN stack
          /\ \A j \in DOMAIN stack : stack'[j] = IF j = k THEN shut ELSE stack[j]
      BY <1>0, <2>a, <2>4
    <2>6. \A j \in DOMAIN stack : Weight(stack'[j]) = Weight(stack[j])
      BY <2>a, <2>3, <2>5 DEF Weight, Boxes
    <2>7. Load(stack') = Load(stack)
      BY <1>0, <2>5, <2>6, LoadSame
    <2>8. None(stack', {"wait"}) <=> None(stack, {"wait"})
      BY <2>a, <2>3, <2>5 DEF None, Boxes
    <2>9. Held' = Held
      BY <2>a, <2>7, <2>8 DEF Held, Due
    <2> QED
      BY <1>1, <1>a, <1>b, <1>c, <1>d, <2>a, <2>9
  <1>11. CASE GameTimer
    <2>1. /\ stack' = Append(stack, Handler("board", gameId))
          /\ UNCHANGED <<login, waiting, shots, presses>>
      BY <1>11 DEF GameTimer
    <2>2. Handler("board", gameId) \in Handlers /\ Handler("board", gameId).kind = "board"
      BY <1>4 DEF Kinds, Polling, TypeInv, WorldTypes
    <2>3. Weight(Handler("board", gameId)) = 0
      BY <2>2 DEF Weight, Boards
    <2>4. Held' \in Nat /\ Held' <= Held
      BY <1>2, <1>b, <2>1, <2>2, <2>3
    <2> QED
      BY <1>1, <1>a, <1>c, <1>d, <2>1, <2>4
  <1>12. CASE WaitTimer
    <2>1. /\ stack' = Append(stack, Handler("wait", gameId)) /\ waiting = TRUE
          /\ NotUnderWay({"wait"}) /\ UNCHANGED <<login, waiting, shots, presses>>
      BY <1>0, <1>12 DEF WaitTimer
    <2>2. Handler("wait", gameId) \in Handlers /\ Handler("wait", gameId).kind = "wait"
      BY <1>4 DEF Kinds, Polling, TypeInv, WorldTypes
    <2>3. None(stack, {"wait"})
      BY <2>1 DEF NotUnderWay, None
    <2>4. Held' = Held
      BY <1>0, <2>1, <2>2, <2>3, DuePush DEF Held
    <2> QED
      BY <1>1, <1>a, <1>b, <1>c, <1>d, <2>1, <2>4
  <1>13. CASE EntryShot
    <2>1. PICK kind \in {"create", "join"}, g \in Games \cup {NoGame} :
              stack' = Append(stack, Handler(kind, g))
      <3>1. Head(pendingEntries) \in Entries
        BY <1>13, <1>a DEF EntryShot
      <3> QED
        BY <1>13, <3>1 DEF EntryShot, Entries
    <2>2. /\ UNCHANGED <<waiting, currentUsername, presses>> /\ Pending' = Pending - 1
      <3>1. /\ pendingEntries # <<>> /\ pendingEntries' = Tail(pendingEntries)
            /\ UNCHANGED <<login, waiting, presses>>
        BY <1>13 DEF EntryShot
      <3>2. Len(pendingEntries') = Len(pendingEntries) - 1
        BY <1>a, <3>1
      <3> QED
        BY <1>a, <3>1, <3>2 DEF Pending
    <2>3. Handler(kind, g) \in Handlers /\ Handler(kind, g).kind = kind
      BY <1>4 DEF Kinds
    <2>4. Held' \in Nat /\ Held' <= Held + Weight(Handler(kind, g))
      BY <1>2, <2>1, <2>2, <2>3
    <2>5. Weight(Handler(kind, g)) = 2
      BY <2>3 DEF Weight
    <2> QED
      BY <1>a, <1>d, <2>2, <2>4, <2>5, <1>g
  <1>14. CASE LoginShot
    <2> DEFINE h == LoginHandler(Head(pendingLogins))
    <2>1. /\ stack' = Append(stack, h) /\ pendingLogins # <<>>
          /\ pendingLogins' = Tail(pendingLogins)
          /\ UNCHANGED <<waiting, currentUsername, presses, pendingLobby, pendingRegisters,
                         pendingEntries>>
      BY <1>14 DEF LoginShot
    <2>2. h \in Handlers /\ h.kind = "login"
      BY <1>a, <2>1 DEF LoginHandler, Handlers, Logins
    <2> HIDE DEF h
    <2>3. Weight(h) = 2
      BY <2>2 DEF Weight
    <2>4. Len(pendingLogins') = Len(pendingLogins) - 1
      BY <1>a, <2>1
    <2>5. Pending' = Pending - 1
      BY <1>a, <2>1, <2>4 DEF Pending
    <2>6. Held' \in Nat /\ Held' <= Held + 2
      BY <1>2, <2>1, <2>2, <2>3
    <2> QED
      BY <1>a, <1>d, <2>1, <2>5, <2>6, <1>g
  <1>15. CASE RegisterShot
    <2>1. /\ stack' = Append(stack, Handler("register", NoGame))
          /\ UNCHANGED <<waiting, currentUsername, presses>> /\ Pending' = Pending - 1
      BY <1>15, <1>a DEF RegisterShot, Pending
    <2>2. Handler("register", NoGame) \in Handlers
      BY <1>4 DEF Kinds
    <2>3. Held' \in Nat /\ Held' <= Held + Weight(Handler("register", NoGame))
      BY <1>2, <2>1, <2>2
    <2>4. Weight(Handler("register", NoGame)) \in 0 .. 2
      BY WeightType
    <2>5. Held' <= Held + 2
      BY <1>b, <2>3, <2>4
    <2> QED
      BY <1>a, <1>d, <2>1, <2>5, <1>g
  <1>16. CASE LobbyShot
    <2>1. /\ stack' = Aged(stack) /\ waiting' = FALSE /\ pendingLobby # <<>>
          /\ pendingLobby' = Tail(pendingLobby)
          /\ UNCHANGED <<presses, pendingLogins, pendingRegisters, pendingEntries>>
      BY <1>16 DEF LobbyShot
    <2>2. Held' \in Nat /\ Held' <= Held
      BY <1>0, <2>1, DueAged DEF Held
    <2>3. Len(pendingLobby') = Len(pendingLobby) - 1
      BY <1>a, <2>1
    <2>4. Pending' = Pending - 1
      BY <1>a, <2>1, <2>3 DEF Pending
    <2>5. Lobby' \in {0, 2}
      BY DEF Lobby
    <2> QED
      BY <1>a, <1>f, <2>1, <2>2, <2>4, <2>5, <1>g
  <1>17. ASSUME stack # <<>>, NEW h, NEW stage, AfterPoll(h, Below, stage), UNCHANGED waiting
         PROVE  Held' \in Nat /\ Held' <= Held
    <2>1. WellStacked(Below, server, sat)
      BY <1>0, <1>17, PopWell DEF Below
    <2>2. Due(stack', waiting) \in Nat /\ Due(stack', waiting) <= Due(Below, waiting)
      BY <1>17, <2>1, AfterPollHeld
    <2>3. Due(Below, waiting) \in Nat /\ Due(Below, waiting) <= Held
      BY <1>0, <1>17, DuePop DEF Below, Held
    <2> QED
      BY <1>17, <1>b, <2>2, <2>3 DEF Held
  <1>18. CASE PollFails
    <2>1. PICK stage : AfterPoll(Innermost, Below, stage)
      BY <1>18 DEF PollFails
    <2>2. /\ stack # <<>> /\ UNCHANGED <<login, waiting, pendingEntries>>
          /\ presses' = presses + 1
      BY <1>18 DEF PollFails, Finishing
    <2>3. Held' \in Nat /\ Held' <= Held
      BY <1>17, <2>1, <2>2
    <2> QED
      BY <1>1, <1>a, <1>c, <1>d, <2>2, <2>3
  <1>19. CASE ReturnPoll
    <2>1. /\ stack # <<>> /\ UNCHANGED <<login, waiting, pendingEntries, presses>>
          /\ \/ stack' = Append(stack, Handler("dialog", NoGame))
             \/ \E stage : AfterPoll(Innermost, Below, stage)
      BY <1>19 DEF ReturnPoll, Finishing
    <2>2. ASSUME stack' = Append(stack, Handler("dialog", NoGame))
          PROVE  Held' \in Nat /\ Held' <= Held
      <3>1. Handler("dialog", NoGame) \in Handlers /\ Handler("dialog", NoGame).kind = "dialog"
        BY <1>4 DEF Kinds, Modal
      <3>2. Weight(Handler("dialog", NoGame)) = 0
        BY <3>1 DEF Weight, Dialogs
      <3> QED
        BY <1>2, <1>b, <2>1, <2>2, <3>1, <3>2
    <2>3. Held' \in Nat /\ Held' <= Held
      BY <1>17, <2>1, <2>2
    <2> QED
      BY <1>1, <1>a, <1>c, <1>d, <2>1, <2>3
  <1>20. CASE ReturnDialog
    <2>1. /\ stack # <<>> /\ UNCHANGED <<login, waiting, pendingEntries, presses>>
          /\ AfterPoll(Last(Below), Front(Below), snapshot.stage)
          /\ Innermost.kind = "closed"
      BY <1>20 DEF ReturnDialog, Finishing
    <2>2. WellStacked(Below, server, sat) /\ Below # <<>>
      BY <1>0, <2>1, PopWell DEF Below, Innermost, Dialogs
    <2>3. WellStacked(Front(Below), server, sat) /\ Below \in Seq(Handlers)
      BY <2>2, PopWell DEF WellStacked
    <2>4. Due(stack', waiting) \in Nat /\ Due(stack', waiting) <= Due(Front(Below), waiting)
      BY <2>1, <2>3, AfterPollHeld
    <2>5. /\ Due(Front(Below), waiting) \in Nat /\ Due(Below, waiting) \in Nat
          /\ Due(Front(Below), waiting) <= Due(Below, waiting)
      BY <1>0, <2>2, <2>3, DuePop
    <2>6. Due(Below, waiting) <= Held
      BY <1>0, <2>1, DuePop DEF Below, Held
    <2>7. Held' = Due(stack', waiting)
      BY <2>1 DEF Held
    <2>8. Held' \in Nat /\ Held' <= Held
      BY <1>b, <2>4, <2>5, <2>6, <2>7
    <2> QED
      BY <1>1, <1>a, <1>c, <1>d, <2>1, <2>8
  <1>21. CASE ReturnShown \/ ReturnRegister
    <2>1. /\ stack # <<>> /\ stack' = Below /\ UNCHANGED <<waiting, pendingLogins, pendingLobby,
                pendingRegisters, pendingEntries, currentUsername, presses>>
      BY <1>21 DEF ReturnShown, ReturnRegister, Finishing
    <2> QED
      BY <1>1, <1>3, <1>a, <1>c, <1>d, <2>1
  <1>22. CASE ReturnLogin
    <2>1. /\ stack # <<>> /\ stack' = Below /\ Innermost.kind = "login"
          /\ UNCHANGED <<waiting, pendingLogins, pendingRegisters, pendingEntries,
                         currentUsername, presses>>
          /\ pendingLobby' = Append(pendingLobby, Innermost.name) \/ UNCHANGED pendingLobby
      BY <1>22 DEF ReturnLogin, Finishing
    <2>2. Held' \in Nat /\ Held' + 2 = Held
      <3>1. Weight(Innermost) = 2
        BY <2>1 DEF Weight
      <3> QED
        BY <1>3, <2>1, <3>1
    <2>3. Len(pendingLobby') \in {Len(pendingLobby), Len(pendingLobby) + 1}
      <3>1. Innermost.name \in Names
        BY <1>22, TopHandler DEF ReturnLogin, Kinds
      <3> QED
        BY <1>a, <2>1, <3>1
    <2>5. UNCHANGED <<pendingLogins, pendingRegisters, pendingEntries>>
      BY <2>1
    <2>4. Pending' \in {Pending, Pending + 1}
      BY <1>a, <2>3, <2>5 DEF Pending
    <2> QED
      BY <1>a, <1>d, <2>1, <2>2, <2>4, <1>g
  <1>28. CASE ReturnBox
    <2>1. /\ stack # <<>> /\ stack' = Below /\ Innermost.kind \in {"shut", "entered"}
          /\ UNCHANGED <<login, waiting, presses>>
          /\ pendingEntries' = Append(pendingEntries, "join") \/ UNCHANGED pendingEntries
      BY <1>28 DEF ReturnBox, Finishing
    <2>2. Held' \in Nat /\ Held' + 2 = Held
      <3>1. Weight(Innermost) = 2
        BY <2>1 DEF Weight
      <3> QED
        BY <1>3, <2>1, <3>1
    <2>3. Len(pendingEntries') \in {Len(pendingEntries), Len(pendingEntries) + 1}
      BY <1>a, <2>1
    <2>4. Pending' \in {Pending, Pending + 1}
      BY <1>a, <2>1, <2>3 DEF Pending
    <2> QED
      BY <1>a, <1>d, <2>1, <2>2, <2>4, <1>g
  <1>23. ASSUME stack # <<>>, Innermost.kind # "wait", UNCHANGED waiting,
                NEW h \in Handlers, Weight(h) <= Weight(Innermost), stack' = Append(Below, h)
         PROVE  Held' \in Nat /\ Held' <= Held
    <2>1. Below \in Seq(Handlers)
      BY <1>0, <1>23, TopAndRest DEF Below
    <2>2. /\ Due(Below, waiting) \in Nat
          /\ Due(Below, waiting) + Weight(Innermost) = Held
      BY <1>0, <1>23, DuePop DEF Below, Innermost, Held
    <2>3. /\ Due(Append(Below, h), waiting) \in Nat
          /\ Due(Append(Below, h), waiting) <= Due(Below, waiting) + Weight(h)
      BY <1>0, <2>1, DuePush
    <2>4. Held' = Due(Append(Below, h), waiting)
      BY <1>23 DEF Held
    <2>5. Weight(h) \in Nat /\ Weight(Innermost) \in Nat
      BY WeightType
    <2> QED
      BY <1>23, <1>b, <2>2, <2>3, <2>4, <2>5
  <1>24. CASE ReturnMove
    <2>1. /\ stack # <<>> /\ Innermost.kind = "move"
          /\ UNCHANGED <<login, waiting, pendingEntries, presses>>
          /\ \/ stack' = Below
             \/ gameId # NoGame /\ stack' = Append(Below, Handler("poll", gameId))
      BY <1>24 DEF ReturnMove, Finishing
    <2>2. ASSUME gameId # NoGame
          PROVE  /\ Handler("poll", gameId) \in Handlers
                 /\ Weight(Handler("poll", gameId)) <= Weight(Innermost)
      <3>1. Handler("poll", gameId) \in Handlers /\ Handler("poll", gameId).kind = "poll"
        BY <1>4 DEF Kinds, Polling, TypeInv, WorldTypes
      <3> QED
        BY <2>1, <3>1 DEF Weight, Dialogs, Boards
    <2>3. Held' \in Nat /\ Held' <= Held
      BY <1>3, <1>23, <2>1, <2>2
    <2> QED
      BY <1>1, <1>a, <1>c, <1>d, <2>1, <2>3
  <1>29. CASE ReturnProfile
    <2>1. /\ stack # <<>> /\ Innermost.kind = "profile"
          /\ UNCHANGED <<login, waiting, pendingEntries, presses>>
          /\ stack' = Below \/ stack' = Append(Below, Handler("figures", NoGame))
      BY <1>29 DEF ReturnProfile, Finishing
    <2>2. /\ Handler("figures", NoGame) \in Handlers
          /\ Weight(Handler("figures", NoGame)) <= Weight(Innermost)
      <3>1. Handler("figures", NoGame) \in Handlers /\ Handler("figures", NoGame).kind = "figures"
        BY <1>4 DEF Kinds
      <3> QED
        BY <2>1, <3>1 DEF Weight, Dialogs, Boards
    <2>3. Held' \in Nat /\ Held' <= Held
      BY <1>3, <1>23, <2>1, <2>2
    <2> QED
      BY <1>1, <1>a, <1>c, <1>d, <2>1, <2>3
  <1>25. CASE ReturnCreate
    <2>1. /\ stack # <<>> /\ Innermost.kind = "create"
          /\ UNCHANGED <<login, waiting, pendingEntries, presses>>
          /\ \/ stack' = Below
             \/ \E g \in Games :
                  stack' = Append(Below, [kind |-> "join", game |-> g, since |-> Waiting])
      BY <1>25 DEF ReturnCreate, Finishing
    <2>2. ASSUME NEW g \in Games
          PROVE  /\ [kind |-> "join", game |-> g, since |-> Waiting] \in Handlers
                 /\ Weight([kind |-> "join", game |-> g, since |-> Waiting]) <= Weight(Innermost)
      BY <2>1 DEF Handlers, Plain, Kinds, Missing, Waiting, Finished, Weight
    <2>3. Held' \in Nat /\ Held' <= Held
      BY <1>3, <1>23, <2>1, <2>2
    <2> QED
      BY <1>1, <1>a, <1>c, <1>d, <2>1, <2>3
  <1>26. CASE ReturnJoin
    <2>1. /\ stack # <<>> /\ Innermost.kind = "join"
          /\ UNCHANGED <<login, pendingEntries, presses>>
          /\ \/ stack' = Below /\ UNCHANGED waiting
             \/ /\ waiting' = TRUE /\ gameId' = Innermost.game
                /\ stack' = Append(Aged(Below), Handler("poll", gameId'))
      BY <1>26 DEF ReturnJoin, Finishing, ShowWaitingScreen
    <2>2. ASSUME waiting' = TRUE, gameId' = Innermost.game,
                 stack' = Append(Aged(Below), Handler("poll", gameId'))
          PROVE  Held' \in Nat /\ Held' <= Held
      <3> DEFINE g == Innermost.game
                 h == Handler("poll", g)
      <3>1. g \in Games
        BY <1>26, TopHandler DEF ReturnJoin, Kinds
      <3>2. h \in Handlers /\ h.kind = "poll" /\ stack' = Append(Aged(Below), h)
        BY <1>4, <2>2, <3>1 DEF Kinds, Polling
      <3> HIDE DEF h, g
      <3>3. Weight(h) = 1 /\ Weight(Innermost) = 2
        BY <2>1, <3>2 DEF Weight, Dialogs, Boards
      <3>4. WellStacked(Below, server, sat)
        BY <1>0, <2>1, PopWell DEF Below
      <3>5. Aged(Below) \in Seq(Handlers)
        BY <3>4, AgedWell DEF WellStacked
      <3>6. Due(Below, waiting) \in Nat /\ Due(Below, waiting) + 2 = Held
        BY <1>0, <2>1, <3>3, DuePop DEF Below, Innermost, Held
      <3>7. Due(Aged(Below), TRUE) \in Nat /\ Due(Aged(Below), TRUE) <= Due(Below, waiting) + 1
        BY <1>0, <3>4, DueAged
      <3>8. /\ Due(Append(Aged(Below), h), TRUE) \in Nat
            /\ Due(Append(Aged(Below), h), TRUE) <= Due(Aged(Below), TRUE) + 1
        BY <3>2, <3>3, <3>5, DuePush
      <3>9. Held' = Due(Append(Aged(Below), h), TRUE)
        BY <2>2, <3>2 DEF Held
      <3> QED
        BY <1>b, <3>6, <3>7, <3>8, <3>9, DownTwoUpTwo
    <2>3. Held' \in Nat /\ Held' <= Held
      BY <1>3, <2>1, <2>2
    <2> QED
      BY <1>1, <1>a, <1>c, <1>d, <2>1, <2>3
  <1> QED
    BY <1>5, <1>6, <1>7, <1>8, <1>9, <1>10, <1>11, <1>12, <1>13, <1>14, <1>15, <1>16, <1>18,
       <1>19, <1>20, <1>21, <1>22, <1>24, <1>25, <1>26, <1>27, <1>28, <1>29
       DEF Next, vars, Return, GameGoesOn, PressBack, PressLogout, StartShot

\* What the claims below follow from: the types, what may lie on the stack of handlers
\* and on what, that what is known of games is of the player's own, the order of logins,
\* what cannot happen before the first lobby, and what the presses pay for.
THEOREM ClientInvariant == Spec => []ClientInv
  <1>1. TypeInv /\ StackInv /\ [Next]_vars => TypeInv'
    BY WorldStep, FormStep, ScreenStep DEF TypeInv
  <1>2. ClientInv /\ [Next]_vars => ClientInv'
    BY <1>1, StackStep, GameStep, GreetStep, BeforeLobbyStep, LoadStep DEF ClientInv
  <1> QED
    BY <1>2, ClientInit, PTL DEF Spec

-----------------------------------------------------------------------------
\* Every state has the declared types.  However many event loops run inside each other, the
\* handlers under way are never more than two for every press of a button: a timer does not
\* fire inside its own handler, and every other handler goes back to a press.
THEOREM ClientTypes == Spec => []TypeOK
  <1>1. ClientInv => TypeOK
    <2> SUFFICES ASSUME ClientInv PROVE TypeOK
      OBVIOUS
    <2>0. /\ MaxPresses \in Nat /\ presses \in 0 .. MaxPresses
          /\ pendingRegisters \in Nat /\ Len(pendingEntries) \in Nat
          /\ Len(pendingLogins) \in Nat /\ Len(pendingLobby) \in Nat
      BY ClientAssumption DEF ClientInv, TypeInv, FormTypes
    <2>1. WellStacked(stack, server, sat) /\ stack \in Seq(Handlers)
      BY DEF ClientInv, StackInv, WellStacked
    <2>2. Load(stack) \in Nat /\ Held \in Nat /\ Load(stack) <= Held
      BY <2>1, LoadType DEF Held, Due
    <2>3. /\ Pending \in Nat /\ pendingRegisters <= Pending /\ Lobby \in {0, 2}
      BY <2>0 DEF Pending, Lobby
    <2>4. Held + 2 * Pending + Lobby <= 2 * presses
      BY DEF ClientInv, LoadInv, Fits
    <2>5. /\ pendingRegisters \in 0 .. MaxPresses
          /\ Load(stack) + Lobby <= MaxDepth
      BY <2>0, <2>2, <2>3, <2>4 DEF MaxDepth
    <2>6. Len(stack) <= MaxDepth
      <3>4. Sole(stack, Dialogs) /\ Sole(stack, Boards)
        BY <2>1 DEF WellStacked
      <3>5. Len(stack) \in Nat
        BY <2>1
      <3>1. /\ Len(stack) \in Nat /\ Len(stack) <= Load(stack) + 2
            /\ None(stack, Dialogs \cup Boards) => Len(stack) <= Load(stack)
        BY <2>1, <3>4, <3>5, Depth
      <3>2. currentUsername = NoName => None(stack, Dialogs \cup Boards)
        BY DEF ClientInv, BeforeLobby, None, Dialogs, Boards
      <3>3. MaxDepth \in Nat
        BY <2>0 DEF MaxDepth
      <3> QED
        BY <2>2, <2>5, <3>1, <3>2, <3>3 DEF Lobby
    <2>7. gameId # NoGame => gameId \in sat
      BY DEF ClientInv, GameInv
    <2>8. WorldTypes /\ FormTypes /\ ScreenTypes
      BY DEF ClientInv, TypeInv
    <2>9. /\ buttons \in BOOLEAN /\ {waiting, dialogMade} \subseteq BOOLEAN
          /\ window \in {"login", "lobby", "profile", "board"}
      BY <2>8 DEF ScreenTypes
    <2>10. /\ {username, currentUsername} \subseteq Names \cup {NoName}
           /\ {pendingLogins, pendingLobby} \subseteq Seq(Names)
           /\ pendingEntries \in Seq({"create", "join"})
      BY <2>8 DEF FormTypes, Entries
    <2>11. stack \in Seq([kind : Kinds, game : Games \cup {NoGame}, since : Missing .. Finished]
                             \cup [kind : {"login"}, name : Names])
      BY <2>1 DEF Handlers, Plain, Logins
    <2> QED
      BY <2>5, <2>6, <2>7, <2>8, <2>9, <2>10, <2>11, Zenon DEF WorldTypes, TypeOK
  <1> QED
    BY <1>1, ClientInvariant, PTL

\* Two game-over dialogs never lie on each other, for any depth of the stack: the first is
\* a child of the board before its event loop runs, and findChild finds it from then on.
THEOREM DialogsDoNotPile == Spec => []OneDialog
  <1>1. ClientInv => OneDialog
    BY DEF ClientInv, StackInv, WellStacked, Sole, Dialogs, OneDialog
  <1> QED
    BY <1>1, ClientInvariant, PTL

\* However logins overlap, fail and return, the lobby greets with the name games are joined
\* under once no login is under way: the single-shot timers fire in the order they were set.
THEOREM LobbyGreetsRight == Spec => []GreetsWhoJoins
  <1>1. ClientInv => GreetsWhoJoins
    BY DEF ClientInv, GreetInv, FormUnderWay, GreetsWhoJoins
  <1> QED
    BY <1>1, ClientInvariant, PTL

\* The board opens only once a game of the player's own has started, for any number of games
\* and polls, also when a poll fails and the old snapshot is looked at.
THEOREM BoardAfterStart == Spec => []BoardOnlyAfterStart
  <1>1. ClientInv => BoardOnlyAfterStart
    BY DEF ClientInv, GameInv
  <1> QED
    BY <1>1, ClientInvariant, PTL
=============================================================================
