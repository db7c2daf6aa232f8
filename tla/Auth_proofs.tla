---------------------------- MODULE Auth_proofs ----------------------------
(***************************************************************************)
(* Proofs about Auth and its limiter: names stay unique, tokens are        *)
(* earned, and the limiter lets through and refuses what it should, for    *)
(* every number of threads, names, passwords, requests and tokens.         *)
(***************************************************************************)
EXTENDS Auth, DataLemmas, TLAPS

\* The handler's request came with the password of the name's row, or needs none.
Earned(h) ==
    \E id \in DOMAIN users :
        /\ users[id].name = h.name
        /\ users[id].password \in {NoPassword, h.password}

\* OneRowPerName is inductive by itself; TokensAreEarned needs to know that what is
\* about to be entered is earned already.
AuthInv ==
    /\ users \in Seq([name : Names, password : Passwords])
    /\ thread \in [Threads -> Handlers \cup {Idle}]
    /\ requests \in 0 .. MaxRequests
    /\ OneRowPerName
    /\ TokensAreEarned
    /\ \A t \in Threads : thread[t].stage = "token" => Earned(thread[t])

\* A handler under way is one of Handlers.
LEMMA UnderWay ==
    ASSUME thread \in [Threads -> Handlers \cup {Idle}],
           NEW t \in Threads, thread[t].stage # "idle"
    PROVE  thread[t] \in Handlers
  BY DEF Idle

\* Handlers come to an end, or go on to a stage before the last.
LEMMA ShortOfToken ==
    ASSUME AuthInv, NEW t \in Threads, thread[t].stage # "idle",
           Finish(t) \/ GoTo(t, "insert")
    PROVE  /\ thread' \in [Threads -> Handlers \cup {Idle}]
           /\ \A u \in Threads : thread'[u].stage = "token" =>
                 thread[u].stage = "token" /\ thread'[u] = thread[u]
  <1>1. thread[t] \in Handlers
    BY UnderWay DEF AuthInv
  <1>2. CASE Finish(t)
    BY <1>1, <1>2 DEF Finish, Idle, AuthInv
  <1>3. CASE GoTo(t, "insert")
    <2>1. [thread[t] EXCEPT !.stage = "insert"] \in Handlers
      BY <1>1 DEF Handlers
    <2> QED
      BY <1>1, <1>3, <2>1 DEF GoTo, Handlers, AuthInv
  <1> QED
    BY <1>2, <1>3

LEMMA AuthInit == Init => AuthInv
  BY AuthAssumption DEF Init, AuthInv, OneRowPerName, TokensAreEarned, Idle

LEMMA RequestInv ==
    ASSUME AuthInv, NEW t \in Threads, NEW stage \in {"register", "login"},
           NEW n \in Names, NEW p \in Passwords, NEW ip \in Addresses,
           Request(t, stage, n, p, ip)
    PROVE  AuthInv'
  <1>1. requests' \in 1 .. MaxRequests
    BY AuthAssumption DEF Request, AuthInv
  <1>2. users' = users /\ tokens' = tokens
    BY DEF Request
  <1>3. [stage |-> stage, name |-> n, password |-> p, number |-> requests'] \in Handlers
    BY <1>1 DEF Handlers
  <1>4. thread' \in [Threads -> Handlers \cup {Idle}]
    BY <1>3 DEF Request, AuthInv
  <1>5. \A u \in Threads : thread'[u].stage = "token" => thread'[u] = thread[u]
    BY <1>3 DEF Request, AuthInv
  <1> QED
    BY <1>1, <1>2, <1>4, <1>5 DEF AuthInv, OneRowPerName, TokensAreEarned, Earned

\* The row that is appended has a name no other row has, and earns its own request
\* the token.
LEMMA InsertUserInv ==
    ASSUME AuthInv, NEW t \in Threads, InsertUser(t)
    PROVE  AuthInv'
  <1>0. thread[t] \in Handlers /\ thread[t].stage = "insert"
    BY UnderWay DEF AuthInv, InsertUser
  <1>1. CASE UNCHANGED users /\ Finish(t)
    BY <1>0, <1>1, ShortOfToken
       DEF InsertUser, AuthInv, OneRowPerName, TokensAreEarned, Earned
  <1>2. CASE /\ ~Registered(thread[t].name)
             /\ users' = Append(users, [name |-> thread[t].name,
                                        password |-> thread[t].password])
             /\ GoTo(t, "token")
    <2> DEFINE row == [name |-> thread[t].name, password |-> thread[t].password]
    <2>1. row \in [name : Names, password : Passwords]
      BY <1>0 DEF Handlers
    <2>2. users' \in Seq([name : Names, password : Passwords])
      BY <1>2, <2>1 DEF AuthInv
    <2>3. /\ DOMAIN users' = DOMAIN users \cup {Len(users) + 1}
          /\ \A id \in DOMAIN users : users'[id] = users[id]
          /\ users'[Len(users) + 1] = row
      BY <1>2, <2>1 DEF AuthInv
    <2>4. OneRowPerName'
      BY <1>2, <2>3 DEF AuthInv, OneRowPerName, Registered
    <2>5. \A h : Earned(h) => Earned(h)'
      BY <2>3 DEF Earned
    <2>6. TokensAreEarned'
      BY <2>3 DEF AuthInv, TokensAreEarned, InsertUser
    <2>7. [thread[t] EXCEPT !.stage = "token"] \in Handlers
      BY <1>0 DEF Handlers
    <2>8. thread' \in [Threads -> Handlers \cup {Idle}]
      BY <1>2, <2>7 DEF GoTo, AuthInv
    <2>9. ASSUME NEW u \in Threads, thread'[u].stage = "token"
          PROVE  Earned(thread[u])'
      <3>1. CASE u = t
        <4>1. thread'[u].name = row.name /\ thread'[u].password = row.password
          BY <1>0, <1>2, <3>1 DEF GoTo, AuthInv, Handlers
        <4> QED
          BY <4>1, <2>3 DEF Earned
      <3>2. CASE u # t
        <4>1. thread'[u] = thread[u]
          BY <1>2, <3>2 DEF GoTo, AuthInv
        <4> QED
          BY <4>1, <2>3, <2>9 DEF AuthInv, Earned
      <3> QED
        BY <3>1, <3>2
    <2> QED
      BY <2>2, <2>4, <2>6, <2>8, <2>9 DEF AuthInv, InsertUser
  <1> QED
    BY <1>1, <1>2 DEF InsertUser

LEMMA LookForNameInv ==
    ASSUME AuthInv, NEW t \in Threads, LookForName(t)
    PROVE  AuthInv'
  BY ShortOfToken
     DEF LookForName, AuthInv, OneRowPerName, TokensAreEarned, Earned

LEMMA QueryFailsInv ==
    ASSUME AuthInv, NEW t \in Threads, QueryFails(t)
    PROVE  AuthInv'
  BY ShortOfToken
     DEF QueryFails, AuthInv, OneRowPerName, TokensAreEarned, Earned

\* The row that let the request in is the one that earns it the token.
LEMMA LoginUserInv ==
    ASSUME AuthInv, NEW t \in Threads, LoginUser(t)
    PROVE  AuthInv'
  <1>0. thread[t] \in Handlers /\ thread[t].stage = "login"
    BY UnderWay DEF AuthInv, LoginUser
  <1>1. CASE Finish(t)
    BY <1>0, <1>1, ShortOfToken
       DEF LoginUser, AuthInv, OneRowPerName, TokensAreEarned, Earned
  <1>2. CASE GoTo(t, "token") /\ Earned(thread[t])
    <2>1. [thread[t] EXCEPT !.stage = "token"] \in Handlers
      BY <1>0 DEF Handlers
    <2>2. thread' \in [Threads -> Handlers \cup {Idle}]
      BY <1>2, <2>1 DEF GoTo, AuthInv
    <2>3. \A u \in Threads : /\ thread'[u].name = thread[u].name
                             /\ thread'[u].password = thread[u].password
                             /\ u # t => thread'[u] = thread[u]
      BY <1>0, <1>2 DEF GoTo, AuthInv, Handlers
    <2>4. ASSUME NEW u \in Threads, thread'[u].stage = "token"
          PROVE  Earned(thread[u])
      BY <1>2, <2>3, <2>4 DEF AuthInv
    <2> QED
      BY <2>2, <2>3, <2>4
         DEF LoginUser, AuthInv, OneRowPerName, TokensAreEarned, Earned
  <1> QED
    BY <1>1, <1>2 DEF LoginUser, Earned

LEMMA EnterTokenInv ==
    ASSUME AuthInv, NEW t \in Threads, EnterToken(t)
    PROVE  AuthInv'
  <1>1. TokenOf(thread[t]).name = thread[t].name /\ TokenOf(thread[t]).by = thread[t].password
    BY DEF TokenOf
  <1>2. Earned(thread[t])
    BY DEF EnterToken, AuthInv
  <1>3. TokensAreEarned'
    BY <1>1, <1>2 DEF EnterToken, AuthInv, TokensAreEarned, Earned
  <1>4. /\ thread' \in [Threads -> Handlers \cup {Idle}]
        /\ \A u \in Threads : thread'[u].stage = "token" => thread'[u] = thread[u]
    BY ShortOfToken DEF EnterToken
  <1> QED
    BY <1>3, <1>4 DEF EnterToken, AuthInv, OneRowPerName, Earned

\* Logout, a restart and what only concerns the limiter leave less to be shown.
LEMMA OthersInv ==
    ASSUME AuthInv,
           \/ \E ip \in Addresses : BadRequest(ip)
           \/ \E token \in tokens : Logout(token)
           \/ Tick /\ UNCHANGED <<users, tokens, thread, requests>>
           \/ Restart
           \/ UNCHANGED vars
    PROVE  AuthInv'
  <1>1. users' = users /\ requests' = requests /\ tokens' \subseteq tokens
    BY DEF BadRequest, Logout, Restart, vars
  <1>2. thread' = thread \/ thread' = [t \in Threads |-> Idle]
    BY DEF BadRequest, Logout, Restart, vars
  <1> QED
    BY <1>1, <1>2 DEF AuthInv, OneRowPerName, TokensAreEarned, Earned, Idle

\* The inductive invariant holds of every state of the server.
THEOREM AuthInvariant == Spec => []AuthInv
  <1>1. AuthInv /\ [Next]_vars => AuthInv'
    BY RequestInv, LookForNameInv, InsertUserInv, LoginUserInv, QueryFailsInv,
       EnterTokenInv, OthersInv DEF Next
  <1> QED
    BY AuthInit, <1>1, PTL DEF Spec

\* The names of users are unique, however registrations overlap: InsertUser.
THEOREM NamesAreUnique == Spec => []OneRowPerName
  BY AuthInvariant, PTL DEF AuthInv

\* Tokens are given only to those who came with the password of the row: Register,
\* Login.
THEOREM TokensEarned == Spec => []TokensAreEarned
  BY AuthInvariant, PTL DEF AuthInv

-----------------------------------------------------------------------------
\* Of what is counted in f that which is at most n ticks old.
UpTo(f, n) == SumFunctionOnSet(f, 0 .. n)

\* Tokens that restarts at most n ticks old have put on the table again.
Fresh(r, n) == MaxTokens * UpTo(r, n)

Entries == [tokens : 0 .. MaxTokens, age : 0 .. RefillInterval]
Counts == [Recent -> Nat]

\* What an entry of the table knows of the requests p let through and of the
\* restarts r.  In an interval, the tokens that are missing went to requests since
\* the refill, the first of which made it; those from before it that are still
\* recent are fewer than MaxTokens, but for restarts.  The count is kept for every
\* span that reaches back to the refill, as a restart may cut the interval short.
Kept(entry, p, r) ==
    /\ entry.age < RefillInterval =>
          /\ \A n \in entry.age .. RefillInterval - 1 :
                UpTo(p, n) < 2 * MaxTokens + Fresh(r, n) - entry.tokens
          /\ UpTo(p, entry.age - 1) < MaxTokens - entry.tokens
          /\ UpTo(p, entry.age) >= MaxTokens - entry.tokens
    /\ entry.age = RefillInterval =>
          \A n \in Recent : UpTo(p, n) < MaxTokens + Fresh(r, n)

\* Who was refused in this tick had spent MaxTokens.
LimiterInv ==
    /\ LimiterTypeOK
    /\ \A ip \in Addresses :
          /\ Kept(limits[ip], passed[ip], restarts)
          /\ refused[ip] => UpTo(passed[ip], RefillInterval - 1) >= MaxTokens

LEMMA Sizes ==
    /\ MaxTokens \in Nat \ {0} /\ RefillInterval \in Nat \ {0}
    /\ 0 \in Recent /\ RefillInterval - 1 \in Recent
  BY LimiterAssumption DEF Recent

\* Counts up to an age are numbers, and grow with the age.
LEMMA UpToType ==
    ASSUME NEW f \in Counts, NEW n \in 0 .. RefillInterval
    PROVE  UpTo(f, n - 1) \in Nat
  <1>1. n - 1 \in Int /\ \A a \in 0 .. n - 1 : a \in Recent
    BY Sizes DEF Recent
  <1>2. IsFiniteSet(0 .. n - 1)
    BY <1>1, FS_Interval
  <1>3. \A a \in 0 .. n - 1 : f[a] \in Nat
    BY <1>1 DEF Counts
  <1> QED
    BY <1>2, <1>3, SumType DEF UpTo

LEMMA UpToRecent ==
    ASSUME NEW f \in Counts, NEW n \in Recent
    PROVE  UpTo(f, n) \in Nat /\ Fresh(f, n) \in Nat
  <1>1. n + 1 \in 0 .. RefillInterval /\ (n + 1) - 1 = n
    BY Sizes DEF Recent
  <1>2. UpTo(f, n) \in Nat
    BY <1>1, UpToType
  <1> QED
    BY <1>2, Sizes DEF Fresh

LEMMA UpToGrows ==
    ASSUME NEW f \in Counts, NEW n \in Recent, NEW m \in 0 .. n
    PROVE  UpTo(f, m) <= UpTo(f, n)
  <1>1. n \in Nat /\ \A i \in 0 .. n : f[i] \in Nat
    BY Sizes DEF Recent, Counts
  <1> QED
    BY <1>1, SumGrows DEF UpTo

\* Nothing is younger than what happened just now.
LEMMA UpToNothing ==
    ASSUME NEW f PROVE UpTo(f, 0 - 1) = 0
  <1>1. 0 .. 0 - 1 = {}
    OBVIOUS
  <1> QED
    BY <1>1, SumOfNothing DEF UpTo

\* One more counted just now is counted up to every age.
LEMMA OneMoreNow ==
    ASSUME NEW f \in Counts
    PROVE  /\ [f EXCEPT ![0] = @ + 1] \in Counts
           /\ \A n \in Recent : UpTo([f EXCEPT ![0] = @ + 1], n) = UpTo(f, n) + 1
  <1>1. [f EXCEPT ![0] = @ + 1] \in Counts
    BY Sizes DEF Counts
  <1>2. ASSUME NEW n \in Recent
        PROVE  UpTo([f EXCEPT ![0] = @ + 1], n) = UpTo(f, n) + 1
    <2>1. 0 .. n \in SUBSET Recent /\ 0 \in 0 .. n /\ IsFiniteSet(0 .. n)
      BY Sizes, FS_Interval DEF Recent
    <2> QED
      BY <2>1, SumIncrement DEF UpTo, Counts
  <1> QED
    BY <1>1, <1>2

\* A tick later everything is older by one.
LEMMA OlderCounts ==
    ASSUME NEW f \in Counts
    PROVE  /\ Older(f) \in Counts
           /\ \A n \in Recent : UpTo(Older(f), n) = UpTo(f, n - 1)
  <1> DEFINE g == Older(f)
  <1>1. \A a \in Recent : a # 0 => a - 1 \in Recent
    BY Sizes DEF Recent
  <1>2. /\ g \in Counts /\ g[0] = 0
        /\ \A a \in Recent : a # 0 => g[a] = f[a - 1]
    BY <1>1, Sizes DEF Older, Counts
  <1> HIDE DEF g
  <1>3. ASSUME NEW n \in Recent PROVE UpTo(g, n) = UpTo(f, n - 1)
    <2>1. /\ n \in Nat /\ \A i \in 0 .. n : i \in Recent
          /\ \A i \in 1 .. n : i \in Recent /\ i # 0
      BY Sizes DEF Recent
    <2>2. (\A i \in 0 .. n : f[i] \in Nat) /\ (\A i \in 1 .. n : g[i] = f[i - 1])
      BY <1>2, <2>1 DEF Counts
    <2> QED
      BY <1>2, <2>1, <2>2, SumShifted DEF UpTo
  <1> QED
    BY <1>2, <1>3 DEF g

\* A request that is let through spends a token; the first one after an interval
\* has refilled them.
LEMMA KeptWhenLetThrough ==
    ASSUME NEW entry \in Entries, NEW p \in Counts, NEW r \in Counts, Kept(entry, p, r),
           Refilled(entry).tokens > 0
    PROVE  /\ Spent(Refilled(entry)) \in Entries
           /\ Kept(Spent(Refilled(entry)), [p EXCEPT ![0] = @ + 1], r)
  <1> DEFINE q == [p EXCEPT ![0] = @ + 1]
             next == Spent(Refilled(entry))
  <1>1. q \in Counts /\ \A n \in Recent : UpTo(q, n) = UpTo(p, n) + 1
    BY OneMoreNow
  <1>2. \A n \in Recent : UpTo(p, n) \in Nat /\ Fresh(r, n) \in Nat
    BY UpToRecent
  <1>3. UpTo(p, 0 - 1) = 0 /\ UpTo(q, 0 - 1) = 0
    BY UpToNothing
  <1> HIDE DEF q
  <1>4. CASE entry.age = RefillInterval
    <2>1. next.tokens = MaxTokens - 1 /\ next.age = 0 /\ next \in Entries
      BY <1>4, Sizes DEF Spent, Refilled, Entries
    <2>2. \A n \in Recent : UpTo(p, n) < MaxTokens + Fresh(r, n)
      BY <1>4 DEF Kept
    <2>3. Recent = 0 .. RefillInterval - 1
      BY DEF Recent
    <2> HIDE DEF next
    <2>4. next.age < RefillInterval /\ next.age # RefillInterval
      BY <2>1, Sizes
    <2>5. \A n \in next.age .. RefillInterval - 1 :
                UpTo(q, n) < 2 * MaxTokens + Fresh(r, n) - next.tokens
      BY <1>1, <1>2, <2>1, <2>2, <2>3, Sizes
    <2>6. UpTo(q, next.age - 1) < MaxTokens - next.tokens
      BY <1>3, <2>1, Sizes
    <2>7. UpTo(q, next.age) >= MaxTokens - next.tokens
      BY <1>1, <1>2, <2>1, Sizes
    <2> QED
      BY <2>1, <2>4, <2>5, <2>6, <2>7 DEF Kept, q, next
  <1>5. CASE entry.age < RefillInterval
    <2>1. /\ next.tokens = entry.tokens - 1 /\ next.age = entry.age /\ next \in Entries
          /\ entry.tokens \in 1 .. MaxTokens /\ entry.age \in Recent
      BY <1>5, Sizes DEF Spent, Refilled, Entries, Recent
    <2>2. /\ \A n \in entry.age .. RefillInterval - 1 :
                UpTo(p, n) < 2 * MaxTokens + Fresh(r, n) - entry.tokens
          /\ UpTo(p, entry.age - 1) < MaxTokens - entry.tokens
          /\ UpTo(p, entry.age) >= MaxTokens - entry.tokens
      BY <1>5 DEF Kept
    <2>3. entry.age .. RefillInterval - 1 \subseteq Recent
      BY <2>1, Sizes DEF Recent
    <2>4. UpTo(q, entry.age - 1) < MaxTokens - next.tokens
      <3>1. CASE entry.age = 0
        BY <1>3, <2>1, <3>1, Sizes
      <3>2. CASE entry.age - 1 \in Recent
        BY <1>1, <1>2, <2>1, <2>2, <3>2, Sizes
      <3> QED
        BY <2>1, <3>1, <3>2, Sizes DEF Recent
    <2>5. \A n \in entry.age .. RefillInterval - 1 :
                UpTo(q, n) < 2 * MaxTokens + Fresh(r, n) - next.tokens
      BY <1>1, <1>2, <2>1, <2>2, <2>3, Sizes
    <2>6. UpTo(q, entry.age) >= MaxTokens - next.tokens
      BY <1>1, <1>2, <2>1, <2>2, Sizes
    <2>7. next.age < RefillInterval /\ next.age # RefillInterval
      BY <1>5, <2>1, Sizes DEF Recent
    <2> HIDE DEF next
    <2> QED
      BY <2>1, <2>4, <2>5, <2>6, <2>7 DEF Kept, q, next
  <1> QED
    BY <1>4, <1>5, Sizes DEF Entries

\* A request that is refused finds the tokens spent, and changes nothing.
LEMMA KeptWhenRefused ==
    ASSUME NEW entry \in Entries, NEW p \in Counts, NEW r \in Counts, Kept(entry, p, r),
           ~(Refilled(entry).tokens > 0)
    PROVE  /\ Spent(Refilled(entry)) = entry
           /\ UpTo(p, RefillInterval - 1) >= MaxTokens
  <1>1. entry.tokens = 0 /\ entry.age \in Recent /\ entry.age < RefillInterval
        /\ Spent(Refilled(entry)) = entry
    BY Sizes DEF Refilled, Spent, Entries, Recent
  <1>2. UpTo(p, entry.age) >= MaxTokens
    BY <1>1, Sizes DEF Kept
  <1>3. UpTo(p, entry.age) <= UpTo(p, RefillInterval - 1)
    BY <1>1, Sizes, UpToGrows DEF Recent
  <1>4. UpTo(p, entry.age) \in Nat /\ UpTo(p, RefillInterval - 1) \in Nat
    BY <1>1, Sizes, UpToRecent
  <1> QED
    BY <1>1, <1>2, <1>3, <1>4, Sizes

\* In the tick that completes an interval the request that made the refill, and
\* all before it, cease to be recent.
LEMMA KeptWhenOlder ==
    ASSUME NEW entry \in Entries, NEW p \in Counts, NEW r \in Counts, Kept(entry, p, r),
           NEW next, next = [entry EXCEPT !.age = IF @ < RefillInterval THEN @ + 1 ELSE @]
    PROVE  next \in Entries /\ Kept(next, Older(p), Older(r))
  <1>1. /\ next \in Entries /\ next.tokens = entry.tokens
        /\ next.age = IF entry.age < RefillInterval THEN entry.age + 1 ELSE entry.age
        /\ entry.tokens \in 0 .. MaxTokens /\ entry.age \in 0 .. RefillInterval
    BY Sizes DEF Entries
  <1>2. \A n \in Recent : /\ UpTo(Older(p), n) = UpTo(p, n - 1)
                          /\ Fresh(Older(r), n) = Fresh(r, n - 1)
    BY OlderCounts DEF Fresh
  <1>3. \A n \in Recent : UpTo(p, n) \in Nat /\ Fresh(r, n) \in Nat
    BY UpToRecent
  <1>4. UpTo(p, 0 - 1) = 0 /\ Fresh(r, 0 - 1) = 0
    BY UpToNothing, Sizes DEF Fresh
  <1>5. CASE entry.age < RefillInterval - 1
    <2>1. /\ next.age = entry.age + 1 /\ next.age < RefillInterval /\ next.age # RefillInterval
          /\ next.age \in Recent /\ entry.age \in Recent /\ next.age - 1 = entry.age
      BY <1>1, <1>5, Sizes DEF Recent
    <2>2. /\ \A n \in entry.age .. RefillInterval - 1 :
                UpTo(p, n) < 2 * MaxTokens + Fresh(r, n) - entry.tokens
          /\ UpTo(p, entry.age - 1) < MaxTokens - entry.tokens
          /\ UpTo(p, entry.age) >= MaxTokens - entry.tokens
      BY <1>1, <1>5, Sizes DEF Kept
    <2>3. ASSUME NEW n \in next.age .. RefillInterval - 1
          PROVE  UpTo(Older(p), n) < 2 * MaxTokens + Fresh(Older(r), n) - next.tokens
      <3>1. n \in Recent /\ n - 1 \in entry.age .. RefillInterval - 1
        BY <2>1, Sizes DEF Recent
      <3>2. UpTo(p, n - 1) < 2 * MaxTokens + Fresh(r, n - 1) - entry.tokens
        BY <2>2, <3>1
      <3> QED
        BY <1>1, <1>2, <3>1, <3>2
    <2>4. UpTo(Older(p), entry.age) = UpTo(p, entry.age - 1)
      BY <1>2, <2>1
    <2>5. UpTo(Older(p), next.age) = UpTo(p, entry.age)
      BY <1>2, <2>1
    <2> QED
      BY <1>1, <2>1, <2>2, <2>3, <2>4, <2>5 DEF Kept
  <1>6. CASE entry.age = RefillInterval - 1
    <2>1. next.age = RefillInterval /\ ~(next.age < RefillInterval)
      BY <1>1, <1>6, Sizes
    <2>2. UpTo(p, entry.age - 1) < MaxTokens - entry.tokens
      BY <1>1, <1>6, Sizes DEF Kept
    <2>3. ASSUME NEW n \in Recent
          PROVE  UpTo(Older(p), n) < MaxTokens + Fresh(Older(r), n)
      <3>1. CASE n = 0
        BY <1>2, <1>4, <3>1, Sizes
      <3>2. CASE n # 0
        <4>1. n - 1 \in Recent /\ entry.age - 1 \in Recent /\ n - 1 \in 0 .. entry.age - 1
          BY <1>6, <3>2, Sizes DEF Recent
        <4>2. UpTo(p, n - 1) <= UpTo(p, entry.age - 1)
          BY <4>1, UpToGrows
        <4>3. /\ UpTo(Older(p), n) = UpTo(p, n - 1) /\ Fresh(Older(r), n) = Fresh(r, n - 1)
              /\ UpTo(p, n - 1) \in Nat /\ Fresh(r, n - 1) \in Nat
              /\ UpTo(p, entry.age - 1) \in Nat
          BY <1>2, <1>3, <4>1
        <4> QED
          BY <1>1, <2>2, <4>2, <4>3, Sizes
      <3> QED
        BY <3>1, <3>2
    <2> QED
      BY <1>1, <2>1, <2>3 DEF Kept
  <1>7. CASE entry.age = RefillInterval
    <2>1. next.age = RefillInterval /\ ~(next.age < RefillInterval)
      BY <1>1, <1>7, Sizes
    <2>2. \A n \in Recent : UpTo(p, n) < MaxTokens + Fresh(r, n)
      BY <1>7 DEF Kept
    <2>3. ASSUME NEW n \in Recent
          PROVE  UpTo(Older(p), n) < MaxTokens + Fresh(Older(r), n)
      <3>1. CASE n = 0
        BY <1>2, <1>4, <3>1, Sizes
      <3>2. CASE n # 0
        <4>1. n - 1 \in Recent
          BY <3>2, Sizes DEF Recent
        <4> QED
          BY <1>2, <2>2, <4>1
      <3> QED
        BY <3>1, <3>2
    <2> QED
      BY <1>1, <2>1, <2>3 DEF Kept
  <1> QED
    BY <1>1, <1>5, <1>6, <1>7, Sizes

\* A restart puts MaxTokens on the table again.
LEMMA KeptOverRestart ==
    ASSUME NEW entry \in Entries, NEW p \in Counts, NEW r \in Counts, Kept(entry, p, r)
    PROVE  Kept([tokens |-> MaxTokens, age |-> RefillInterval], p, [r EXCEPT ![0] = @ + 1])
  <1> DEFINE s == [r EXCEPT ![0] = @ + 1]
  <1>1. ASSUME NEW n \in Recent PROVE Fresh(s, n) = Fresh(r, n) + MaxTokens
    <2>1. UpTo(s, n) = UpTo(r, n) + 1 /\ UpTo(r, n) \in Nat
      BY OneMoreNow, UpToRecent
    <2> HIDE DEF s
    <2> QED
      BY <2>1, Sizes DEF Fresh
  <1>2. \A n \in Recent : UpTo(p, n) \in Nat /\ Fresh(r, n) \in Nat
    BY UpToRecent
  <1>3. entry.tokens \in 0 .. MaxTokens /\ entry.age \in 0 .. RefillInterval
    BY DEF Entries
  <1> HIDE DEF s
  <1>4. ASSUME NEW n \in Recent PROVE UpTo(p, n) < MaxTokens + Fresh(s, n)
    <2>1. CASE entry.age = RefillInterval
      BY <1>1, <1>2, <2>1, Sizes DEF Kept
    <2>2. CASE entry.age < RefillInterval /\ entry.age <= n
      <3>1. n \in entry.age .. RefillInterval - 1
        BY <1>3, <2>2, Sizes DEF Recent
      <3>2. UpTo(p, n) < 2 * MaxTokens + Fresh(r, n) - entry.tokens
        BY <2>2, <3>1 DEF Kept
      <3> QED
        BY <1>1, <1>2, <1>3, <3>2, Sizes
    <2>3. CASE entry.age < RefillInterval /\ n < entry.age
      <3>1. entry.age - 1 \in Recent /\ n \in 0 .. entry.age - 1
        BY <1>3, <2>3, Sizes DEF Recent
      <3>2. UpTo(p, n) <= UpTo(p, entry.age - 1) /\ UpTo(p, entry.age - 1) < MaxTokens - entry.tokens
        BY <2>3, <3>1, UpToGrows DEF Kept
      <3>3. UpTo(p, entry.age - 1) \in Nat
        BY <1>2, <3>1
      <3> QED
        BY <1>1, <1>2, <1>3, <3>2, <3>3, Sizes
    <2> QED
      BY <1>3, <2>1, <2>2, <2>3, Sizes DEF Recent
  <1>5. ASSUME NEW start, start.tokens = MaxTokens, start.age = RefillInterval
        PROVE  Kept(start, p, s)
    BY <1>4, <1>5, Sizes DEF Kept
  <1> QED
    BY <1>5 DEF s

-----------------------------------------------------------------------------
LEMMA LimiterTypes ==
    ASSUME LimiterTypeOK
    PROVE  /\ limits \in [Addresses -> Entries] /\ passed \in [Addresses -> Counts]
           /\ restarts \in Counts
  BY DEF LimiterTypeOK, Entries, Counts

\* Nobody has been let through, and the first request will refill.
LEMMA LimiterStarts == LimiterInit => LimiterInv
  <1> SUFFICES ASSUME LimiterInit PROVE LimiterInv
    OBVIOUS
  <1>1. LimiterTypeOK
    BY Sizes DEF LimiterTypeOK, LimiterInit, Untouched
  <1>2. ASSUME NEW ip \in Addresses, NEW n \in Recent
        PROVE  UpTo(passed[ip], n) = 0
    <2>1. IsFiniteSet(0 .. n) /\ \A a \in 0 .. n : a \in Recent
      BY Sizes, FS_Interval DEF Recent
    <2>2. \A a \in 0 .. n : passed[ip][a] \in 0 .. 0
      BY <2>1 DEF LimiterInit
    <2>3. UpTo(passed[ip], n) <= 0 * Cardinality(0 .. n) /\ Cardinality(0 .. n) \in Nat
      BY <2>1, <2>2, SumAtMost, FS_CardinalityType DEF UpTo
    <2>4. UpTo(passed[ip], n) \in Nat
      BY <1>1, LimiterTypes, UpToRecent
    <2> QED
      BY <2>3, <2>4
  <1>3. \A n \in Recent : Fresh(restarts, n) \in Nat
    BY <1>1, LimiterTypes, UpToRecent
  <1>4. ASSUME NEW ip \in Addresses PROVE Kept(limits[ip], passed[ip], restarts)
    <2>1. limits[ip].age = RefillInterval /\ ~(limits[ip].age < RefillInterval)
      BY Sizes DEF LimiterInit, Untouched
    <2>2. \A n \in Recent : UpTo(passed[ip], n) < MaxTokens + Fresh(restarts, n)
      BY <1>2, <1>3, Sizes
    <2> QED
      BY <2>1, <2>2 DEF Kept
  <1> QED
    BY <1>1, <1>4 DEF LimiterInv, LimiterInit

LEMMA AllowRequestInv ==
    ASSUME LimiterInv, NEW ip \in Addresses, AllowRequest(ip)
    PROVE  LimiterInv'
  <1>1. /\ limits \in [Addresses -> Entries] /\ passed \in [Addresses -> Counts]
        /\ restarts \in Counts /\ refused \in [Addresses -> BOOLEAN]
        /\ Kept(limits[ip], passed[ip], restarts)
    BY LimiterTypes DEF LimiterInv, LimiterTypeOK
  <1>2. limits' = [limits EXCEPT ![ip] = Spent(Refilled(limits[ip]))] /\ restarts' = restarts
    BY DEF AllowRequest
  <1>3. limits'[ip] = Spent(Refilled(limits[ip]))
        /\ \A other \in Addresses \ {ip} : limits'[other] = limits[other]
    BY <1>1, <1>2
  <1>4. limits[ip] \in Entries /\ passed[ip] \in Counts
    BY <1>1
  <1>5. CASE Allowed(ip)
    <2> DEFINE q == [passed[ip] EXCEPT ![0] = @ + 1]
    <2>1. passed' = [passed EXCEPT ![ip] = q] /\ refused' = refused
      BY <1>5 DEF AllowRequest
    <2>2. Refilled(limits[ip]).tokens > 0
      BY <1>5 DEF Allowed
    <2>3. Spent(Refilled(limits[ip])) \in Entries /\ Kept(Spent(Refilled(limits[ip])), q, restarts)
      BY <1>1, <1>4, <2>2, KeptWhenLetThrough
    <2>4. q \in Counts /\ UpTo(q, RefillInterval - 1) = UpTo(passed[ip], RefillInterval - 1) + 1
          /\ UpTo(passed[ip], RefillInterval - 1) \in Nat
      BY <1>4, OneMoreNow, Sizes, UpToRecent
    <2> HIDE DEF q
    <2>5. passed'[ip] = q /\ \A other \in Addresses \ {ip} : passed'[other] = passed[other]
      BY <1>1, <2>1
    <2>6. limits' \in [Addresses -> Entries] /\ passed' \in [Addresses -> Counts]
      BY <1>1, <1>2, <2>1, <2>3, <2>4
    <2>7. LimiterTypeOK'
      BY <1>1, <1>2, <2>1, <2>6 DEF LimiterTypeOK, Entries, Counts
    <2>8. ASSUME NEW any \in Addresses
          PROVE  /\ Kept(limits'[any], passed'[any], restarts)
                 /\ refused[any] => UpTo(passed'[any], RefillInterval - 1) >= MaxTokens
      <3>1. CASE any = ip
        <4>1. refused[ip] => UpTo(passed[ip], RefillInterval - 1) >= MaxTokens
          BY DEF LimiterInv
        <4> QED
          BY <1>3, <2>3, <2>4, <2>5, <3>1, <4>1, Sizes
      <3>2. CASE any # ip
        BY <1>3, <2>5, <3>2 DEF LimiterInv
      <3> QED
        BY <3>1, <3>2
    <2> QED
      BY <1>2, <2>1, <2>7, <2>8 DEF LimiterInv
  <1>6. CASE ~Allowed(ip)
    <2>1. /\ Spent(Refilled(limits[ip])) = limits[ip]
          /\ UpTo(passed[ip], RefillInterval - 1) >= MaxTokens
      BY <1>1, <1>4, <1>6, KeptWhenRefused DEF Allowed
    <2>2. limits' = limits
      BY <1>1, <1>2, <2>1
    <2>3. passed' = passed /\ refused' = [refused EXCEPT ![ip] = TRUE]
      BY <1>6 DEF AllowRequest
    <2> QED
      BY <1>1, <1>2, <2>1, <2>2, <2>3 DEF LimiterInv, LimiterTypeOK
  <1> QED
    BY <1>5, <1>6

LEMMA TickInv ==
    ASSUME LimiterInv, Tick
    PROVE  LimiterInv'
  <1>1. /\ limits \in [Addresses -> Entries] /\ passed \in [Addresses -> Counts]
        /\ restarts \in Counts
    BY LimiterTypes DEF LimiterInv
  <1>2. restarts' = Older(restarts) /\ Older(restarts) \in Counts
    BY <1>1, OlderCounts DEF Tick
  <1>3. ASSUME NEW ip \in Addresses
        PROVE  /\ limits'[ip] \in Entries /\ passed'[ip] \in Counts
               /\ Kept(limits'[ip], passed'[ip], Older(restarts))
    <2>1. /\ limits'[ip] = [limits[ip] EXCEPT !.age = IF @ < RefillInterval THEN @ + 1 ELSE @]
          /\ passed'[ip] = Older(passed[ip])
      BY DEF Tick
    <2>2. limits[ip] \in Entries /\ passed[ip] \in Counts
          /\ Kept(limits[ip], passed[ip], restarts)
      BY <1>1 DEF LimiterInv
    <2> QED
      BY <1>1, <2>1, <2>2, KeptWhenOlder, OlderCounts
  <1>4. limits' \in [Addresses -> Entries] /\ passed' \in [Addresses -> Counts]
    BY <1>3 DEF Tick
  <1>5. refused' = [ip \in Addresses |-> FALSE]
    BY DEF Tick
  <1>6. LimiterTypeOK'
    BY <1>2, <1>4, <1>5 DEF LimiterTypeOK, Entries, Counts
  <1> QED
    BY <1>2, <1>3, <1>5, <1>6 DEF LimiterInv

LEMMA ForgetLimitsInv ==
    ASSUME LimiterInv, ForgetLimits
    PROVE  LimiterInv'
  <1>1. /\ limits \in [Addresses -> Entries] /\ passed \in [Addresses -> Counts]
        /\ restarts \in Counts
    BY LimiterTypes DEF LimiterInv
  <1>2. /\ restarts' = [restarts EXCEPT ![0] = @ + 1] /\ restarts' \in Counts
        /\ limits' = Untouched /\ passed' = passed /\ refused' = refused
    BY <1>1, OneMoreNow DEF ForgetLimits
  <1>3. LimiterTypeOK'
    BY <1>2, Sizes DEF LimiterInv, LimiterTypeOK, Untouched, Counts
  <1>4. ASSUME NEW ip \in Addresses
        PROVE  Kept(limits'[ip], passed[ip], restarts')
    <2>1. limits'[ip] = [tokens |-> MaxTokens, age |-> RefillInterval]
      BY <1>2 DEF Untouched
    <2>2. limits[ip] \in Entries /\ passed[ip] \in Counts
          /\ Kept(limits[ip], passed[ip], restarts)
      BY <1>1 DEF LimiterInv
    <2> QED
      BY <1>1, <1>2, <2>1, <2>2, KeptOverRestart
  <1> QED
    BY <1>2, <1>3, <1>4 DEF LimiterInv

\* What is recent is at most RefillInterval - 1 ticks old.
LEMMA RecentIsEverything ==
    ASSUME NEW f \in Counts
    PROVE  SumFunction(f) = UpTo(f, RefillInterval - 1) /\ SumFunction(f) \in Nat
  <1>1. DOMAIN f = 0 .. RefillInterval - 1
    BY DEF Recent, Counts
  <1>2. SumFunction(f) = UpTo(f, RefillInterval - 1)
    BY <1>1 DEF SumFunction, UpTo
  <1> QED
    BY <1>2, Sizes, UpToRecent

\* AuthHandler comes to the limiter through AllowRequest only.
LEMMA NextLimiter == LimiterInv /\ [Next]_vars => LimiterInv'
  <1> SUFFICES ASSUME LimiterInv, [Next]_vars PROVE LimiterInv'
    OBVIOUS
  <1>1. CASE UNCHANGED limiter
    BY <1>1 DEF LimiterInv, LimiterTypeOK, limiter
  <1>2. CASE \E ip \in Addresses : AllowRequest(ip)
    BY <1>2, AllowRequestInv
  <1>3. CASE Tick
    BY <1>3, TickInv
  <1>4. CASE ForgetLimits
    BY <1>4, ForgetLimitsInv
  <1> QED
    BY <1>1, <1>2, <1>3, <1>4, Zenon
       DEF Next, Request, BadRequest, LookForName, InsertUser, LoginUser, QueryFails,
           EnterToken, Logout, Restart, vars

\* The bookkeeping of tokens and requests, for any number of tokens, any interval
\* and any number of restarts within it.
THEOREM LimiterInvariant == Spec => []LimiterInv
  <1>1. Init => LimiterInv
    BY LimiterStarts DEF Init
  <1> QED
    BY <1>1, NextLimiter, PTL DEF Spec

\* In any span of one interval, wherever it lies, an address has fewer requests let
\* through than twice MaxTokens, and MaxTokens more for every restart of the server
\* within the span: AllowRequest.
THEOREM LimitSlides == Spec => []SlidingLimit
  <1>1. LimiterInv => SlidingLimit
    <2> SUFFICES ASSUME LimiterInv, NEW ip \in Addresses
                 PROVE  PassedRecently(ip) < MaxTokens * (2 + SumFunction(restarts))
      BY DEF SlidingLimit
    <2>1. /\ limits[ip] \in Entries /\ passed[ip] \in Counts /\ restarts \in Counts
          /\ Kept(limits[ip], passed[ip], restarts)
      BY LimiterTypes DEF LimiterInv
    <2> DEFINE last == RefillInterval - 1
               p == UpTo(passed[ip], last)
               f == Fresh(restarts, last)
               again == UpTo(restarts, last)
               left == limits[ip].tokens
    <2>2. /\ limits[ip].age < RefillInterval => p < 2 * MaxTokens + f - left
          /\ limits[ip].age = RefillInterval => p < MaxTokens + f
      <3>1. limits[ip].age < RefillInterval => last \in limits[ip].age .. RefillInterval - 1
        BY <2>1, Sizes DEF Entries
      <3> QED
        BY <2>1, <3>1, Sizes DEF Kept
    <2>3. /\ PassedRecently(ip) = p /\ SumFunction(restarts) = again
          /\ p \in Nat /\ again \in Nat /\ left \in Nat
          /\ limits[ip].age < RefillInterval \/ limits[ip].age = RefillInterval
      BY <2>1, Sizes, RecentIsEverything, UpToRecent DEF PassedRecently, Entries
    <2>4. f = MaxTokens * again /\ f \in Nat
      BY <2>1, Sizes, UpToRecent DEF Fresh
    <2> HIDE DEF p, f, again, left, last
    <2>5. p < 2 * MaxTokens + f
      BY <2>2, <2>3, <2>4, Sizes
    <2>6. MaxTokens * (2 + again) = 2 * MaxTokens + MaxTokens * again
      BY <2>3, Sizes
    <2> QED
      BY <2>3, <2>4, <2>5, <2>6
  <1> QED
    BY <1>1, LimiterInvariant, PTL

\* An address is refused only after MaxTokens requests within the last interval,
\* and being refused does not prolong the wait: AllowRequest.
THEOREM RefusalsAreDue == Spec => []RefusedOnlyWhenBusy
  <1>1. LimiterInv => RefusedOnlyWhenBusy
    <2> SUFFICES ASSUME LimiterInv, NEW ip \in Addresses, refused[ip]
                 PROVE  PassedRecently(ip) >= MaxTokens
      BY DEF RefusedOnlyWhenBusy
    <2>1. passed[ip] \in Counts
      BY LimiterTypes DEF LimiterInv
    <2> QED
      BY <2>1, RecentIsEverything DEF LimiterInv, PassedRecently
  <1> QED
    BY <1>1, LimiterInvariant, PTL

-----------------------------------------------------------------------------
\* The requests whose registrations may still append a row.
Registering ==
    {thread[t].number : t \in {u \in Threads : thread[u].stage \in {"register", "insert"}}}

\* Every request has a number of its own, in its handler and in its token, and
\* pays for at most one row.
NumbersInv ==
    /\ tokens \subseteq [name : Names, by : Passwords, number : 1 .. requests]
    /\ \A t \in Threads : thread[t] # Idle =>
          /\ thread[t].number \in 1 .. requests
          /\ \A token \in tokens : token.number # thread[t].number
          /\ \A u \in Threads \ {t} : thread[u] # Idle => thread[u].number # thread[t].number
    /\ Len(users) + Cardinality(Registering) <= requests

LEMMA RegisteringType ==
    ASSUME AuthInv, NumbersInv
    PROVE  /\ requests \in Nat /\ Len(users) \in Nat
           /\ Registering \subseteq 1 .. requests
           /\ IsFiniteSet(Registering) /\ Cardinality(Registering) \in Nat
  <1>1. requests \in Nat /\ Len(users) \in Nat
    BY AuthAssumption DEF AuthInv
  <1>2. Registering \subseteq 1 .. requests
    BY DEF Registering, NumbersInv, Idle
  <1>3. IsFiniteSet(1 .. requests)
    BY <1>1, FS_Interval
  <1>4. IsFiniteSet(Registering) /\ Cardinality(Registering) \in Nat
    BY <1>2, <1>3, FS_Subset, FS_CardinalityType
  <1> QED
    BY <1>1, <1>2, <1>4

\* Handlers that go on, or end, keep their numbers to themselves.
LEMMA NumbersKept ==
    ASSUME AuthInv, NumbersInv, requests' = requests, users' = users,
           tokens' \subseteq [name : Names, by : Passwords, number : 1 .. requests],
           \A t \in Threads : thread'[t] # Idle =>
              /\ thread[t] # Idle /\ thread'[t].number = thread[t].number
              /\ thread'[t].stage \in {"register", "insert"} =>
                    thread[t].stage \in {"register", "insert"}
              /\ \A token \in tokens' : token.number # thread[t].number
    PROVE  NumbersInv'
  <1>1. Registering' \subseteq Registering
    BY DEF Registering, Idle
  <1>2. Cardinality(Registering') \in Nat /\ Cardinality(Registering') <= Cardinality(Registering)
    BY <1>1, RegisteringType, FS_Subset, FS_CardinalityType
  <1>3. Len(users') + Cardinality(Registering') <= requests'
    BY <1>2, RegisteringType DEF NumbersInv
  <1> QED
    BY <1>3 DEF NumbersInv

\* A request takes a number nobody has.
LEMMA RequestNumbers ==
    ASSUME AuthInv, NumbersInv, NEW t \in Threads, NEW stage \in {"register", "login"},
           NEW n \in Names, NEW p \in Passwords, NEW ip \in Addresses,
           Request(t, stage, n, p, ip)
    PROVE  NumbersInv'
  <1>1. /\ requests \in Nat /\ requests' = requests + 1 /\ users' = users /\ tokens' = tokens
        /\ thread[t] = Idle /\ thread \in [Threads -> Handlers \cup {Idle}]
    BY RegisteringType DEF Request, AuthInv
  <1>2. tokens' \subseteq [name : Names, by : Passwords, number : 1 .. requests']
    BY <1>1 DEF NumbersInv
  <1> DEFINE new == [stage |-> stage, name |-> n, password |-> p, number |-> requests']
  <1>3. thread'[t] \in {new, Idle} /\ \A u \in Threads \ {t} : thread'[u] = thread[u]
    BY <1>1 DEF Request
  <1>4. new.number = requests + 1
    BY <1>1
  <1> HIDE DEF new
  <1>5. \A u \in Threads : thread[u] # Idle => thread[u].number \in 1 .. requests
    BY DEF NumbersInv
  <1>6. \A token \in tokens : token.number \in 1 .. requests
    BY DEF NumbersInv
  <1>7. ASSUME NEW u \in Threads, thread'[u] # Idle
        PROVE  /\ thread'[u].number \in 1 .. requests'
               /\ \A token \in tokens : token.number # thread'[u].number
               /\ \A v \in Threads \ {u} : thread'[v] # Idle => thread'[v].number # thread'[u].number
    <2>1. CASE u = t
      <3>1. thread'[u].number = requests + 1
        BY <1>3, <1>4, <1>7, <2>1
      <3>2. \A v \in Threads \ {u} : thread'[v] = thread[v]
        BY <1>3, <2>1
      <3> QED
        BY <1>1, <1>5, <1>6, <3>1, <3>2
    <2>2. CASE u # t
      <3>1. thread'[u] = thread[u] /\ thread[u].number \in 1 .. requests
        BY <1>3, <1>5, <1>7, <2>2
      <3>2. ASSUME NEW v \in Threads \ {u}, thread'[v] # Idle
            PROVE  thread'[v].number # thread[u].number
        <4>1. CASE v = t
          BY <1>1, <1>3, <1>4, <3>1, <3>2, <4>1
        <4>2. CASE v # t
          BY <1>3, <1>7, <3>1, <3>2, <4>2 DEF NumbersInv
        <4> QED
          BY <4>1, <4>2
      <3> QED
        BY <1>1, <1>7, <3>1, <3>2 DEF NumbersInv
    <2> QED
      BY <2>1, <2>2
  <1>8. Registering' \subseteq Registering \cup {requests + 1}
    <2> SUFFICES ASSUME NEW u \in Threads, thread'[u].stage \in {"register", "insert"}
                 PROVE  thread'[u].number \in Registering \cup {requests + 1}
      BY DEF Registering
    <2>1. thread'[u] # Idle
      BY DEF Idle
    <2> QED
      BY <1>3, <1>4, <2>1 DEF Registering
  <1>9. Cardinality(Registering') <= Cardinality(Registering) + 1 /\ Cardinality(Registering') \in Nat
    <2>1. IsFiniteSet(Registering) /\ Cardinality(Registering) \in Nat
      BY RegisteringType
    <2>2. /\ IsFiniteSet(Registering \cup {requests + 1})
          /\ Cardinality(Registering \cup {requests + 1}) <= Cardinality(Registering) + 1
      <3> DEFINE number == requests + 1
      <3> HIDE DEF number
      <3>1. /\ IsFiniteSet(Registering \cup {number})
            /\ \/ Cardinality(Registering \cup {number}) = Cardinality(Registering)
               \/ Cardinality(Registering \cup {number}) = Cardinality(Registering) + 1
        BY <2>1, FS_AddElement
      <3> QED
        BY <2>1, <3>1 DEF number
    <2>3. /\ Cardinality(Registering') <= Cardinality(Registering \cup {requests + 1})
          /\ Cardinality(Registering') \in Nat
          /\ Cardinality(Registering \cup {requests + 1}) \in Nat
      BY <1>8, <2>2, FS_Subset, FS_CardinalityType
    <2> QED
      BY <2>1, <2>2, <2>3
  <1>10. Len(users') + Cardinality(Registering') <= requests'
    BY <1>1, <1>9, RegisteringType DEF NumbersInv
  <1> QED
    BY <1>1, <1>2, <1>7, <1>10 DEF NumbersInv

\* What a handler that ends, or goes on to a stage, does to the threads.
LEMMA OneThreadMoves ==
    ASSUME AuthInv, NEW t \in Threads, thread[t].stage # "idle", NEW stage,
           Finish(t) \/ GoTo(t, stage)
    PROVE  /\ thread[t] # Idle
           /\ \A u \in Threads \ {t} : thread'[u] = thread[u]
           /\ \/ thread'[t] = Idle
              \/ thread'[t].number = thread[t].number /\ thread'[t].stage = stage
  <1>1. thread[t] \in Handlers /\ thread \in [Threads -> Handlers \cup {Idle}]
    BY UnderWay DEF AuthInv
  <1> QED
    BY <1>1 DEF Finish, GoTo, Handlers, Idle

\* The request that appends a row cannot append another.
LEMMA InsertNumbers ==
    ASSUME AuthInv, NumbersInv, NEW t \in Threads, InsertUser(t)
    PROVE  NumbersInv'
  <1>1. thread[t].stage = "insert" /\ thread[t] # Idle
        /\ requests' = requests /\ tokens' = tokens
    BY DEF InsertUser, Idle
  <1>2. /\ \A u \in Threads \ {t} : thread'[u] = thread[u]
        /\ \/ thread'[t] = Idle
           \/ thread'[t].number = thread[t].number /\ thread'[t].stage = "token"
    BY <1>1, OneThreadMoves DEF InsertUser
  <1>3. CASE users' = users
    BY <1>1, <1>2, <1>3, NumbersKept DEF NumbersInv
  <1>4. CASE users' = Append(users, [name |-> thread[t].name, password |-> thread[t].password])
    <2>1. Len(users') = Len(users) + 1
      BY <1>4 DEF AuthInv
    <2>2. thread[t].number \in Registering
      BY <1>1 DEF Registering
    <2>3. Registering' \subseteq Registering \ {thread[t].number}
      <3> SUFFICES ASSUME NEW u \in Threads, thread'[u].stage \in {"register", "insert"}
                   PROVE  thread'[u].number \in Registering \ {thread[t].number}
        BY DEF Registering
      <3>1. u # t /\ thread'[u] = thread[u] /\ thread[u] # Idle
        BY <1>2 DEF Idle
      <3>2. thread[u].number # thread[t].number
        BY <1>1, <3>1 DEF NumbersInv
      <3>3. thread[u].number \in Registering
        BY <3>1 DEF Registering
      <3> QED
        BY <3>1, <3>2, <3>3
    <2>4. /\ Cardinality(Registering') <= Cardinality(Registering) - 1
          /\ Cardinality(Registering') \in Nat
      <3>1. IsFiniteSet(Registering) /\ Cardinality(Registering) \in Nat
        BY RegisteringType
      <3>2. /\ IsFiniteSet(Registering \ {thread[t].number})
            /\ Cardinality(Registering \ {thread[t].number}) = Cardinality(Registering) - 1
        BY <2>2, <3>1, FS_RemoveElement
      <3> QED
        BY <2>3, <3>2, FS_Subset, FS_CardinalityType
    <2>5. Len(users') + Cardinality(Registering') <= requests'
      BY <1>1, <2>1, <2>4, RegisteringType DEF NumbersInv
    <2>6. \A u \in Threads : thread'[u] # Idle =>
             thread[u] # Idle /\ thread'[u].number = thread[u].number
      BY <1>1, <1>2
    <2> QED
      BY <1>1, <2>5, <2>6 DEF NumbersInv
  <1> QED
    BY <1>3, <1>4 DEF InsertUser

\* Up to the token a handler keeps its number.
LEMMA HandlerNumbers ==
    ASSUME AuthInv, NumbersInv, NEW t \in Threads,
           LookForName(t) \/ LoginUser(t) \/ QueryFails(t)
    PROVE  NumbersInv'
  <1>1. /\ thread[t].stage \in {"register", "login"} /\ thread[t].stage # "idle"
        /\ requests' = requests /\ tokens' = tokens /\ users' = users
    BY DEF LookForName, LoginUser, QueryFails
  <1>2. \/ Finish(t)
        \/ GoTo(t, "insert") /\ thread[t].stage = "register"
        \/ GoTo(t, "token")
    BY DEF LookForName, LoginUser, QueryFails
  <1>3. /\ thread[t] # Idle
        /\ \A u \in Threads \ {t} : thread'[u] = thread[u]
        /\ \/ thread'[t] = Idle
           \/ /\ thread'[t].number = thread[t].number
              /\ \/ thread'[t].stage = "insert" /\ thread[t].stage = "register"
                 \/ thread'[t].stage = "token"
    BY <1>1, <1>2, OneThreadMoves
  <1> QED
    BY <1>1, <1>3, NumbersKept DEF NumbersInv

\* With the token the number passes from the handler to the table.
LEMMA EnterTokenNumbers ==
    ASSUME AuthInv, NumbersInv, NEW t \in Threads, EnterToken(t)
    PROVE  NumbersInv'
  <1>1. /\ thread[t].stage = "token" /\ thread[t] # Idle /\ thread[t] \in Handlers
        /\ requests' = requests /\ users' = users
        /\ tokens' = tokens \cup {TokenOf(thread[t])}
    BY UnderWay DEF EnterToken, AuthInv, Idle
  <1>2. TokenOf(thread[t]) \in [name : Names, by : Passwords, number : 1 .. requests]
        /\ TokenOf(thread[t]).number = thread[t].number
    BY <1>1 DEF TokenOf, Handlers, NumbersInv
  <1>3. thread'[t] = Idle /\ \A u \in Threads \ {t} : thread'[u] = thread[u]
    BY DEF EnterToken, Finish, AuthInv
  <1>4. \A u \in Threads : thread'[u] # Idle =>
           \A token \in tokens' : token.number # thread[u].number
    BY <1>1, <1>2, <1>3 DEF NumbersInv
  <1> QED
    BY <1>1, <1>2, <1>3, <1>4, NumbersKept DEF NumbersInv

\* Nothing else hands out or doubles a number.
LEMMA OtherNumbers ==
    ASSUME AuthInv, NumbersInv,
           \/ \E ip \in Addresses : BadRequest(ip)
           \/ \E token \in tokens : Logout(token)
           \/ Tick /\ UNCHANGED <<users, tokens, thread, requests>>
           \/ Restart
           \/ UNCHANGED vars
    PROVE  NumbersInv'
  <1>1. users' = users /\ requests' = requests /\ tokens' \subseteq tokens
    BY DEF BadRequest, Logout, Restart, vars
  <1>2. \A t \in Threads : thread'[t] # Idle => thread'[t] = thread[t]
    BY DEF BadRequest, Logout, Restart, vars
  <1> QED
    BY <1>1, <1>2, NumbersKept DEF NumbersInv

\* The rows, tokens and handlers are what TypeOK says: every row and every token
\* is owed to a request of its own, and a token under way is not in the table.
THEOREM AuthTypes == Spec => []TypeOK
  <1>1. Init => NumbersInv
    <2> SUFFICES ASSUME Init PROVE NumbersInv
      OBVIOUS
    <2>1. Registering = {}
      BY DEF Init, Registering, Idle
    <2> QED
      BY <2>1, FS_EmptySet DEF Init, NumbersInv
  <1>2. AuthInv /\ NumbersInv /\ [Next]_vars => NumbersInv'
    BY RequestNumbers, InsertNumbers, HandlerNumbers, EnterTokenNumbers, OtherNumbers DEF Next
  <1>3. LimiterInv /\ AuthInv /\ NumbersInv => TypeOK
    <2> SUFFICES ASSUME LimiterInv, AuthInv, NumbersInv PROVE TypeOK
      OBVIOUS
    <2>1. Len(users) <= requests
      BY RegisteringType DEF NumbersInv
    <2> QED
      BY <2>1 DEF TypeOK, LimiterInv, AuthInv, NumbersInv
  <1> QED
    BY <1>1, <1>2, <1>3, AuthInvariant, LimiterInvariant, PTL DEF Spec
=============================================================================
