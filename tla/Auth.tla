-------------------------------- MODULE Auth --------------------------------
(***************************************************************************)
(* AuthHandler over the users table, behind the limiter.  The server runs  *)
(* on several threads and these handlers hold the mutex of m_tokens only   *)
(* for the access to it: between looking for a name, inserting the row and *)
(* entering the token others come in.  Two tokens are never the same.      *)
(***************************************************************************)
EXTENDS RateLimiter, Sequences

CONSTANTS
    Threads,
    Names,         \* those the pattern of registerUser accepts
    Passwords,
    NoPassword,    \* the empty one
    MaxRequests    \* bound: well-formed requests to register or to log in

ASSUME AuthAssumption ==
    /\ NoPassword \in Passwords
    /\ MaxRequests \in Nat

VARIABLES
    users,     \* the rows of users, by id: name and password
    tokens,    \* m_tokens; number and by are observations: the request it was
               \* given to, and the password that came with it
    thread,    \* per thread, the handler under way, Idle if there is none
    requests   \* well-formed requests so far

vars == <<limiter, users, tokens, thread, requests>>

Idle == [stage |-> "idle"]

\* What a request knows, and where its handler is.
Handlers == [stage : {"register", "insert", "login", "token"},
             name : Names, password : Passwords, number : 1 .. MaxRequests]

TypeOK ==
    /\ LimiterTypeOK
    /\ users \in Seq([name : Names, password : Passwords])
    /\ Len(users) <= requests
    /\ tokens \subseteq [name : Names, by : Passwords, number : 1 .. requests]
    /\ thread \in [Threads -> Handlers \cup {Idle}]
    /\ requests \in 0 .. MaxRequests
    /\ \A t \in Threads : thread[t] # Idle =>
          \A token \in tokens : token.number # thread[t].number

Init ==
    /\ LimiterInit
    /\ users = <<>>
    /\ tokens = {}
    /\ thread = [t \in Threads |-> Idle]
    /\ requests = 0

-----------------------------------------------------------------------------
Registered(n) == \E id \in DOMAIN users : users[id].name = n

Finish(t) == thread' = [thread EXCEPT ![t] = Idle]
GoTo(t, stage) == thread' = [thread EXCEPT ![t].stage = stage]

\* The routes of registration and login ask the limiter first.
Request(t, stage, n, p, ip) ==
    /\ thread[t] = Idle
    /\ requests < MaxRequests
    /\ requests' = requests + 1
    /\ AllowRequest(ip)
    /\ IF Allowed(ip)
       THEN thread' = [thread EXCEPT ![t] =
               [stage |-> stage, name |-> n, password |-> p, number |-> requests']]
       ELSE UNCHANGED thread
    /\ UNCHANGED <<users, tokens>>

\* A body or a name that is refused has cost a token already.
BadRequest(ip) ==
    /\ AllowRequest(ip)
    /\ UNCHANGED <<users, tokens, thread, requests>>

\* registerUser, as far as the insert.
LookForName(t) ==
    /\ thread[t].stage = "register"
    /\ IF Registered(thread[t].name) THEN Finish(t) ELSE GoTo(t, "insert")
    /\ UNCHANGED <<limiter, users, tokens, requests>>

\* Variants: the column is not unique; a row that cannot be inserted counts as
\* registered.
InsertNextRow(t) ==
    /\ thread[t].stage = "insert"
    /\ users' = Append(users, [name |-> thread[t].name, password |-> thread[t].password])
    /\ GoTo(t, "token")
    /\ UNCHANGED <<limiter, tokens, requests>>

InsertOrGoOn(t) ==
    /\ thread[t].stage = "insert"
    /\ IF Registered(thread[t].name)
       THEN UNCHANGED users
       ELSE users' = Append(users, [name |-> thread[t].name, password |-> thread[t].password])
    /\ GoTo(t, "token")
    /\ UNCHANGED <<limiter, tokens, requests>>

\* The insert throws if the name has a row by now, or for any other reason, and
\* registerUser returns false.
InsertUser(t) ==
    /\ thread[t].stage = "insert"
    /\ \/ /\ ~Registered(thread[t].name)
          /\ users' = Append(users, [name |-> thread[t].name, password |-> thread[t].password])
          /\ GoTo(t, "token")
       \/ UNCHANGED users /\ Finish(t)
    /\ UNCHANGED <<limiter, tokens, requests>>

\* A row without a password lets every password pass.
LoginUser(t) ==
    /\ thread[t].stage = "login"
    /\ IF \E id \in DOMAIN users :
            /\ users[id].name = thread[t].name
            /\ users[id].password \in {NoPassword, thread[t].password}
       THEN GoTo(t, "token")
       ELSE Finish(t)
    /\ UNCHANGED <<limiter, users, tokens, requests>>

\* A query throws: the server answers 500.
QueryFails(t) ==
    /\ thread[t].stage \in {"register", "login"}
    /\ Finish(t)
    /\ UNCHANGED <<limiter, users, tokens, requests>>

TokenOf(h) == [name |-> h.name, by |-> h.password, number |-> h.number]

\* Variant: the handler goes on.
EnterTokenOnly(t) ==
    /\ thread[t].stage = "token"
    /\ tokens' = tokens \cup {TokenOf(thread[t])}
    /\ UNCHANGED <<limiter, users, thread, requests>>

EnterToken(t) ==
    /\ thread[t].stage = "token"
    /\ tokens' = tokens \cup {TokenOf(thread[t])}
    /\ Finish(t)
    /\ UNCHANGED <<limiter, users, requests>>

Logout(token) ==
    /\ token \in tokens
    /\ tokens' = tokens \ {token}
    /\ UNCHANGED <<limiter, users, thread, requests>>

\* Users stay, whatever was held in memory is gone.
Restart ==
    /\ thread' = [t \in Threads |-> Idle]
    /\ tokens' = {}
    /\ ForgetLimits
    /\ UNCHANGED <<users, requests>>

Next ==
    \/ \E t \in Threads, stage \in {"register", "login"}, n \in Names,
          p \in Passwords, ip \in Addresses : Request(t, stage, n, p, ip)
    \/ \E ip \in Addresses : BadRequest(ip)
    \/ \E t \in Threads :
          \/ LookForName(t)
          \/ InsertUser(t)
          \/ LoginUser(t)
          \/ QueryFails(t)
          \/ EnterToken(t)
    \/ \E token \in tokens : Logout(token)
    \/ Tick /\ UNCHANGED <<users, tokens, thread, requests>>
    \/ Restart

Spec == Init /\ [][Next]_vars

-----------------------------------------------------------------------------
\* Two registrations of one name that pass the check side by side leave one row:
\* the names of users are unique, as the profile and the statistics take them to be.
OneRowPerName ==
    \A i, j \in DOMAIN users : users[i].name = users[j].name => i = j

\* Whoever holds a token of a name came with the password of its row (or needs
\* none): a registration that was beaten to the name by another, with its own
\* password, ends without a token, also when it had found the name free.
TokensAreEarned ==
    \A token \in tokens : \E id \in DOMAIN users :
        /\ users[id].name = token.name
        /\ users[id].password \in {NoPassword, token.by}
=============================================================================
