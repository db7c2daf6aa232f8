---------------------------- MODULE RateLimiter ----------------------------
(***************************************************************************)
(* The limiter of the routes of authentication: every address spends       *)
(* tokens, and a request that comes when the interval has passed since the *)
(* last refill first refills them.  AllowRequest holds the mutex.  Time is *)
(* kept as ages: of a refill as far as RefillInterval, where the code asks *)
(* no further.  An address that is not in the table yet is treated as one  *)
(* whose interval has passed.  The table is memory of the process; what    *)
(* was observed is not.                                                    *)
(***************************************************************************)
EXTENDS Integers, Functions

CONSTANTS
    Addresses,
    MaxTokens,       \* m_maxTokens (5); refillRate is not read
    RefillInterval,  \* m_refillInterval (60 s), in ticks
    MaxRestarts      \* bound: restarts of the server within an interval

ASSUME LimiterAssumption ==
    /\ MaxTokens \in Nat \ {0}
    /\ RefillInterval \in Nat \ {0}
    /\ MaxRestarts \in Nat

VARIABLES
    limits,    \* m_limits: tokens, and the age of lastRefill
    passed,    \* observation: requests let through, by their age
    refused,   \* observation: whether one was refused in this tick
    restarts   \* observation: restarts of the server, by their age

limiter == <<limits, passed, refused, restarts>>

Recent == 0 .. (RefillInterval - 1)

LimiterTypeOK ==
    /\ limits \in [Addresses -> [tokens : 0 .. MaxTokens, age : 0 .. RefillInterval]]
    /\ passed \in [Addresses -> [Recent -> Nat]]
    /\ refused \in [Addresses -> BOOLEAN]
    /\ restarts \in [Recent -> Nat]

Untouched == [ip \in Addresses |-> [tokens |-> MaxTokens, age |-> RefillInterval]]

LimiterInit ==
    /\ limits = Untouched
    /\ passed = [ip \in Addresses |-> [a \in Recent |-> 0]]
    /\ refused = [ip \in Addresses |-> FALSE]
    /\ restarts = [a \in Recent |-> 0]

\* Variant: lastRefill is not set.
RefilledOnly(entry) ==
    IF entry.age >= RefillInterval THEN [entry EXCEPT !.tokens = MaxTokens] ELSE entry

Refilled(entry) ==
    IF entry.age >= RefillInterval THEN [tokens |-> MaxTokens, age |-> 0] ELSE entry

\* Variant: who is refused has to wait for the whole interval again.
SpentOrPunished(entry) ==
    IF entry.tokens > 0 THEN [entry EXCEPT !.tokens = @ - 1] ELSE [entry EXCEPT !.age = 0]

Spent(entry) == IF entry.tokens > 0 THEN [entry EXCEPT !.tokens = @ - 1] ELSE entry

\* The result of AllowRequest, and what it does to the table.
Allowed(ip) == Refilled(limits[ip]).tokens > 0

AllowRequest(ip) ==
    /\ limits' = [limits EXCEPT ![ip] = Spent(Refilled(@))]
    /\ IF Allowed(ip)
       THEN passed' = [passed EXCEPT ![ip][0] = @ + 1] /\ UNCHANGED refused
       ELSE refused' = [refused EXCEPT ![ip] = TRUE] /\ UNCHANGED passed
    /\ UNCHANGED restarts

\* The table is lost with the process.
ForgetLimits ==
    /\ SumFunction(restarts) < MaxRestarts
    /\ limits' = Untouched
    /\ restarts' = [restarts EXCEPT ![0] = @ + 1]
    /\ UNCHANGED <<passed, refused>>

\* What was counted by age, a tick later.
Older(count) == [a \in Recent |-> IF a = 0 THEN 0 ELSE count[a - 1]]

Tick ==
    /\ limits' = [ip \in Addresses |->
          [limits[ip] EXCEPT !.age = IF @ < RefillInterval THEN @ + 1 ELSE @]]
    /\ passed' = [ip \in Addresses |-> Older(passed[ip])]
    /\ refused' = [ip \in Addresses |-> FALSE]
    /\ restarts' = Older(restarts)

-----------------------------------------------------------------------------
PassedRecently(ip) == SumFunction(passed[ip])

\* The tokens of two intervals can be spent close to each other, all but the one
\* whose request made the first refill: of an address, fewer than twice MaxTokens
\* requests are let through in any span of one interval in which the server runs
\* on, and every restart within the span adds at most MaxTokens.
SlidingLimit ==
    \A ip \in Addresses :
        PassedRecently(ip) < MaxTokens * (2 + SumFunction(restarts))

\* Nobody is refused who has not had MaxTokens requests let through within the
\* last interval, in this life of the server or before: being refused does not
\* prolong the wait.
RefusedOnlyWhenBusy ==
    \A ip \in Addresses : refused[ip] => PassedRecently(ip) >= MaxTokens
=============================================================================
