----------------------------- MODULE RateLimit ------------------------------
(***************************************************************************)
(* How often one key is hit, counted in Redis or, when Redis fails, in a   *)
(* map of the process.  Both count fixed windows: the first hit starts     *)
(* one, and the counter disappears when it ends.  The API server           *)
(* (RateLimitService) never goes back to a Redis that failed; the web      *)
(* server, which limits uploads with a copy of the same code, connects     *)
(* anew at the next hit.                                                   *)
(*                                                                         *)
(* hitRedis is three commands, INCR, EXPIRE and TTL, between which other   *)
(* requests, the end of the window, a failure of Redis or a restart of the *)
(* process may come.  hitMemory runs without interruption.  Counts above   *)
(* Limit are all alike to the code and saturate at Limit + 1.              *)
(***************************************************************************)
EXTENDS Naturals, FiniteSets

CONSTANTS
  Requests,      \* requests in flight at once
  Limit,         \* hits allowed in a window
  Window,        \* its length
  MaxClock,      \* bound: how long a behaviour lasts
  MaxRestarts,   \* bound: restarts of the process
  MaxLosses,     \* bound: times Redis fails and forgets its keys
  MaxResends,    \* bound: commands the client sends twice
  MaxReconnects  \* bound: connections and restarts of the web server

ASSUME RequestsFinite == IsFiniteSet(Requests)
ASSUME LimitType == Limit \in Nat \ {0}
ASSUME WindowType == Window \in Nat \ {0}
ASSUME BoundsType ==
  /\ MaxClock \in Nat /\ MaxRestarts \in Nat /\ MaxLosses \in Nat
  /\ MaxResends \in Nat /\ MaxReconnects \in Nat

VARIABLES
  webServer,       \* which of the two servers it is
  clock,
  redisUp,         \* Redis answers
  redisAvailable,  \* the process believes so
  redisCount,      \* the counter's value in Redis, 0 when there is none
  redisExpiresAt,  \* when Redis deletes it, 0 for a counter without expiry
  bucketCount,     \* the counter's value in memory, 0 when there is none
  bucketExpiresAt,
  stage,           \* the command each request is about to send
  hitCount,        \* what its INCR returned
  hitAt,           \* when it was counted
  orphans,         \* requests whose client another request has disconnected
  admitted,        \* history: requests let through, of those counted in the Window units
                   \* of time that start at each moment
  restarts, losses,             \* history: how often counting started anew,
  failovers,                    \* and how often the API server gave Redis up
  resends,                      \* history: commands sent twice
  reconnects                    \* history: connections of the web server

redisVars == <<redisCount, redisExpiresAt>>
memoryVars == <<bucketCount, bucketExpiresAt>>
requestVars == <<stage, hitCount, hitAt, orphans>>
connectVars == <<webServer, reconnects>>
historyVars == <<restarts, losses, failovers, resends, connectVars>>
vars == <<clock, redisUp, redisAvailable, redisVars, memoryVars, requestVars, admitted,
          historyVars>>

Times == 0 .. MaxClock

TypeOK ==
  /\ webServer \in BOOLEAN
  /\ clock \in Times
  /\ redisUp \in BOOLEAN
  /\ redisAvailable \in BOOLEAN
  /\ redisCount \in 0 .. Limit + 1
  /\ redisExpiresAt \in 0 .. MaxClock + Window
  /\ bucketCount \in 0 .. Limit + 1
  /\ bucketExpiresAt \in 0 .. MaxClock + Window
  /\ stage \in [Requests -> {"idle", "incr", "expire", "ttl"}]
  /\ hitCount \in [Requests -> 0 .. Limit + 1]
  /\ hitAt \in [Requests -> Times]
  /\ orphans \subseteq Requests
  /\ admitted \in [Times -> Nat]
  /\ restarts \in 0 .. MaxRestarts
  /\ losses \in 0 .. MaxLosses
  /\ failovers \in 0 .. MaxRestarts + 1
  /\ resends \in 0 .. MaxResends
  /\ reconnects \in 0 .. MaxReconnects

\* The API server connects to Redis when it starts, the web server with its first hit.
Init ==
  /\ webServer \in BOOLEAN
  /\ clock = 0
  /\ redisUp \in BOOLEAN
  /\ redisAvailable = (redisUp /\ ~webServer)
  /\ redisCount = 0 /\ redisExpiresAt = 0
  /\ bucketCount = 0 /\ bucketExpiresAt = 0
  /\ stage = [r \in Requests |-> "idle"]
  /\ hitCount = [r \in Requests |-> 0]
  /\ hitAt = [r \in Requests |-> 0]
  /\ orphans = {}
  /\ admitted = [t \in Times |-> 0]
  /\ restarts = 0 /\ losses = 0 /\ failovers = 0 /\ resends = 0 /\ reconnects = 0

CountHit(n) == IF n > Limit THEN n ELSE n + 1

\* A request counted at u is let through.
Admit(n, u) ==
  admitted' = IF n <= Limit
              THEN [t \in Times |-> IF t <= u /\ u < t + Window THEN admitted[t] + 1
                                                               ELSE admitted[t]]
              ELSE admitted

SetStage(r, s) == stage' = [stage EXCEPT ![r] = s]

\* The request is answered and its locals are gone.
Done(r) ==
  /\ SetStage(r, "idle")
  /\ hitCount' = [hitCount EXCEPT ![r] = 0]
  /\ hitAt' = [hitAt EXCEPT ![r] = 0]
  /\ orphans' = orphans \ {r}

-----------------------------------------------------------------------------
(* In memory                                                                 *)

\* Fault: the window is taken in milliseconds where the clock counts seconds.
HitMemoryWrongUnit ==
  LET fresh == bucketCount = 0 \/ bucketExpiresAt <= clock
      n     == IF fresh THEN 1 ELSE CountHit(bucketCount)
  IN /\ bucketCount' = n
     /\ bucketExpiresAt' = IF fresh THEN clock + 1000 * Window ELSE bucketExpiresAt
     /\ Admit(n, clock)

\* Fault: every hit starts a window of its own.
HitMemoryForgets ==
  /\ bucketCount' = 1
  /\ bucketExpiresAt' = clock + Window
  /\ Admit(1, clock)

HitMemory ==
  LET fresh == bucketCount = 0 \/ bucketExpiresAt <= clock
      n     == IF fresh THEN 1 ELSE CountHit(bucketCount)
  IN /\ bucketCount' = n
     /\ bucketExpiresAt' = IF fresh THEN clock + Window ELSE bucketExpiresAt
     /\ Admit(n, clock)

\* A hit of another key prunes a full map: buckets whose window has ended go.
PruneMemory ==
  /\ bucketCount > 0
  /\ bucketExpiresAt <= clock
  /\ bucketCount' = 0
  /\ bucketExpiresAt' = 0
  /\ UNCHANGED <<clock, redisUp, redisAvailable, redisVars, requestVars, admitted,
                 historyVars>>

-----------------------------------------------------------------------------
(* In Redis                                                                  *)

Connected(r) == redisUp /\ r \notin orphans

\* hit: what the process believes of Redis decides where the request is counted.
Hit(r) ==
  /\ stage[r] = "idle"
  /\ \/ /\ redisAvailable
        /\ SetStage(r, "incr")
        /\ UNCHANGED <<memoryVars, admitted>>
     \/ /\ ~redisAvailable /\ ~webServer
        /\ HitMemory
        /\ UNCHANGED stage
  /\ UNCHANGED <<clock, redisUp, redisAvailable, redisVars, hitCount, hitAt, orphans,
                 historyVars>>

\* getRedisClient of the web server: the old client is disconnected, and whoever still waits
\* for an answer of it with it, before a new one connects or fails to.
Reconnect(r) ==
  /\ webServer /\ ~redisAvailable /\ stage[r] = "idle"
  /\ orphans' = {q \in Requests : stage[q] # "idle"}
  /\ \/ /\ redisUp /\ reconnects + restarts < MaxReconnects
        /\ redisAvailable' = TRUE
        /\ reconnects' = reconnects + 1
        /\ SetStage(r, "incr")
        /\ UNCHANGED <<memoryVars, admitted>>
     \/ /\ ~redisUp
        /\ HitMemory
        /\ UNCHANGED <<redisAvailable, reconnects, stage>>
  /\ UNCHANGED <<webServer, clock, redisUp, redisVars, hitCount, hitAt, restarts, losses,
                 failovers, resends>>

\* Fault: only hits after the first set the end of the window.
IncrNeverExpires(r) ==
  /\ stage[r] = "incr"
  /\ Connected(r)
  /\ redisCount' = CountHit(redisCount)
  /\ hitCount' = [hitCount EXCEPT ![r] = redisCount']
  /\ hitAt' = [hitAt EXCEPT ![r] = clock]
  /\ SetStage(r, IF redisCount' = 2 THEN "expire" ELSE "ttl")
  /\ UNCHANGED <<clock, redisUp, redisAvailable, redisExpiresAt, memoryVars, orphans,
                 admitted, historyVars>>

\* The first hit of a window goes on to set its end.
Incr(r) ==
  /\ stage[r] = "incr"
  /\ Connected(r)
  /\ redisCount' = CountHit(redisCount)
  /\ hitCount' = [hitCount EXCEPT ![r] = redisCount']
  /\ hitAt' = [hitAt EXCEPT ![r] = clock]
  /\ SetStage(r, IF redisCount' = 1 THEN "expire" ELSE "ttl")
  /\ UNCHANGED <<clock, redisUp, redisAvailable, redisExpiresAt, memoryVars, orphans,
                 admitted, historyVars>>

\* The connection breaks after INCR was executed: its answer is lost and, with one retry per
\* request, the client sends it again over the next connection.
IncrSentAgain(r) ==
  /\ stage[r] = "incr"
  /\ Connected(r)
  /\ resends < MaxResends
  /\ resends' = resends + 1
  /\ redisCount' = CountHit(redisCount)
  /\ UNCHANGED <<clock, redisUp, redisAvailable, redisExpiresAt, memoryVars, requestVars,
                 admitted, restarts, losses, failovers, connectVars>>

\* EXPIRE of a counter Redis has lost meanwhile does nothing.
Expire(r) ==
  /\ stage[r] = "expire"
  /\ Connected(r)
  /\ redisExpiresAt' = IF redisCount > 0 THEN clock + Window ELSE redisExpiresAt
  /\ SetStage(r, "ttl")
  /\ UNCHANGED <<clock, redisUp, redisAvailable, redisCount, memoryVars, hitCount, hitAt,
                 orphans, admitted, historyVars>>

\* TTL only words the answer, which is the one INCR decided.
Answer(r) ==
  /\ stage[r] = "ttl"
  /\ Connected(r)
  /\ Admit(hitCount[r], hitAt[r])
  /\ Done(r)
  /\ UNCHANGED <<clock, redisUp, redisAvailable, redisVars, memoryVars, historyVars>>

StopUsingRedis ==
  /\ redisAvailable' = FALSE
  /\ failovers' = IF redisAvailable /\ ~webServer THEN failovers + 1 ELSE failovers

\* A command fails: the request is counted in memory, and so are all later ones of the API
\* server.  In the web server a request with an old client gives the new one up.
RedisCommandFails(r) ==
  /\ stage[r] # "idle"
  /\ ~Connected(r)
  /\ StopUsingRedis
  /\ HitMemory
  /\ Done(r)
  /\ UNCHANGED <<clock, redisUp, redisVars, restarts, losses, resends, connectVars>>

\* The connection reports an error.
RedisErrorEvent ==
  /\ ~redisUp
  /\ redisAvailable
  /\ StopUsingRedis
  /\ UNCHANGED <<clock, redisUp, redisVars, memoryVars, requestVars, admitted, restarts,
                 losses, resends, connectVars>>

-----------------------------------------------------------------------------
(* Around the service                                                        *)

\* Redis deletes a counter when its time has come.
Tick ==
  /\ clock < MaxClock
  /\ clock' = clock + 1
  /\ IF redisExpiresAt # 0 /\ redisExpiresAt <= clock'
     THEN redisCount' = 0 /\ redisExpiresAt' = 0
     ELSE UNCHANGED redisVars
  /\ UNCHANGED <<redisUp, redisAvailable, memoryVars, requestVars, admitted, historyVars>>

\* External: Redis becomes unreachable, keeping its keys or losing them, and comes back.
RedisGoesDown ==
  /\ redisUp
  /\ redisUp' = FALSE
  /\ \/ UNCHANGED <<redisVars, losses>>
     \/ /\ redisCount > 0 /\ losses < MaxLosses
        /\ losses' = losses + 1
        /\ redisCount' = 0
        /\ redisExpiresAt' = 0
  /\ UNCHANGED <<clock, redisAvailable, memoryVars, requestVars, admitted, restarts,
                 failovers, resends, connectVars>>

RedisComesBack ==
  /\ ~redisUp
  /\ redisUp' = TRUE
  /\ UNCHANGED <<clock, redisAvailable, redisVars, memoryVars, requestVars, admitted,
                 historyVars>>

\* The process restarts: requests in flight die, the map is empty, Redis is tried again.
Restart ==
  /\ restarts < MaxRestarts
  /\ restarts' = restarts + 1
  /\ redisAvailable' = (redisUp /\ ~webServer)
  /\ bucketCount' = 0
  /\ bucketExpiresAt' = 0
  /\ stage' = [r \in Requests |-> "idle"]
  /\ hitCount' = [r \in Requests |-> 0]
  /\ hitAt' = [r \in Requests |-> 0]
  /\ orphans' = {}
  /\ UNCHANGED <<clock, redisUp, redisVars, admitted, losses, failovers, resends,
                 connectVars>>

Next ==
  \/ \E r \in Requests :
       \/ Hit(r)
       \/ Reconnect(r)
       \/ Incr(r)
       \/ IncrSentAgain(r)
       \/ Expire(r)
       \/ Answer(r)
       \/ RedisCommandFails(r)
  \/ PruneMemory
  \/ RedisErrorEvent
  \/ Tick
  \/ RedisGoesDown
  \/ RedisComesBack
  \/ Restart

Spec == Init /\ [][Next]_vars

-----------------------------------------------------------------------------

\* However hits fall, a stretch of time as long as a window sees at most the end of one
\* window of a counter, without the hit that started it, and the whole of the next; one
\* window more for every time counting started anew: a restart, or a loss of the counter in
\* Redis.  The web server counts in two places, and so twice as many however often it goes
\* from one to the other; so does an API server that has given Redis up, whose requests
\* under way at that moment may still be counted there.
AdmissionsBounded ==
  \A t \in Times :
    admitted[t] <=
      (IF webServer \/ failovers > 0 THEN 4 * Limit - 2 ELSE 2 * Limit - 1)
        + (restarts + losses) * Limit

\* Until the API server restarts or a lost INCR is sent again, a counter in Redis that it
\* still consults always gets an end: it has one, or the request that started it is about
\* to set it.
CounterEnds ==
  /\ ~webServer /\ restarts = 0 /\ resends = 0
  /\ redisAvailable /\ redisCount > 0 /\ redisExpiresAt = 0
  => \E r \in Requests : stage[r] = "expire"
=============================================================================
