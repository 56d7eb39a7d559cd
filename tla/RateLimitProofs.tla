-------------------------- MODULE RateLimitProofs ---------------------------
(***************************************************************************)
(* Two promises of the rate limit, whatever the limit, the window and the  *)
(* number of requests: until a restart, no counter in Redis the process    *)
(* consults lives for ever, so that whoever is refused is let through      *)
(* again; and a stretch of time as long as a window lets through no more   *)
(* than AdmissionsBounded says, through failovers, losses of the counter,  *)
(* restarts and commands sent twice.                                       *)
(***************************************************************************)
EXTENDS RateLimit, FiniteSetTheorems, TLAPS

\* The API server gives Redis up at most once per life: it never goes back.
OneFailoverPerLife ==
  /\ failovers <= restarts + 1
  /\ redisAvailable /\ ~webServer => failovers <= restarts

\* Counting a hit stays within the counts the code tells apart.
LEMMA CountHitType ==
  ASSUME NEW n \in 0 .. Limit + 1
  PROVE  CountHit(n) \in 1 .. Limit + 1
BY LimitType DEF CountHit

\* Letting a request through keeps the history typed.
LEMMA AdmitType ==
  ASSUME TypeOK, NEW n, NEW t \in Times, Admit(n, t)
  PROVE  admitted' \in [Times -> Nat]
BY DEF TypeOK, Admit

\* A hit counted in memory keeps the bucket and the history typed.
LEMMA HitMemoryType ==
  ASSUME TypeOK, HitMemory
  PROVE  /\ bucketCount' \in 0 .. Limit + 1
         /\ bucketExpiresAt' \in 0 .. MaxClock + Window
         /\ admitted' \in [Times -> Nat]
<1>1. clock + Window \in 0 .. MaxClock + Window /\ clock \in Times
  BY WindowType, BoundsType DEF TypeOK, Times
<1>2. PICK n \in 1 .. Limit + 1 : bucketCount' = n /\ Admit(n, clock)
  BY LimitType, CountHitType DEF TypeOK, HitMemory
<1> QED BY <1>1, <1>2, AdmitType, LimitType DEF TypeOK, HitMemory

\* Giving Redis up is counted, and happens at most once per life.
LEMMA StopUsingRedisType ==
  ASSUME TypeOK, OneFailoverPerLife, StopUsingRedis, restarts' = restarts,
         webServer' = webServer
  PROVE  /\ redisAvailable' = FALSE
         /\ failovers' \in 0 .. MaxRestarts + 1
         /\ OneFailoverPerLife'
<1>1. CASE redisAvailable /\ ~webServer
  <2>1. failovers' = failovers + 1 /\ redisAvailable' = FALSE
    BY <1>1 DEF StopUsingRedis
  <2> QED BY <1>1, <2>1, BoundsType DEF TypeOK, OneFailoverPerLife
<1>2. CASE ~redisAvailable \/ webServer
  <2>1. failovers' = failovers /\ redisAvailable' = FALSE
    BY <1>2 DEF StopUsingRedis
  <2> QED BY <2>1, BoundsType DEF TypeOK, OneFailoverPerLife
<1> QED BY <1>1, <1>2

\* A request's own variables stay typed when it moves to another stage or is done.
LEMMA StageType ==
  ASSUME TypeOK, NEW r \in Requests, NEW s \in {"idle", "incr", "expire", "ttl"},
         SetStage(r, s)
  PROVE  stage' \in [Requests -> {"idle", "incr", "expire", "ttl"}]
BY DEF TypeOK, SetStage

\* An answered request's variables stay typed.
LEMMA DoneType ==
  ASSUME TypeOK, NEW r \in Requests, Done(r)
  PROVE  /\ stage' \in [Requests -> {"idle", "incr", "expire", "ttl"}]
         /\ hitCount' \in [Requests -> 0 .. Limit + 1]
         /\ hitAt' \in [Requests -> Times]
         /\ orphans' \subseteq Requests
BY LimitType, BoundsType DEF TypeOK, Done, SetStage, Times

\* The service starts typed and no step takes it out of its types.
LEMMA RateLimitTyped == Spec => [](TypeOK /\ OneFailoverPerLife)
<1>1. Init => TypeOK /\ OneFailoverPerLife
  BY LimitType, WindowType, BoundsType DEF Init, TypeOK, OneFailoverPerLife, Times
<1>2. ASSUME TypeOK, OneFailoverPerLife, [Next]_vars
      PROVE  TypeOK' /\ OneFailoverPerLife'
  <2> USE LimitType, WindowType, BoundsType
      DEF redisVars, memoryVars, requestVars, historyVars, connectVars
  <2>1. ASSUME NEW r \in Requests, Hit(r)
        PROVE  TypeOK' /\ OneFailoverPerLife'
    <3>1. stage' \in [Requests -> {"idle", "incr", "expire", "ttl"}]
      BY <1>2, <2>1, StageType DEF Hit, TypeOK
    <3>2. /\ bucketCount' \in 0 .. Limit + 1
          /\ bucketExpiresAt' \in 0 .. MaxClock + Window
          /\ admitted' \in [Times -> Nat]
      BY <1>2, <2>1, HitMemoryType DEF Hit, TypeOK
    <3> QED BY <1>2, <2>1, <3>1, <3>2 DEF Hit, TypeOK, OneFailoverPerLife
  <2>10. ASSUME NEW r \in Requests, Reconnect(r)
         PROVE  TypeOK' /\ OneFailoverPerLife'
    <3>1. stage' \in [Requests -> {"idle", "incr", "expire", "ttl"}]
      BY <1>2, <2>10, StageType DEF Reconnect, TypeOK
    <3>2. /\ bucketCount' \in 0 .. Limit + 1
          /\ bucketExpiresAt' \in 0 .. MaxClock + Window
          /\ admitted' \in [Times -> Nat]
      BY <1>2, <2>10, HitMemoryType DEF Reconnect, TypeOK
    <3>3. redisAvailable' \in BOOLEAN
      BY <1>2, <2>10 DEF Reconnect, TypeOK
    <3>5. reconnects' \in 0 .. MaxReconnects
      <4>1. \/ reconnects + restarts < MaxReconnects /\ reconnects' = reconnects + 1
            \/ reconnects' = reconnects
        BY <2>10 DEF Reconnect
      <4> QED BY <1>2, <4>1 DEF TypeOK
    <3>4. orphans' \subseteq Requests
      BY <2>10 DEF Reconnect
    <3> QED BY <1>2, <2>10, <3>1, <3>2, <3>3, <3>4, <3>5
            DEF Reconnect, TypeOK, OneFailoverPerLife
  <2>2. ASSUME NEW r \in Requests, Incr(r)
        PROVE  TypeOK' /\ OneFailoverPerLife'
    <3>1. redisCount' \in 0 .. Limit + 1
      BY <1>2, <2>2, CountHitType DEF Incr, TypeOK
    <3>2. stage' \in [Requests -> {"idle", "incr", "expire", "ttl"}]
      BY <1>2, <2>2, StageType DEF Incr
    <3> QED BY <1>2, <2>2, <3>1, <3>2 DEF Incr, TypeOK, OneFailoverPerLife
  <2>3. ASSUME NEW r \in Requests, IncrSentAgain(r)
        PROVE  TypeOK' /\ OneFailoverPerLife'
    <3>1. redisCount' \in 0 .. Limit + 1
      BY <1>2, <2>3, CountHitType DEF IncrSentAgain, TypeOK
    <3> QED BY <1>2, <2>3, <3>1 DEF IncrSentAgain, TypeOK, OneFailoverPerLife
  <2>4. ASSUME NEW r \in Requests, Expire(r)
        PROVE  TypeOK' /\ OneFailoverPerLife'
    BY <1>2, <2>4, StageType DEF Expire, TypeOK, OneFailoverPerLife, Times
  <2>5. ASSUME NEW r \in Requests, Answer(r)
        PROVE  TypeOK' /\ OneFailoverPerLife'
    <3>1. admitted' \in [Times -> Nat]
      <4>1. hitAt[r] \in Times
        BY <1>2 DEF TypeOK
      <4> QED BY <1>2, <2>5, <4>1, AdmitType DEF Answer
    <3> QED BY <1>2, <2>5, <3>1, DoneType DEF Answer, TypeOK, OneFailoverPerLife
  <2>6. ASSUME NEW r \in Requests, RedisCommandFails(r)
        PROVE  TypeOK' /\ OneFailoverPerLife'
    <3>1. /\ bucketCount' \in 0 .. Limit + 1
          /\ bucketExpiresAt' \in 0 .. MaxClock + Window
          /\ admitted' \in [Times -> Nat]
      BY <1>2, <2>6, HitMemoryType DEF RedisCommandFails
    <3>2. redisAvailable' = FALSE /\ failovers' \in 0 .. MaxRestarts + 1 /\ OneFailoverPerLife'
      BY <1>2, <2>6, StopUsingRedisType DEF RedisCommandFails
    <3> QED BY <1>2, <2>6, <3>1, <3>2, DoneType DEF RedisCommandFails, TypeOK
  <2>7. CASE PruneMemory \/ RedisErrorEvent \/ Tick \/ RedisGoesDown \/ RedisComesBack
    <3>1. CASE Tick
      BY <1>2, <3>1 DEF Tick, TypeOK, OneFailoverPerLife, Times
    <3>2. CASE PruneMemory
      BY <1>2, <3>2 DEF PruneMemory, TypeOK, OneFailoverPerLife
    <3>3. CASE RedisErrorEvent
      <4>1. redisAvailable' = FALSE /\ failovers' \in 0 .. MaxRestarts + 1 /\ OneFailoverPerLife'
        BY <1>2, <3>3, StopUsingRedisType DEF RedisErrorEvent
      <4> QED BY <1>2, <3>3, <4>1 DEF RedisErrorEvent, TypeOK
    <3>4. CASE RedisGoesDown
      <4>1. redisCount' \in 0 .. Limit + 1 /\ redisExpiresAt' \in 0 .. MaxClock + Window
        BY <1>2, <3>4 DEF RedisGoesDown, TypeOK
      <4>2. losses' \in 0 .. MaxLosses
        BY <1>2, <3>4 DEF RedisGoesDown, TypeOK
      <4> QED BY <1>2, <3>4, <4>1, <4>2 DEF RedisGoesDown, TypeOK, OneFailoverPerLife
    <3>5. CASE RedisComesBack
      BY <1>2, <3>5 DEF RedisComesBack, TypeOK, OneFailoverPerLife
    <3> QED BY <2>7, <3>1, <3>2, <3>3, <3>4, <3>5
  <2>8. CASE Restart
    BY <1>2, <2>8 DEF Restart, TypeOK, OneFailoverPerLife, Times
  <2>9. CASE UNCHANGED vars
    BY <1>2, <2>9 DEF vars, TypeOK, OneFailoverPerLife
  <2> QED BY <1>2, <2>1, <2>2, <2>3, <2>4, <2>5, <2>6, <2>7, <2>8, <2>9,
        <2>10 DEF Next
<1> QED BY <1>1, <1>2, PTL DEF Spec

\* No interleaving of INCR and EXPIRE, failure of Redis or loss of its keys leaves the process
\* consulting a counter that never ends.
THEOREM CountersEnd == Spec => []CounterEnds
<1>1. Init => CounterEnds
  BY DEF Init, CounterEnds
<1>2. ASSUME TypeOK, CounterEnds, [Next]_vars
      PROVE  CounterEnds'
  <2> USE LimitType, WindowType, BoundsType
      DEF redisVars, memoryVars, requestVars, historyVars, connectVars
  <2>1. ASSUME NEW r \in Requests, Incr(r)
        PROVE  CounterEnds'
    <3>1. CASE redisCount' = 1
      BY <1>2, <2>1, <3>1 DEF Incr, SetStage, CounterEnds, TypeOK
    <3>2. CASE redisCount' # 1
      <4>1. redisCount > 0
        BY <1>2, <2>1, <3>2 DEF Incr, CountHit, TypeOK
      <4>2. SUFFICES ASSUME ~webServer, restarts = 0, resends = 0, redisAvailable,
                            redisExpiresAt = 0
                     PROVE  \E q \in Requests : stage'[q] = "expire"
        BY <2>1 DEF Incr, CounterEnds
      <4>3. PICK q \in Requests : stage[q] = "expire"
        BY <1>2, <4>1, <4>2 DEF CounterEnds
      <4>4. stage'[q] = "expire"
        BY <1>2, <2>1, <4>3 DEF Incr, SetStage, TypeOK
      <4> QED BY <4>4
    <3> QED BY <3>1, <3>2
  <2>2. ASSUME NEW r \in Requests, IncrSentAgain(r)
        PROVE  CounterEnds'
    BY <1>2, <2>2 DEF IncrSentAgain, CounterEnds, TypeOK
  <2>3. ASSUME NEW r \in Requests, Expire(r)
        PROVE  CounterEnds'
    <3>1. redisCount > 0 => redisExpiresAt' > 0
      BY <1>2, <2>3 DEF Expire, TypeOK, Times
    <3> QED BY <1>2, <2>3, <3>1 DEF Expire, CounterEnds, TypeOK
  <2>4. ASSUME NEW r \in Requests, Hit(r) \/ Reconnect(r) \/ Answer(r) \/ RedisCommandFails(r)
        PROVE  CounterEnds'
    <3>4. CASE Reconnect(r)
      BY <3>4 DEF Reconnect, CounterEnds
    <3>1. CASE Hit(r)
      BY <1>2, <3>1 DEF Hit, SetStage, CounterEnds, TypeOK
    <3>2. CASE Answer(r)
      BY <1>2, <3>2 DEF Answer, Done, SetStage, CounterEnds, TypeOK
    <3>3. CASE RedisCommandFails(r)
      BY <3>3 DEF RedisCommandFails, StopUsingRedis, CounterEnds
    <3> QED BY <2>4, <3>1, <3>2, <3>3, <3>4
  <2>5. CASE PruneMemory \/ RedisErrorEvent \/ Tick \/ RedisGoesDown \/ RedisComesBack
    <3>1. CASE PruneMemory \/ RedisComesBack
      BY <1>2, <3>1 DEF PruneMemory, RedisComesBack, CounterEnds
    <3>2. CASE Tick
      BY <1>2, <3>2 DEF Tick, CounterEnds
    <3>3. CASE RedisGoesDown
      BY <1>2, <3>3 DEF RedisGoesDown, CounterEnds
    <3>4. CASE RedisErrorEvent
      BY <3>4 DEF RedisErrorEvent, StopUsingRedis, CounterEnds
    <3> QED BY <2>5, <3>1, <3>4, <3>2, <3>3
  <2>6. CASE Restart
    BY <1>2, <2>6 DEF Restart, CounterEnds, TypeOK
  <2>7. CASE UNCHANGED vars
    BY <1>2, <2>7 DEF vars, CounterEnds
  <2> QED BY <1>2, <2>1, <2>3, <2>4, <2>5, <2>6, <2>7, <2>2 DEF Next
<1> QED BY <1>1, <1>2, RateLimitTyped, PTL DEF Spec

-----------------------------------------------------------------------------
(* The bound on admissions.                                                  *)

\* Requests Redis has counted within the limit and that wait for their answer.
Pending(t) ==
  {r \in Requests : /\ stage[r] \in {"expire", "ttl"}
                    /\ hitCount[r] <= Limit
                    /\ t <= hitAt[r] /\ hitAt[r] < t + Window}

\* Hits of the Window units from t that were let through or will be.
Seen(t) == admitted[t] + Cardinality(Pending(t))

\* What a counter can still let through before t + Window: the rest of its window and, if
\* that ends in time, the whole of the next.
Left(count, end, now, t) ==
  IF t + Window <= now THEN 0
  ELSE IF count = 0 THEN Limit
  ELSE (IF count <= Limit THEN Limit - count ELSE 0)
       + (IF end # 0 /\ end < t + Window THEN Limit ELSE 0)

RedisLeft(t) == Left(redisCount, redisExpiresAt, clock, t)
MemoryLeft(t) == Left(bucketCount, bucketExpiresAt, clock, t)

\* Counters that were lost, in hits they let through once more.
CountedAnew == (restarts + losses) * Limit

\* No end without a counter in Redis, no bucket without an end, no hit in the future.
CountersKnown ==
  /\ redisCount = 0 => redisExpiresAt = 0
  /\ bucketCount > 0 => bucketExpiresAt > 0
  /\ \A r \in Requests : hitAt[r] <= clock
  /\ \A t \in Times : t > clock => admitted[t] = 0

\* Wherever requests are counted, both counters together leave no more than this.
TwoPlaces ==
  \A t \in Times : t <= clock =>
    Seen(t) + RedisLeft(t) + MemoryLeft(t) <= 4 * Limit - 2 + CountedAnew

\* As long as it never gave Redis up, a life of the API server counts in one place: in
\* Redis, or in memory when Redis did not answer at its start.  What Redis still holds then
\* is of an earlier life and waits for the next restart.
OnlyRedis ==
  /\ bucketCount = 0
  /\ \A t \in Times : t <= clock =>
       Seen(t) + RedisLeft(t) <= 2 * Limit - 1 + CountedAnew

OnlyMemory ==
  /\ \A r \in Requests : stage[r] = "idle"
  /\ redisCount > 0 => restarts > 0
  /\ \A t \in Times : t <= clock =>
       /\ Seen(t) + MemoryLeft(t) <= 2 * Limit - 1 + CountedAnew
       /\ Seen(t) + RedisLeft(t) + MemoryLeft(t) <= 3 * Limit - 1 + CountedAnew

OnePlace ==
  ~webServer /\ failovers = 0 => IF redisAvailable THEN OnlyRedis ELSE OnlyMemory

\* The pending requests are finitely many.
LEMMA SeenType ==
  ASSUME TypeOK, NEW t \in Times
  PROVE  /\ IsFiniteSet(Pending(t))
         /\ Cardinality(Pending(t)) \in Nat
         /\ admitted[t] \in Nat
         /\ Seen(t) \in Nat
<1>1. Pending(t) \in SUBSET Requests
  BY DEF Pending
<1>2. IsFiniteSet(Pending(t))
  BY <1>1, RequestsFinite, FS_Subset
<1>3. Cardinality(Pending(t)) \in Nat
  BY <1>2, FS_CardinalityType
<1>4. admitted[t] \in Nat
  BY DEF TypeOK
<1> QED BY <1>2, <1>3, <1>4 DEF Seen

\* A counter never leaves more than two windows without their first hit.
LEMMA LeftType ==
  ASSUME NEW count \in 0 .. Limit + 1, NEW end \in Nat, NEW now \in Nat, NEW t \in Nat
  PROVE  /\ Left(count, end, now, t) \in Nat
         /\ Left(count, end, now, t) <= 2 * Limit - 1
         /\ count = 0 => Left(count, end, now, t) <= Limit
BY LimitType, WindowType DEF Left

\* The same of the two counters there are.
LEMMA CountersLeft ==
  ASSUME TypeOK, NEW t \in Times
  PROVE  /\ t \in Nat /\ clock \in Nat
         /\ RedisLeft(t) \in Nat /\ RedisLeft(t) <= 2 * Limit - 1
         /\ redisCount = 0 => RedisLeft(t) <= Limit
         /\ MemoryLeft(t) \in Nat /\ MemoryLeft(t) <= 2 * Limit - 1
         /\ bucketCount = 0 => MemoryLeft(t) <= Limit
<1>1. /\ t \in Nat /\ clock \in Nat /\ redisExpiresAt \in Nat /\ bucketExpiresAt \in Nat
      /\ redisCount \in 0 .. Limit + 1 /\ bucketCount \in 0 .. Limit + 1
  BY BoundsType, WindowType DEF TypeOK, Times
<1> QED BY <1>1, LeftType DEF RedisLeft, MemoryLeft

\* A hit counted in memory is let through at the expense of what the bucket had left, and
\* in no stretch of time that has ended or not begun.
LEMMA HitMemoryCounts ==
  ASSUME TypeOK, CountersKnown, HitMemory, clock' = clock, NEW t \in Times
  PROVE  /\ t <= clock => admitted'[t] + MemoryLeft(t)' <= admitted[t] + MemoryLeft(t)
         /\ t > clock => admitted'[t] = admitted[t]
<1> DEFINE fresh == bucketCount = 0 \/ bucketExpiresAt <= clock
           n == IF fresh THEN 1 ELSE CountHit(bucketCount)
<1>1. /\ t \in Nat /\ clock \in Nat /\ bucketExpiresAt \in Nat
      /\ bucketCount \in 0 .. Limit + 1 /\ admitted[t] \in Nat
  BY BoundsType, WindowType DEF TypeOK, Times
<1>2. /\ bucketCount' = n
      /\ bucketExpiresAt' = IF fresh THEN clock + Window ELSE bucketExpiresAt
      /\ Admit(n, clock)
  BY DEF HitMemory
<1>3. admitted'[t] = IF n <= Limit /\ t <= clock /\ clock < t + Window
                     THEN admitted[t] + 1 ELSE admitted[t]
  BY <1>2 DEF Admit
<1>4. MemoryLeft(t)' = IF t + Window <= clock THEN 0
                       ELSE IF n = 0 THEN Limit
                       ELSE (IF n <= Limit THEN Limit - n ELSE 0)
                            + (IF bucketExpiresAt' # 0 /\ bucketExpiresAt' < t + Window
                               THEN Limit ELSE 0)
  BY <1>2 DEF MemoryLeft, Left
<1>5. CASE fresh
  <2>1. n = 1 /\ bucketExpiresAt' = clock + Window
    BY <1>2, <1>5
  <2>2. bucketCount = 0 \/ bucketExpiresAt <= clock
    BY <1>5
  <2> HIDE DEF n, fresh
  <2>3. MemoryLeft(t)' = IF t + Window <= clock THEN 0
                         ELSE Limit - 1 + (IF clock + Window < t + Window THEN Limit ELSE 0)
    BY <1>1, <1>4, <2>1, LimitType, WindowType
  <2>4. admitted'[t] = IF t <= clock /\ clock < t + Window THEN admitted[t] + 1
                                                            ELSE admitted[t]
    BY <1>3, <2>1, LimitType
  <2>5. t <= clock /\ clock < t + Window => MemoryLeft(t) >= Limit
    <3> SUFFICES ASSUME t <= clock, clock < t + Window
                 PROVE  MemoryLeft(t) >= Limit
      OBVIOUS
    <3>1. bucketCount = 0 \/ (bucketExpiresAt # 0 /\ bucketExpiresAt < t + Window)
      BY <1>1, <2>2, WindowType DEF CountersKnown
    <3> QED BY <1>1, <2>2, <3>1, LimitType, WindowType DEF MemoryLeft, Left
  <2> QED BY <1>1, <2>3, <2>4, <2>5, LimitType, WindowType DEF MemoryLeft, Left
<1>6. CASE ~fresh
  <2>1. n = IF bucketCount > Limit THEN bucketCount ELSE bucketCount + 1
    BY <1>6 DEF CountHit
  <2>2. bucketExpiresAt' = bucketExpiresAt /\ bucketCount # 0
    BY <1>2, <1>6
  <2> HIDE DEF n
  <2> QED BY <1>1, <1>3, <1>4, <2>1, <2>2, LimitType, WindowType DEF MemoryLeft, Left
<1> QED BY <1>5, <1>6

\* Nobody else's pending hit changes with a step of one request.
OthersPend(r) ==
  \A q \in Requests \ {r} :
    stage'[q] = stage[q] /\ hitCount'[q] = hitCount[q] /\ hitAt'[q] = hitAt[q]

\* INCR lets a hit through at the expense of what the counter had left.
LEMMA IncrCounts ==
  ASSUME TypeOK, CountersKnown, NEW r \in Requests, Incr(r), NEW t \in Times, t <= clock
  PROVE  Seen(t)' + RedisLeft(t)' <= Seen(t) + RedisLeft(t)
<1>1. /\ t \in Nat /\ clock \in Nat /\ redisExpiresAt \in Nat
      /\ redisCount \in 0 .. Limit + 1
      /\ redisCount' = IF redisCount > Limit THEN redisCount ELSE redisCount + 1
      /\ redisExpiresAt' = redisExpiresAt /\ clock' = clock /\ admitted' = admitted
  BY BoundsType, WindowType DEF TypeOK, Times, Incr, CountHit
<1>2. /\ OthersPend(r) /\ stage[r] = "incr"
      /\ stage'[r] \in {"expire", "ttl"}
      /\ hitCount'[r] = redisCount' /\ hitAt'[r] = clock
  BY DEF Incr, OthersPend, SetStage, TypeOK
<1>3. r \notin Pending(t)
  BY <1>2 DEF Pending
<1>4. IsFiniteSet(Pending(t)) /\ Cardinality(Pending(t)) \in Nat /\ admitted[t] \in Nat
  BY SeenType
<1>5. RedisLeft(t)' = IF t + Window <= clock THEN 0
                      ELSE IF redisCount' = 0 THEN Limit
                      ELSE (IF redisCount' <= Limit THEN Limit - redisCount' ELSE 0)
                           + (IF redisExpiresAt # 0 /\ redisExpiresAt < t + Window
                              THEN Limit ELSE 0)
  BY <1>1 DEF RedisLeft, Left
<1>6. CASE redisCount' <= Limit /\ clock < t + Window
  <2>1. Pending(t)' = Pending(t) \cup {r}
    BY <1>2, <1>6 DEF Pending, OthersPend
  <2>2. Cardinality(Pending(t))' = Cardinality(Pending(t)) + 1
    BY <1>3, <1>4, <2>1, FS_AddElement
  <2>3. RedisLeft(t)' + 1 <= RedisLeft(t)
    BY <1>1, <1>5, <1>6, LimitType, WindowType DEF RedisLeft, Left, CountersKnown
  <2>4. RedisLeft(t)' \in Nat
    BY <1>1, <1>5, LimitType
  <2>5. RedisLeft(t) \in Nat
    BY CountersLeft
  <2> QED BY <1>1, <1>4, <2>2, <2>3, <2>4, <2>5 DEF Seen
<1>7. CASE ~(redisCount' <= Limit /\ clock < t + Window)
  <2>1. Pending(t)' = Pending(t)
    <3>1. r \notin Pending(t)'
      BY <1>1, <1>2, <1>7, LimitType, WindowType DEF Pending
    <3> QED BY <1>2, <1>3, <3>1 DEF Pending, OthersPend
  <2>2. RedisLeft(t)' <= RedisLeft(t)
    BY <1>1, <1>5, <1>7, LimitType, WindowType DEF RedisLeft, Left, CountersKnown
  <2>3. RedisLeft(t)' \in Nat
    BY <1>1, <1>5, LimitType
  <2>4. RedisLeft(t) \in Nat
    BY CountersLeft
  <2> QED BY <1>1, <1>4, <2>1, <2>2, <2>3, <2>4 DEF Seen
<1> QED BY <1>6, <1>7

\* A request that is answered no longer waits.
LEMMA DoneCounts ==
  ASSUME TypeOK, NEW r \in Requests, Done(r), NEW t \in Times
  PROVE  /\ Pending(t)' = Pending(t) \ {r}
         /\ Cardinality(Pending(t))' \in Nat
         /\ Cardinality(Pending(t))' =
              IF r \in Pending(t) THEN Cardinality(Pending(t)) - 1 ELSE Cardinality(Pending(t))
<1>1. OthersPend(r) /\ stage'[r] = "idle"
  BY DEF Done, SetStage, OthersPend, TypeOK
<1>2. Pending(t)' = Pending(t) \ {r}
  BY <1>1 DEF Pending, OthersPend
<1>3. IsFiniteSet(Pending(t))
  BY SeenType
<1>4. IsFiniteSet(Pending(t) \ {r})
  BY <1>3, FS_RemoveElement
<1> QED BY <1>2, <1>3, <1>4, FS_RemoveElement, FS_CardinalityType

\* The answer lets through exactly the hit that was pending.
LEMMA AnswerCounts ==
  ASSUME TypeOK, NEW r \in Requests, Answer(r), NEW t \in Times
  PROVE  Seen(t)' = Seen(t)
<1>1. admitted'[t] = IF r \in Pending(t) THEN admitted[t] + 1 ELSE admitted[t]
  BY DEF Answer, Admit, Pending, TypeOK
<1>2. Done(r)
  BY DEF Answer
<1>3. Cardinality(Pending(t)) \in Nat /\ admitted[t] \in Nat
  BY SeenType
<1> QED BY <1>1, <1>2, <1>3, DoneCounts DEF Seen

-----------------------------------------------------------------------------
(* What each step does to the two counters.                                  *)

\* The types of the next state.
LEMMA NextTypes ==
  ASSUME TypeOK', NEW t \in Times
  PROVE  /\ Seen(t)' \in Nat
         /\ RedisLeft(t)' \in Nat /\ RedisLeft(t)' <= 2 * Limit - 1
         /\ redisCount' = 0 => RedisLeft(t)' <= Limit
         /\ MemoryLeft(t)' \in Nat /\ MemoryLeft(t)' <= 2 * Limit - 1
         /\ bucketCount' = 0 => MemoryLeft(t)' <= Limit
<1>1. Pending(t)' \in SUBSET Requests
  BY DEF Pending
<1>2. Cardinality(Pending(t))' \in Nat
  BY <1>1, RequestsFinite, FS_Subset, FS_CardinalityType
<1>3. Seen(t)' \in Nat
  BY <1>2 DEF Seen, TypeOK
<1>4. /\ t \in Nat /\ clock' \in Nat /\ redisExpiresAt' \in Nat /\ bucketExpiresAt' \in Nat
      /\ redisCount' \in 0 .. Limit + 1 /\ bucketCount' \in 0 .. Limit + 1
  BY BoundsType, WindowType DEF TypeOK, Times
<1>5. /\ RedisLeft(t)' \in Nat /\ RedisLeft(t)' <= 2 * Limit - 1
      /\ redisCount' = 0 => RedisLeft(t)' <= Limit
  BY <1>4, LeftType DEF RedisLeft
<1>6. /\ MemoryLeft(t)' \in Nat /\ MemoryLeft(t)' <= 2 * Limit - 1
      /\ bucketCount' = 0 => MemoryLeft(t)' <= Limit
  BY <1>4, LeftType DEF MemoryLeft
<1> QED BY <1>3, <1>5, <1>6

\* No request waits for an answer that did not wait for it before.
NobodyElsePends ==
  \A q \in Requests : stage'[q] \in {"expire", "ttl"} =>
    /\ stage[q] \in {"expire", "ttl"}
    /\ hitCount'[q] = hitCount[q] /\ hitAt'[q] = hitAt[q]

\* Then no more hits are seen than were let through.
LEMMA PendingShrinks ==
  ASSUME TypeOK, NobodyElsePends, NEW t \in Times
  PROVE  /\ Cardinality(Pending(t))' \in Nat
         /\ Cardinality(Pending(t))' <= Cardinality(Pending(t))
<1>1. Pending(t)' \in SUBSET Pending(t)
  BY DEF Pending, NobodyElsePends
<1> QED BY <1>1, SeenType, FS_Subset, FS_CardinalityType

\* A step that lets nothing through sees no more hits.
LEMMA NothingLetThrough ==
  ASSUME TypeOK, NobodyElsePends, admitted' = admitted, NEW t \in Times
  PROVE  Seen(t)' <= Seen(t)
BY SeenType, PendingShrinks DEF Seen

CountsInRedis ==
  /\ UNCHANGED <<clock, restarts, losses>>
  /\ \A t \in Times : t <= clock =>
       /\ Seen(t)' + RedisLeft(t)' <= Seen(t) + RedisLeft(t)
       /\ MemoryLeft(t)' <= MemoryLeft(t)

CountsInMemory ==
  /\ UNCHANGED <<clock, restarts, losses>>
  /\ \A t \in Times : t <= clock =>
       /\ Seen(t)' + MemoryLeft(t)' <= Seen(t) + MemoryLeft(t)
       /\ RedisLeft(t)' <= RedisLeft(t)

\* Requests that reach Redis are counted there, if at all.
LEMMA RedisSteps ==
  ASSUME TypeOK, TypeOK', CountersKnown, NEW r \in Requests,
         \/ Hit(r) /\ redisAvailable
         \/ Reconnect(r) /\ redisUp
         \/ Incr(r) \/ IncrSentAgain(r) \/ Expire(r) \/ Answer(r)
  PROVE  CountsInRedis
<1> USE DEF redisVars, memoryVars, requestVars, historyVars, connectVars
<1>0. UNCHANGED <<clock, restarts, losses, bucketCount, bucketExpiresAt>>
  BY DEF Hit, Reconnect, Incr, IncrSentAgain, Expire, Answer
<1>1. SUFFICES ASSUME NEW t \in Times, t <= clock
               PROVE  Seen(t)' + RedisLeft(t)' <= Seen(t) + RedisLeft(t)
  BY <1>0, CountersLeft DEF CountsInRedis, MemoryLeft, Left
<1>2. /\ Seen(t) \in Nat /\ RedisLeft(t) \in Nat /\ Seen(t)' \in Nat /\ RedisLeft(t)' \in Nat
      /\ t \in Nat /\ clock \in Nat
  BY SeenType, CountersLeft, NextTypes
<1>a. ASSUME UNCHANGED <<redisCount, redisExpiresAt>>
      PROVE  RedisLeft(t)' = RedisLeft(t)
  BY <1>0, <1>a DEF RedisLeft, Left
<1>3. CASE (Hit(r) /\ redisAvailable) \/ (Reconnect(r) /\ redisUp)
  <2>1. /\ NobodyElsePends /\ admitted' = admitted
        /\ UNCHANGED <<redisCount, redisExpiresAt>>
    BY <1>3 DEF Hit, Reconnect, SetStage, NobodyElsePends, TypeOK
  <2> QED BY <1>2, <1>a, <2>1, NothingLetThrough
<1>4. CASE Incr(r)
  BY <1>1, <1>4, IncrCounts
<1>5. CASE IncrSentAgain(r)
  <2>1. NobodyElsePends /\ admitted' = admitted
    BY <1>5 DEF IncrSentAgain, NobodyElsePends
  <2>2. /\ redisCount \in 0 .. Limit + 1 /\ redisExpiresAt \in Nat
        /\ redisCount' = IF redisCount > Limit THEN redisCount ELSE redisCount + 1
        /\ redisExpiresAt' = redisExpiresAt
    BY <1>5, BoundsType, WindowType DEF IncrSentAgain, CountHit, TypeOK
  <2>3. RedisLeft(t)' = IF t + Window <= clock THEN 0
                        ELSE IF redisCount' = 0 THEN Limit
                        ELSE (IF redisCount' <= Limit THEN Limit - redisCount' ELSE 0)
                             + (IF redisExpiresAt # 0 /\ redisExpiresAt < t + Window
                                THEN Limit ELSE 0)
    BY <1>0, <2>2 DEF RedisLeft, Left
  <2>4. RedisLeft(t)' <= RedisLeft(t)
    BY <1>2, <2>2, <2>3, LimitType, WindowType DEF RedisLeft, Left, CountersKnown
  <2> QED BY <1>2, <2>1, <2>4, NothingLetThrough
<1>6. CASE Expire(r)
  <2>1. NobodyElsePends /\ admitted' = admitted
    BY <1>6 DEF Expire, SetStage, NobodyElsePends, TypeOK
  <2>2. /\ redisCount \in 0 .. Limit + 1 /\ redisExpiresAt \in Nat
        /\ redisCount' = redisCount
        /\ redisExpiresAt' = IF redisCount > 0 THEN clock + Window ELSE redisExpiresAt
    BY <1>6, BoundsType, WindowType DEF Expire, TypeOK
  <2>3. RedisLeft(t)' = IF t + Window <= clock THEN 0
                        ELSE IF redisCount = 0 THEN Limit
                        ELSE (IF redisCount <= Limit THEN Limit - redisCount ELSE 0)
                             + (IF redisExpiresAt' # 0 /\ redisExpiresAt' < t + Window
                                THEN Limit ELSE 0)
    BY <1>0, <2>2 DEF RedisLeft, Left
  <2>4. RedisLeft(t)' <= RedisLeft(t)
    BY <1>1, <1>2, <2>2, <2>3, LimitType, WindowType DEF RedisLeft, Left
  <2> QED BY <1>2, <2>1, <2>4, NothingLetThrough
<1>7. CASE Answer(r)
  <2>1. Seen(t)' = Seen(t) /\ UNCHANGED <<redisCount, redisExpiresAt>>
    BY <1>7, AnswerCounts DEF Answer
  <2> QED BY <1>2, <1>a, <2>1
<1> QED BY <1>3, <1>4, <1>5, <1>6, <1>7

\* Requests that do not are counted in memory, and give up what they had pending in Redis.
LEMMA MemorySteps ==
  ASSUME TypeOK, TypeOK', CountersKnown, NEW r \in Requests,
         \/ Hit(r) /\ ~redisAvailable
         \/ Reconnect(r) /\ ~redisUp
         \/ RedisCommandFails(r)
  PROVE  CountsInMemory
<1> USE DEF redisVars, memoryVars, requestVars, historyVars, connectVars
<1>0. UNCHANGED <<clock, restarts, losses, redisCount, redisExpiresAt>> /\ HitMemory
  BY DEF Hit, Reconnect, RedisCommandFails
<1>1. NobodyElsePends
  <2>1. CASE (Hit(r) /\ ~redisAvailable) \/ (Reconnect(r) /\ ~redisUp)
    BY <2>1 DEF Hit, Reconnect, NobodyElsePends
  <2>2. CASE RedisCommandFails(r)
    BY <2>2 DEF RedisCommandFails, Done, SetStage, NobodyElsePends, TypeOK
  <2> QED BY <2>1, <2>2
<1>2. ASSUME NEW t \in Times, t <= clock
      PROVE  /\ Seen(t)' + MemoryLeft(t)' <= Seen(t) + MemoryLeft(t)
             /\ RedisLeft(t)' <= RedisLeft(t)
  <2>1. /\ admitted[t] \in Nat /\ admitted'[t] \in Nat
        /\ Cardinality(Pending(t)) \in Nat
        /\ Cardinality(Pending(t))' \in Nat
        /\ Cardinality(Pending(t))' <= Cardinality(Pending(t))
    BY <1>1, SeenType, PendingShrinks DEF TypeOK
  <2>2. MemoryLeft(t) \in Nat /\ MemoryLeft(t)' \in Nat /\ RedisLeft(t) \in Nat
    BY CountersLeft, NextTypes
  <2>3. admitted'[t] + MemoryLeft(t)' <= admitted[t] + MemoryLeft(t)
    BY <1>0, <1>2, HitMemoryCounts
  <2>4. RedisLeft(t)' = RedisLeft(t)
    BY <1>0 DEF RedisLeft, Left
  <2> QED BY <2>1, <2>2, <2>3, <2>4 DEF Seen
<1> QED BY <1>0, <1>2 DEF CountsInMemory

\* Whatever else happens at the same moment, unless a counter is lost, counts nothing.
LEMMA QuietSteps ==
  ASSUME TypeOK, TypeOK', CountersKnown,
         \/ PruneMemory \/ RedisErrorEvent \/ RedisComesBack
         \/ RedisGoesDown /\ losses' = losses
         \/ UNCHANGED vars
  PROVE  CountsInRedis /\ CountsInMemory
<1> USE DEF redisVars, memoryVars, requestVars, historyVars, connectVars
<1>0. /\ UNCHANGED <<clock, restarts, losses, redisCount, redisExpiresAt, admitted>>
      /\ UNCHANGED requestVars
  BY DEF PruneMemory, RedisErrorEvent, RedisComesBack, RedisGoesDown, TypeOK, vars
<1>1. ASSUME NEW t \in Times, t <= clock
      PROVE  /\ Seen(t)' <= Seen(t)
             /\ RedisLeft(t)' = RedisLeft(t)
             /\ MemoryLeft(t)' <= MemoryLeft(t)
             /\ Seen(t) \in Nat /\ RedisLeft(t) \in Nat /\ MemoryLeft(t) \in Nat
             /\ Seen(t)' \in Nat /\ MemoryLeft(t)' \in Nat
  <2>1. NobodyElsePends
    BY <1>0 DEF NobodyElsePends
  <2>2. RedisLeft(t)' = RedisLeft(t)
    BY <1>0 DEF RedisLeft, Left
  <2>3. /\ Seen(t) \in Nat /\ RedisLeft(t) \in Nat /\ MemoryLeft(t) \in Nat
        /\ Seen(t)' \in Nat /\ MemoryLeft(t)' \in Nat /\ t \in Nat /\ clock \in Nat
    BY SeenType, CountersLeft, NextTypes
  <2>4. MemoryLeft(t)' <= MemoryLeft(t)
    <3>1. CASE PruneMemory
      <4>1. /\ bucketCount' = 0 /\ bucketCount \in 1 .. Limit + 1 /\ bucketExpiresAt \in Nat
            /\ bucketExpiresAt <= clock
        BY <3>1, BoundsType, WindowType DEF PruneMemory, TypeOK
      <4>2. MemoryLeft(t)' = IF t + Window <= clock THEN 0 ELSE Limit
        BY <1>0, <4>1 DEF MemoryLeft, Left
      <4>3. clock < t + Window => MemoryLeft(t) >= Limit
        <5> SUFFICES ASSUME clock < t + Window
                     PROVE  MemoryLeft(t) >= Limit
          OBVIOUS
        <5>1. bucketExpiresAt # 0
          BY <4>1 DEF CountersKnown
        <5> QED BY <2>3, <4>1, <5>1, LimitType, WindowType DEF MemoryLeft, Left
      <4> QED BY <2>3, <4>2, <4>3, WindowType
    <3>2. CASE UNCHANGED memoryVars
      BY <1>0, <2>3, <3>2 DEF MemoryLeft, Left
    <3> QED BY <3>1, <3>2 DEF RedisErrorEvent, RedisComesBack, RedisGoesDown, vars
  <2> QED BY <1>0, <2>1, <2>2, <2>3, <2>4, NothingLetThrough
<1>2. ASSUME NEW t \in Times, t <= clock
      PROVE  /\ Seen(t)' + RedisLeft(t)' <= Seen(t) + RedisLeft(t)
             /\ Seen(t)' + MemoryLeft(t)' <= Seen(t) + MemoryLeft(t)
             /\ RedisLeft(t)' <= RedisLeft(t)
             /\ MemoryLeft(t)' <= MemoryLeft(t)
  BY <1>1, <1>2
<1> QED BY <1>0, <1>2 DEF CountsInRedis, CountsInMemory

-----------------------------------------------------------------------------
(* The steps that start counting anew, or let time pass.                     *)

\* Restarts and losses are counted, and each allows one window more.
LEMMA AnewType ==
  ASSUME TypeOK
  PROVE  CountedAnew \in Nat
BY LimitType, BoundsType DEF TypeOK, CountedAnew

\* One more of anything worth Limit hits.
LEMMA OnceMore ==
  ASSUME NEW n \in Nat
  PROVE  (n + 1) * Limit = n * Limit + Limit
BY LimitType

\* A restart or a loss is worth Limit hits.
LEMMA CountedOnceMore ==
  ASSUME TypeOK,
         \/ restarts' = restarts + 1 /\ losses' = losses
         \/ losses' = losses + 1 /\ restarts' = restarts
  PROVE  CountedAnew' = CountedAnew + Limit
<1>1. restarts + losses \in Nat /\ restarts' + losses' = restarts + losses + 1
  BY BoundsType DEF TypeOK
<1> QED BY <1>1, OnceMore DEF CountedAnew

\* The end of a window takes nothing from what a stretch of time that has begun may still
\* see; one that begins has seen nothing.
LEMMA TickCounts ==
  ASSUME TypeOK, TypeOK', CountersKnown, Tick, NEW t \in Times
  PROVE  /\ t <= clock => /\ Seen(t)' = Seen(t)
                          /\ RedisLeft(t)' <= RedisLeft(t)
                          /\ MemoryLeft(t)' <= MemoryLeft(t)
         /\ t = clock + 1 => Seen(t)' = 0
<1> USE DEF redisVars, memoryVars, requestVars, historyVars, connectVars
<1>0. /\ UNCHANGED <<stage, hitCount, hitAt, admitted, bucketCount, bucketExpiresAt>>
      /\ t \in Nat /\ clock \in Nat /\ clock' = clock + 1
      /\ redisCount \in 0 .. Limit + 1 /\ redisExpiresAt \in Nat
      /\ bucketCount \in 0 .. Limit + 1 /\ bucketExpiresAt \in Nat
      /\ \/ redisExpiresAt # 0 /\ redisExpiresAt <= clock' /\ redisCount' = 0
         \/ UNCHANGED <<redisCount, redisExpiresAt>>
  BY BoundsType, WindowType DEF Tick, TypeOK, Times
<1>1. Seen(t)' = Seen(t)
  BY <1>0 DEF Seen, Pending
<1>2. t <= clock => MemoryLeft(t)' <= MemoryLeft(t)
  <2>1. MemoryLeft(t)' = IF t + Window <= clock' THEN 0
                         ELSE Left(bucketCount, bucketExpiresAt, clock, t)
    BY <1>0, WindowType DEF MemoryLeft, Left
  <2>2. MemoryLeft(t) \in Nat
    BY CountersLeft
  <2> QED BY <2>1, <2>2 DEF MemoryLeft
<1>3. t <= clock => RedisLeft(t)' <= RedisLeft(t)
  <2>0. RedisLeft(t) \in Nat
    BY CountersLeft
  <2>1. CASE UNCHANGED <<redisCount, redisExpiresAt>>
    <3>1. RedisLeft(t)' = IF t + Window <= clock' THEN 0
                          ELSE Left(redisCount, redisExpiresAt, clock, t)
      BY <1>0, <2>1, WindowType DEF RedisLeft, Left
    <3> QED BY <2>0, <3>1 DEF RedisLeft
  <2>2. CASE redisExpiresAt # 0 /\ redisExpiresAt <= clock' /\ redisCount' = 0
    <3>1. RedisLeft(t)' = IF t + Window <= clock' THEN 0 ELSE Limit
      BY <2>2 DEF RedisLeft, Left
    <3>2. clock' < t + Window => RedisLeft(t) >= Limit
      <4> SUFFICES ASSUME clock' < t + Window
                   PROVE  RedisLeft(t) >= Limit
        OBVIOUS
      <4>1. redisExpiresAt < t + Window /\ clock < t + Window
        BY <1>0, <2>2, WindowType
      <4> QED BY <1>0, <2>2, <4>1, LimitType, WindowType DEF RedisLeft, Left
    <3> QED BY <1>0, <2>0, <3>1, <3>2, WindowType
  <2> QED BY <1>0, <2>1, <2>2
<1>4. t = clock + 1 => Seen(t)' = 0
  <2> SUFFICES ASSUME t = clock + 1
               PROVE  Seen(t) = 0
    BY <1>1
  <2>1. admitted[t] = 0
    BY <1>0 DEF CountersKnown
  <2>2. Pending(t) = {}
    <3> SUFFICES ASSUME NEW r \in Pending(t)
                 PROVE  FALSE
      OBVIOUS
    <3>1. r \in Requests /\ hitAt[r] >= clock + 1
      BY DEF Pending
    <3>2. hitAt[r] <= clock /\ hitAt[r] \in Nat
      BY <3>1, BoundsType DEF CountersKnown, TypeOK, Times
    <3> QED BY <1>0, <3>1, <3>2
  <2> QED BY <2>1, <2>2, FS_EmptySet DEF Seen
<1> QED BY <1>1, <1>2, <1>3, <1>4

\* Redis loses its counter: one window more.
LEMMA LossCounts ==
  ASSUME TypeOK, TypeOK', RedisGoesDown, losses' # losses
  PROVE  /\ CountedAnew' = CountedAnew + Limit
         /\ redisCount' = 0
         /\ \A t \in Times : /\ Seen(t)' = Seen(t)
                             /\ RedisLeft(t)' <= RedisLeft(t) + Limit
                             /\ MemoryLeft(t)' = MemoryLeft(t)
<1> USE DEF redisVars, memoryVars, requestVars, historyVars, connectVars
<1>1. /\ UNCHANGED <<clock, stage, hitCount, hitAt, admitted, bucketCount, bucketExpiresAt,
                     restarts>>
      /\ redisCount' = 0 /\ losses' = losses + 1
  BY DEF RedisGoesDown
<1>2. CountedAnew' = CountedAnew + Limit
  BY <1>1, CountedOnceMore
<1>3. ASSUME NEW t \in Times
      PROVE  /\ Seen(t)' = Seen(t)
             /\ RedisLeft(t)' <= RedisLeft(t) + Limit
             /\ MemoryLeft(t)' = MemoryLeft(t)
  <2>1. Seen(t)' = Seen(t) /\ MemoryLeft(t)' = MemoryLeft(t)
    BY <1>1 DEF Seen, Pending, MemoryLeft
  <2>2. RedisLeft(t)' \in Nat /\ RedisLeft(t)' <= Limit /\ RedisLeft(t) \in Nat
    BY <1>1, NextTypes, CountersLeft
  <2> QED BY <2>1, <2>2, LimitType
<1> QED BY <1>1, <1>2, <1>3

\* The process restarts: one window more, and whoever waited for an answer gets none.
LEMMA RestartCounts ==
  ASSUME TypeOK, TypeOK', Restart
  PROVE  /\ CountedAnew' = CountedAnew + Limit
         /\ UNCHANGED <<redisCount, webServer, failovers, clock>>
         /\ bucketCount' = 0
         /\ restarts' > 0
         /\ \A r \in Requests : stage'[r] = "idle"
         /\ \A t \in Times : /\ Seen(t)' <= Seen(t)
                             /\ RedisLeft(t)' = RedisLeft(t)
                             /\ MemoryLeft(t)' <= Limit
<1> USE DEF redisVars, memoryVars, requestVars, historyVars, connectVars
<1>1. /\ UNCHANGED <<redisCount, redisExpiresAt, webServer, failovers, clock, admitted, losses>>
      /\ bucketCount' = 0 /\ restarts' = restarts + 1
      /\ \A r \in Requests : stage'[r] = "idle"
  BY DEF Restart
<1>2. CountedAnew' = CountedAnew + Limit
  BY <1>1, CountedOnceMore
<1>3. restarts' > 0
  BY <1>1, BoundsType DEF TypeOK
<1>4. ASSUME NEW t \in Times
      PROVE  /\ Seen(t)' <= Seen(t)
             /\ RedisLeft(t)' = RedisLeft(t)
             /\ MemoryLeft(t)' <= Limit
  <2>1. NobodyElsePends
    BY <1>1 DEF NobodyElsePends
  <2>2. RedisLeft(t)' = RedisLeft(t)
    BY <1>1 DEF RedisLeft
  <2> QED BY <1>1, <2>1, <2>2, NothingLetThrough, NextTypes
<1> QED BY <1>1, <1>2, <1>3, <1>4

-----------------------------------------------------------------------------
(* Each part of the invariant is kept.                                       *)

\* Counters have ends and hits have times.
LEMMA CountersKnownStep ==
  ASSUME TypeOK, CountersKnown, [Next]_vars
  PROVE  CountersKnown'
<1> USE DEF redisVars, memoryVars, requestVars, historyVars, connectVars
<1>0. /\ clock \in Nat /\ \A r \in Requests : hitAt[r] \in Nat
      /\ redisCount \in 0 .. Limit + 1
      /\ \A t \in Times : t \in Nat
  BY BoundsType DEF TypeOK, Times
<1>a. ASSUME HitMemory, clock' = clock
      PROVE  /\ bucketCount' > 0 => bucketExpiresAt' > 0
             /\ \A t \in Times : t > clock' => admitted'[t] = 0
  <2>1. bucketExpiresAt' > 0
    BY <1>0, <1>a, WindowType, BoundsType DEF HitMemory, CountersKnown, TypeOK
  <2>2. \A t \in Times : t > clock' => admitted'[t] = 0
    BY <1>a, HitMemoryCounts DEF CountersKnown
  <2> QED BY <2>1, <2>2
<1>1. ASSUME NEW r \in Requests, Hit(r) \/ Reconnect(r)
      PROVE  CountersKnown'
  <2>1. UNCHANGED <<redisCount, redisExpiresAt, hitAt, clock>>
    BY <1>1 DEF Hit, Reconnect
  <2>2. HitMemory \/ UNCHANGED <<bucketCount, bucketExpiresAt, admitted>>
    BY <1>1 DEF Hit, Reconnect
  <2> QED BY <1>a, <2>1, <2>2 DEF CountersKnown
<1>2. ASSUME NEW r \in Requests, Incr(r)
      PROVE  CountersKnown'
  <2>1. UNCHANGED <<redisExpiresAt, bucketCount, bucketExpiresAt, admitted, clock>>
        /\ redisCount' = CountHit(redisCount) /\ hitAt' = [hitAt EXCEPT ![r] = clock]
    BY <1>2 DEF Incr
  <2>2. redisCount' # 0
    BY <1>0, <2>1, LimitType DEF CountHit
  <2>3. \A q \in Requests : hitAt'[q] <= clock
    BY <1>0, <2>1 DEF CountersKnown, TypeOK
  <2> QED BY <2>1, <2>2, <2>3 DEF CountersKnown
<1>3. ASSUME NEW r \in Requests, IncrSentAgain(r)
      PROVE  CountersKnown'
  <2>1. redisCount' # 0
    BY <1>0, <1>3, LimitType DEF IncrSentAgain, CountHit
  <2> QED BY <1>3, <2>1 DEF IncrSentAgain, CountersKnown
<1>4. ASSUME NEW r \in Requests, Expire(r)
      PROVE  CountersKnown'
  BY <1>0, <1>4 DEF Expire, CountersKnown
<1>5. ASSUME NEW r \in Requests, Done(r), clock' = clock
      PROVE  \A q \in Requests : hitAt'[q] <= clock'
  BY <1>0, <1>5 DEF Done, CountersKnown, TypeOK
<1>6. ASSUME NEW r \in Requests, Answer(r)
      PROVE  CountersKnown'
  <2>1. /\ UNCHANGED <<redisCount, redisExpiresAt, bucketCount, bucketExpiresAt, clock>>
        /\ Done(r) /\ Admit(hitCount[r], hitAt[r])
    BY <1>6 DEF Answer
  <2>2. \A t \in Times : t > clock' => admitted'[t] = 0
    BY <1>0, <2>1 DEF Admit, CountersKnown, TypeOK
  <2> QED BY <1>5, <2>1, <2>2 DEF CountersKnown
<1>7. ASSUME NEW r \in Requests, RedisCommandFails(r)
      PROVE  CountersKnown'
  <2>1. UNCHANGED <<redisCount, redisExpiresAt, clock>> /\ Done(r) /\ HitMemory
    BY <1>7 DEF RedisCommandFails
  <2> QED BY <1>5, <1>a, <2>1 DEF CountersKnown
<1>8. CASE PruneMemory \/ RedisErrorEvent \/ RedisGoesDown \/ RedisComesBack \/ UNCHANGED vars
  <2>1. /\ UNCHANGED <<clock, hitAt, admitted>>
        /\ \/ UNCHANGED <<bucketCount, bucketExpiresAt>>
           \/ bucketCount' = 0
        /\ \/ UNCHANGED <<redisCount, redisExpiresAt>>
           \/ redisCount' = 0 /\ redisExpiresAt' = 0
    BY <1>8 DEF PruneMemory, RedisErrorEvent, RedisGoesDown, RedisComesBack, vars
  <2> QED BY <2>1 DEF CountersKnown
<1>9. CASE Tick
  <2>1. /\ clock' = clock + 1 /\ UNCHANGED <<hitAt, admitted, bucketCount, bucketExpiresAt>>
        /\ \/ UNCHANGED <<redisCount, redisExpiresAt>>
           \/ redisCount' = 0 /\ redisExpiresAt' = 0
    BY <1>9 DEF Tick
  <2> QED BY <1>0, <2>1 DEF CountersKnown
<1>10. CASE Restart
  BY <1>0, <1>10 DEF Restart, CountersKnown
<1> QED BY <1>1, <1>2, <1>3, <1>4, <1>6, <1>7, <1>8, <1>9, <1>10 DEF Next

\* A hit counted in either place leaves the two places within their bound.
LEMMA TwoPlacesKept ==
  ASSUME TypeOK, TypeOK', TwoPlaces, CountsInRedis \/ CountsInMemory
  PROVE  TwoPlaces'
<1>1. clock' = clock /\ CountedAnew' = CountedAnew
  BY DEF CountsInRedis, CountsInMemory, CountedAnew
<1>2. SUFFICES ASSUME NEW t \in Times, t <= clock
               PROVE  Seen(t)' + RedisLeft(t)' + MemoryLeft(t)'
                        <= 4 * Limit - 2 + CountedAnew
  BY <1>1 DEF TwoPlaces
<1>3. Seen(t) + RedisLeft(t) + MemoryLeft(t) <= 4 * Limit - 2 + CountedAnew
  BY <1>2 DEF TwoPlaces
<1>4. \/ /\ Seen(t)' + RedisLeft(t)' <= Seen(t) + RedisLeft(t)
         /\ MemoryLeft(t)' <= MemoryLeft(t)
      \/ /\ Seen(t)' + MemoryLeft(t)' <= Seen(t) + MemoryLeft(t)
         /\ RedisLeft(t)' <= RedisLeft(t)
  BY <1>2 DEF CountsInRedis, CountsInMemory
<1>5. /\ Seen(t) \in Nat /\ RedisLeft(t) \in Nat /\ MemoryLeft(t) \in Nat
      /\ Seen(t)' \in Nat /\ RedisLeft(t)' \in Nat /\ MemoryLeft(t)' \in Nat
      /\ CountedAnew \in Nat
  BY SeenType, CountersLeft, NextTypes, AnewType
<1> QED BY <1>3, <1>4, <1>5, LimitType

\* Every request step is counted in one of the two places, or in neither.
LEMMA EveryStepCounts ==
  ASSUME TypeOK, TypeOK', CountersKnown, [Next]_vars,
         ~Tick, ~Restart, losses' = losses
  PROVE  CountsInRedis \/ CountsInMemory
<1>1. ASSUME NEW r \in Requests, Hit(r) \/ Reconnect(r)
      PROVE  CountsInRedis \/ CountsInMemory
  <2>1. CASE Hit(r)
    BY <2>1, RedisSteps, MemorySteps
  <2>2. CASE Reconnect(r)
    BY <2>2, RedisSteps, MemorySteps
  <2> QED BY <1>1, <2>1, <2>2
<1>2. ASSUME NEW r \in Requests, Incr(r) \/ IncrSentAgain(r) \/ Expire(r) \/ Answer(r)
      PROVE  CountsInRedis
  BY <1>2, RedisSteps
<1>3. ASSUME NEW r \in Requests, RedisCommandFails(r)
      PROVE  CountsInMemory
  BY <1>3, MemorySteps
<1>4. CASE PruneMemory \/ RedisErrorEvent \/ RedisComesBack \/ RedisGoesDown \/ UNCHANGED vars
  BY <1>4, QuietSteps
<1> QED BY <1>1, <1>2, <1>3, <1>4 DEF Next

\* No step takes the two places out of their bound.
LEMMA TwoPlacesStep ==
  ASSUME TypeOK, TypeOK', CountersKnown, TwoPlaces, [Next]_vars
  PROVE  TwoPlaces'
<1>0. \A t \in Times :
        /\ Seen(t) \in Nat /\ RedisLeft(t) \in Nat /\ MemoryLeft(t) \in Nat
        /\ Seen(t)' \in Nat /\ RedisLeft(t)' \in Nat /\ MemoryLeft(t)' \in Nat
        /\ RedisLeft(t)' <= 2 * Limit - 1 /\ MemoryLeft(t)' <= 2 * Limit - 1
        /\ CountedAnew \in Nat
  BY SeenType, CountersLeft, NextTypes, AnewType
<1>1. CASE Tick
  <2>1. SUFFICES ASSUME NEW t \in Times, t <= clock'
                 PROVE  Seen(t)' + RedisLeft(t)' + MemoryLeft(t)'
                          <= 4 * Limit - 2 + CountedAnew'
    BY DEF TwoPlaces
  <2>2. CountedAnew' = CountedAnew /\ clock' = clock + 1 /\ clock \in Nat /\ t \in Nat
    BY <1>1, BoundsType DEF Tick, historyVars, CountedAnew, TypeOK, Times
  <2>3. CASE t <= clock
    <3>1. Seen(t) + RedisLeft(t) + MemoryLeft(t) <= 4 * Limit - 2 + CountedAnew
      BY <2>3 DEF TwoPlaces
    <3>2. /\ Seen(t)' = Seen(t)
          /\ RedisLeft(t)' <= RedisLeft(t) /\ MemoryLeft(t)' <= MemoryLeft(t)
      BY <1>1, <2>3, TickCounts
    <3> QED BY <1>0, <2>2, <3>1, <3>2, LimitType
  <2>4. CASE t = clock + 1
    <3>1. Seen(t)' = 0
      BY <1>1, <2>4, TickCounts
    <3> QED BY <1>0, <2>2, <3>1, LimitType
  <2> QED BY <2>1, <2>2, <2>3, <2>4
<1>2. CASE Restart
  <2>1. SUFFICES ASSUME NEW t \in Times, t <= clock
                 PROVE  Seen(t)' + RedisLeft(t)' + MemoryLeft(t)'
                          <= 4 * Limit - 2 + CountedAnew'
    BY <1>2, RestartCounts DEF TwoPlaces
  <2>2. Seen(t) + RedisLeft(t) + MemoryLeft(t) <= 4 * Limit - 2 + CountedAnew
    BY <2>1 DEF TwoPlaces
  <2>3. /\ Seen(t)' <= Seen(t) /\ RedisLeft(t)' = RedisLeft(t) /\ MemoryLeft(t)' <= Limit
        /\ CountedAnew' = CountedAnew + Limit
    BY <1>2, RestartCounts
  <2> QED BY <1>0, <2>2, <2>3, LimitType
<1>3. CASE RedisGoesDown /\ losses' # losses
  <2>1. clock' = clock
    BY <1>3 DEF RedisGoesDown
  <2>2. SUFFICES ASSUME NEW t \in Times, t <= clock
                 PROVE  Seen(t)' + RedisLeft(t)' + MemoryLeft(t)'
                          <= 4 * Limit - 2 + CountedAnew'
    BY <2>1 DEF TwoPlaces
  <2>3. Seen(t) + RedisLeft(t) + MemoryLeft(t) <= 4 * Limit - 2 + CountedAnew
    BY <2>2 DEF TwoPlaces
  <2>4. /\ Seen(t)' = Seen(t) /\ RedisLeft(t)' <= RedisLeft(t) + Limit
        /\ MemoryLeft(t)' = MemoryLeft(t) /\ CountedAnew' = CountedAnew + Limit
    BY <1>3, LossCounts
  <2> QED BY <1>0, <2>3, <2>4, LimitType
<1>4. CASE losses' = losses /\ ~Tick /\ ~Restart
  BY <1>4, EveryStepCounts, TwoPlacesKept
<1>5. losses' # losses => RedisGoesDown
  BY DEF Next, Hit, Reconnect, Incr, IncrSentAgain, Expire, Answer, RedisCommandFails,
     PruneMemory, RedisErrorEvent, Tick, RedisComesBack, Restart, historyVars, connectVars,
     vars
<1> QED BY <1>1, <1>2, <1>3, <1>4, <1>5

\* While a life of the API server counts in Redis only, a step that stays so keeps the bound.
LEMMA OnlyRedisKept ==
  ASSUME TypeOK, TypeOK', OnlyRedis, CountsInRedis, bucketCount' = bucketCount
  PROVE  OnlyRedis'
<1>1. clock' = clock /\ CountedAnew' = CountedAnew
  BY DEF CountsInRedis, CountedAnew
<1>2. ASSUME NEW t \in Times, t <= clock
      PROVE  Seen(t)' + RedisLeft(t)' <= 2 * Limit - 1 + CountedAnew
  <2>1. /\ Seen(t) + RedisLeft(t) <= 2 * Limit - 1 + CountedAnew
        /\ Seen(t)' + RedisLeft(t)' <= Seen(t) + RedisLeft(t)
    BY <1>2 DEF OnlyRedis, CountsInRedis
  <2>2. /\ Seen(t) \in Nat /\ RedisLeft(t) \in Nat
        /\ Seen(t)' \in Nat /\ RedisLeft(t)' \in Nat /\ CountedAnew \in Nat
    BY SeenType, CountersLeft, NextTypes, AnewType
  <2> QED BY <2>1, <2>2, LimitType
<1> QED BY <1>1, <1>2 DEF OnlyRedis

\* The same while it counts in memory only.
LEMMA OnlyMemoryKept ==
  ASSUME TypeOK, TypeOK', OnlyMemory, CountsInMemory, redisCount' = redisCount,
         stage' = stage
  PROVE  OnlyMemory'
<1>1. clock' = clock /\ CountedAnew' = CountedAnew /\ restarts' = restarts
  BY DEF CountsInMemory, CountedAnew
<1>2. ASSUME NEW t \in Times, t <= clock
      PROVE  /\ Seen(t)' + MemoryLeft(t)' <= 2 * Limit - 1 + CountedAnew
             /\ Seen(t)' + RedisLeft(t)' + MemoryLeft(t)' <= 3 * Limit - 1 + CountedAnew
  <2>1. /\ Seen(t) + MemoryLeft(t) <= 2 * Limit - 1 + CountedAnew
        /\ Seen(t) + RedisLeft(t) + MemoryLeft(t) <= 3 * Limit - 1 + CountedAnew
        /\ Seen(t)' + MemoryLeft(t)' <= Seen(t) + MemoryLeft(t)
        /\ RedisLeft(t)' <= RedisLeft(t)
    BY <1>2 DEF OnlyMemory, CountsInMemory
  <2>2. /\ Seen(t) \in Nat /\ RedisLeft(t) \in Nat /\ MemoryLeft(t) \in Nat
        /\ Seen(t)' \in Nat /\ RedisLeft(t)' \in Nat /\ MemoryLeft(t)' \in Nat
        /\ CountedAnew \in Nat
    BY SeenType, CountersLeft, NextTypes, AnewType
  <2> QED BY <2>1, <2>2, LimitType
<1> QED BY <1>1, <1>2 DEF OnlyMemory

\* Whichever it counts in, time may pass.
LEMMA OnePlaceTick ==
  ASSUME TypeOK, TypeOK', CountersKnown, Tick
  PROVE  /\ OnlyRedis => OnlyRedis'
         /\ OnlyMemory => OnlyMemory'
<1>0. \A t \in Times :
        /\ Seen(t) \in Nat /\ RedisLeft(t) \in Nat /\ MemoryLeft(t) \in Nat
        /\ Seen(t)' \in Nat /\ RedisLeft(t)' \in Nat /\ MemoryLeft(t)' \in Nat
        /\ RedisLeft(t)' <= 2 * Limit - 1 /\ MemoryLeft(t)' <= 2 * Limit - 1
        /\ redisCount' = 0 => RedisLeft(t)' <= Limit
        /\ t \in Nat
  BY SeenType, CountersLeft, NextTypes
<1>1. /\ CountedAnew' = CountedAnew /\ CountedAnew \in Nat
      /\ clock' = clock + 1 /\ clock \in Nat
      /\ UNCHANGED <<bucketCount, stage, restarts, losses>>
      /\ redisCount' = redisCount \/ redisCount' = 0
  BY AnewType, BoundsType DEF Tick, memoryVars, redisVars, requestVars, historyVars,
     CountedAnew, TypeOK, Times
<1>2. \A t \in Times : t <= clock' => t <= clock \/ t = clock + 1
  BY <1>0, <1>1
<1>3. ASSUME OnlyRedis, NEW t \in Times, t <= clock'
      PROVE  Seen(t)' + RedisLeft(t)' <= 2 * Limit - 1 + CountedAnew'
  <2>1. CASE t <= clock
    <3>1. Seen(t) + RedisLeft(t) <= 2 * Limit - 1 + CountedAnew
      BY <1>3, <2>1 DEF OnlyRedis
    <3>2. Seen(t)' = Seen(t) /\ RedisLeft(t)' <= RedisLeft(t)
      BY <2>1, TickCounts
    <3> QED BY <1>0, <1>1, <3>1, <3>2, LimitType
  <2>2. CASE t = clock + 1
    <3>1. Seen(t)' = 0
      BY <2>2, TickCounts
    <3> QED BY <1>0, <1>1, <3>1, LimitType
  <2> QED BY <1>2, <1>3, <2>1, <2>2
<1>4. ASSUME OnlyMemory, NEW t \in Times, t <= clock'
      PROVE  /\ Seen(t)' + MemoryLeft(t)' <= 2 * Limit - 1 + CountedAnew'
             /\ Seen(t)' + RedisLeft(t)' + MemoryLeft(t)' <= 3 * Limit - 1 + CountedAnew'
  <2>1. CASE t <= clock
    <3>1. /\ Seen(t) + MemoryLeft(t) <= 2 * Limit - 1 + CountedAnew
          /\ Seen(t) + RedisLeft(t) + MemoryLeft(t) <= 3 * Limit - 1 + CountedAnew
      BY <1>4, <2>1 DEF OnlyMemory
    <3>2. /\ Seen(t)' = Seen(t) /\ RedisLeft(t)' <= RedisLeft(t)
          /\ MemoryLeft(t)' <= MemoryLeft(t)
      BY <2>1, TickCounts
    <3> QED BY <1>0, <1>1, <3>1, <3>2, LimitType
  <2>2. CASE t = clock + 1
    <3>1. Seen(t)' = 0
      BY <2>2, TickCounts
    <3>2. CASE redisCount' = 0
      BY <1>0, <1>1, <3>1, <3>2, LimitType
    <3>3. CASE redisCount' # 0
      <4>1. restarts > 0 /\ restarts \in Nat /\ losses \in Nat
        BY <1>1, <1>4, <3>3, LimitType, BoundsType DEF OnlyMemory, TypeOK
      <4>2. CountedAnew >= Limit
        <5>1. PICK n \in Nat : restarts + losses = n + 1
          BY <4>1
        <5>2. n * Limit \in Nat
          BY <5>1, LimitType
        <5> QED BY <5>1, <5>2, OnceMore, LimitType DEF CountedAnew
      <4> QED BY <1>0, <1>1, <3>1, <4>2, LimitType
    <3> QED BY <3>2, <3>3
  <2> QED BY <1>2, <1>4, <2>1, <2>2
<1>5. OnlyRedis => OnlyRedis'
  BY <1>1, <1>3 DEF OnlyRedis
<1>6. OnlyMemory => OnlyMemory'
  BY <1>1, <1>4 DEF OnlyMemory
<1> QED BY <1>5, <1>6

\* Redis may lose its counter.
LEMMA OnePlaceLoss ==
  ASSUME TypeOK, TypeOK', RedisGoesDown, losses' # losses
  PROVE  /\ OnlyRedis => OnlyRedis'
         /\ OnlyMemory => OnlyMemory'
<1>0. \A t \in Times :
        /\ Seen(t) \in Nat /\ RedisLeft(t) \in Nat /\ MemoryLeft(t) \in Nat
        /\ RedisLeft(t)' \in Nat /\ CountedAnew \in Nat
  BY SeenType, CountersLeft, NextTypes, AnewType
<1>1. UNCHANGED <<clock, bucketCount, stage, restarts>>
  BY DEF RedisGoesDown, memoryVars, requestVars
<1>2. ASSUME OnlyRedis, NEW t \in Times, t <= clock
      PROVE  Seen(t)' + RedisLeft(t)' <= 2 * Limit - 1 + CountedAnew'
  <2>1. Seen(t) + RedisLeft(t) <= 2 * Limit - 1 + CountedAnew
    BY <1>2 DEF OnlyRedis
  <2> QED BY <1>0, <2>1, LossCounts, LimitType
<1>3. ASSUME OnlyMemory, NEW t \in Times, t <= clock
      PROVE  /\ Seen(t)' + MemoryLeft(t)' <= 2 * Limit - 1 + CountedAnew'
             /\ Seen(t)' + RedisLeft(t)' + MemoryLeft(t)' <= 3 * Limit - 1 + CountedAnew'
  <2>1. /\ Seen(t) + MemoryLeft(t) <= 2 * Limit - 1 + CountedAnew
        /\ Seen(t) + RedisLeft(t) + MemoryLeft(t) <= 3 * Limit - 1 + CountedAnew
    BY <1>3 DEF OnlyMemory
  <2> QED BY <1>0, <2>1, LossCounts, LimitType
<1>4. OnlyRedis => OnlyRedis'
  BY <1>1, <1>2 DEF OnlyRedis
<1>5. OnlyMemory => OnlyMemory'
  <2>1. ~(redisCount' > 0)
    BY LossCounts
  <2> QED BY <1>1, <1>3, <2>1 DEF OnlyMemory
<1> QED BY <1>4, <1>5

\* A new life starts with an empty map, in whichever place.
LEMMA OnePlaceRestart ==
  ASSUME TypeOK, TypeOK', Restart, OnlyRedis \/ OnlyMemory
  PROVE  OnlyRedis' /\ OnlyMemory'
<1>0. \A t \in Times :
        /\ Seen(t) \in Nat /\ RedisLeft(t) \in Nat /\ MemoryLeft(t) \in Nat
        /\ Seen(t)' \in Nat /\ MemoryLeft(t)' \in Nat /\ CountedAnew \in Nat
  BY SeenType, CountersLeft, NextTypes, AnewType
<1>1. ASSUME NEW t \in Times, t <= clock
      PROVE  /\ Seen(t)' + RedisLeft(t)' <= 2 * Limit - 1 + CountedAnew'
             /\ Seen(t)' + MemoryLeft(t)' <= 2 * Limit - 1 + CountedAnew'
             /\ Seen(t)' + RedisLeft(t)' + MemoryLeft(t)' <= 3 * Limit - 1 + CountedAnew'
  <2>1. /\ Seen(t)' <= Seen(t) /\ RedisLeft(t)' = RedisLeft(t) /\ MemoryLeft(t)' <= Limit
        /\ CountedAnew' = CountedAnew + Limit
    BY RestartCounts
  <2>2. \/ Seen(t) + RedisLeft(t) <= 2 * Limit - 1 + CountedAnew
        \/ /\ Seen(t) + MemoryLeft(t) <= 2 * Limit - 1 + CountedAnew
           /\ Seen(t) + RedisLeft(t) + MemoryLeft(t) <= 3 * Limit - 1 + CountedAnew
    BY <1>1 DEF OnlyRedis, OnlyMemory
  <2> QED BY <1>0, <2>1, <2>2, LimitType
<1> QED BY <1>1, RestartCounts DEF OnlyRedis, OnlyMemory

\* A life of the API server that never gave Redis up counts in one place.
LEMMA OnePlaceStep ==
  ASSUME TypeOK, TypeOK', CountersKnown, OnePlace, [Next]_vars
  PROVE  OnePlace'
<1> USE DEF redisVars, memoryVars, requestVars, historyVars, connectVars
<1>0. SUFFICES ASSUME ~webServer', failovers' = 0
               PROVE  IF redisAvailable' THEN OnlyRedis' ELSE OnlyMemory'
  BY DEF OnePlace
<1>1. webServer' = webServer
  BY DEF Next, Hit, Reconnect, Incr, IncrSentAgain, Expire, Answer, RedisCommandFails,
     PruneMemory, RedisErrorEvent, Tick, RedisGoesDown, RedisComesBack, Restart, vars
<1>2. failovers = 0
  <2>1. failovers' = failovers \/ failovers' = failovers + 1
    BY DEF Next, Hit, Reconnect, Incr, IncrSentAgain, Expire, Answer, RedisCommandFails,
       PruneMemory, RedisErrorEvent, Tick, RedisGoesDown, RedisComesBack, Restart, vars,
       StopUsingRedis
  <2> QED BY <1>0, <2>1, BoundsType DEF TypeOK
<1>3. IF redisAvailable THEN OnlyRedis ELSE OnlyMemory
  BY <1>0, <1>1, <1>2 DEF OnePlace
<1>4. CASE Restart
  BY <1>3, <1>4, OnePlaceRestart
<1>5. CASE Tick
  <2>1. redisAvailable' = redisAvailable
    BY <1>5 DEF Tick
  <2> QED BY <1>3, <1>5, <2>1, OnePlaceTick
<1>6. CASE RedisGoesDown
  <2>1. redisAvailable' = redisAvailable /\ UNCHANGED <<bucketCount, stage>>
    BY <1>6 DEF RedisGoesDown
  <2>2. CASE losses' # losses
    BY <1>3, <1>6, <2>1, <2>2, OnePlaceLoss
  <2>3. CASE losses' = losses
    <3>1. CountsInRedis /\ CountsInMemory
      BY <1>6, <2>3, QuietSteps
    <3>2. redisCount' = redisCount
      BY <1>6, <2>3, BoundsType DEF RedisGoesDown, TypeOK
    <3> QED BY <1>3, <2>1, <3>1, <3>2, OnlyRedisKept, OnlyMemoryKept
  <2> QED BY <2>2, <2>3
<1>7. CASE PruneMemory \/ RedisComesBack \/ UNCHANGED vars
  <2>1. /\ redisAvailable' = redisAvailable /\ UNCHANGED <<redisCount, stage>>
        /\ bucketCount = 0 => bucketCount' = bucketCount
    BY <1>7 DEF PruneMemory, RedisComesBack, vars
  <2>2. CountsInRedis /\ CountsInMemory
    BY <1>7, QuietSteps
  <2> QED BY <1>3, <2>1, <2>2, OnlyRedisKept, OnlyMemoryKept DEF OnlyRedis
<1>8. ~RedisErrorEvent
  BY <1>0, <1>1, <1>2 DEF RedisErrorEvent, StopUsingRedis
<1>9. ASSUME NEW r \in Requests, Hit(r)
      PROVE  IF redisAvailable' THEN OnlyRedis' ELSE OnlyMemory'
  <2>1. redisAvailable' = redisAvailable /\ UNCHANGED redisCount
    BY <1>9 DEF Hit
  <2>2. CASE redisAvailable
    <3>1. CountsInRedis /\ bucketCount' = bucketCount
      BY <1>9, <2>2, RedisSteps DEF Hit
    <3> QED BY <1>3, <2>1, <2>2, <3>1, OnlyRedisKept
  <2>3. CASE ~redisAvailable
    <3>1. CountsInMemory /\ stage' = stage
      BY <1>9, <2>3, MemorySteps DEF Hit
    <3> QED BY <1>3, <2>1, <2>3, <3>1, OnlyMemoryKept
  <2> QED BY <2>2, <2>3
<1>10. ASSUME NEW r \in Requests, Incr(r) \/ IncrSentAgain(r) \/ Expire(r) \/ Answer(r)
       PROVE  IF redisAvailable' THEN OnlyRedis' ELSE OnlyMemory'
  <2>1. stage[r] # "idle" /\ redisAvailable' = redisAvailable /\ bucketCount' = bucketCount
    BY <1>10 DEF Incr, IncrSentAgain, Expire, Answer
  <2>2. redisAvailable
    BY <1>3, <2>1 DEF OnlyMemory
  <2>3. CountsInRedis
    BY <1>10, RedisSteps
  <2> QED BY <1>3, <2>1, <2>2, <2>3, OnlyRedisKept
<1>11. ASSUME NEW r \in Requests, Reconnect(r)
       PROVE  FALSE
  BY <1>0, <1>1, <1>11 DEF Reconnect
<1>12. ASSUME NEW r \in Requests, RedisCommandFails(r)
       PROVE  FALSE
  <2>1. stage[r] # "idle" /\ StopUsingRedis
    BY <1>12 DEF RedisCommandFails
  <2>2. redisAvailable
    BY <1>3, <2>1 DEF OnlyMemory
  <2> QED BY <1>0, <1>1, <1>2, <2>1, <2>2 DEF StopUsingRedis
<1> QED BY <1>4, <1>5, <1>6, <1>7, <1>8, <1>9, <1>10, <1>11, <1>12 DEF Next

\* The service starts with nothing counted.
LEMMA CountersStart == Init => CountersKnown /\ TwoPlaces /\ OnePlace
<1> SUFFICES ASSUME Init
             PROVE  CountersKnown /\ TwoPlaces /\ OnePlace
  OBVIOUS
<1>1. CountersKnown
  BY DEF Init, CountersKnown
<1>2. ASSUME NEW t \in Times
      PROVE  /\ Seen(t) = 0
             /\ RedisLeft(t) \in {0, Limit} /\ MemoryLeft(t) \in {0, Limit}
  <2>1. Pending(t) = {}
    BY DEF Init, Pending
  <2>2. admitted[t] = 0
    BY DEF Init
  <2> QED BY <2>1, <2>2, FS_EmptySet DEF Init, Seen, RedisLeft, MemoryLeft, Left
<1>3. CountedAnew = 0
  BY LimitType DEF Init, CountedAnew
<1>4. TwoPlaces
  BY <1>2, <1>3, LimitType DEF TwoPlaces
<1>5. OnlyRedis /\ OnlyMemory
  BY <1>2, <1>3, LimitType DEF Init, OnlyRedis, OnlyMemory
<1> QED BY <1>1, <1>4, <1>5 DEF OnePlace

\* The invariant bounds what has been let through in every stretch of time.
LEMMA AdmissionsFollow ==
  ASSUME TypeOK, CountersKnown, TwoPlaces, OnePlace
  PROVE  AdmissionsBounded
<1> SUFFICES ASSUME NEW t \in Times
             PROVE  admitted[t] <=
                      (IF webServer \/ failovers > 0 THEN 4 * Limit - 2 ELSE 2 * Limit - 1)
                        + CountedAnew
  BY DEF AdmissionsBounded, CountedAnew
<1>1. /\ admitted[t] \in Nat /\ Cardinality(Pending(t)) \in Nat
      /\ RedisLeft(t) \in Nat /\ MemoryLeft(t) \in Nat /\ CountedAnew \in Nat
      /\ t \in Nat /\ clock \in Nat /\ failovers \in Nat
  BY SeenType, CountersLeft, AnewType, BoundsType DEF TypeOK
<1>2. CASE t > clock
  BY <1>1, <1>2, LimitType DEF CountersKnown
<1>3. CASE t <= clock /\ (webServer \/ failovers > 0)
  <2>1. Seen(t) + RedisLeft(t) + MemoryLeft(t) <= 4 * Limit - 2 + CountedAnew
    BY <1>3 DEF TwoPlaces
  <2> QED BY <1>1, <1>3, <2>1, LimitType DEF Seen
<1>4. CASE t <= clock /\ ~(webServer \/ failovers > 0)
  <2>1. Seen(t) <= 2 * Limit - 1 + CountedAnew
    <3>1. OnlyRedis \/ OnlyMemory
      BY <1>1, <1>4 DEF OnePlace
    <3>2. \/ Seen(t) + RedisLeft(t) <= 2 * Limit - 1 + CountedAnew
          \/ Seen(t) + MemoryLeft(t) <= 2 * Limit - 1 + CountedAnew
      BY <1>4, <3>1 DEF OnlyRedis, OnlyMemory
    <3> QED BY <1>1, <3>2, LimitType DEF Seen
  <2> QED BY <1>1, <1>4, <2>1, LimitType DEF Seen
<1> QED BY <1>1, <1>2, <1>3, <1>4

\* However many requests overlap, for any limit and window, with Redis failing, forgetting
\* and coming back, commands sent twice and servers restarting, a stretch of time as long as
\* a window lets through what two windows of each counter allow, less their first hits, and
\* one window more for every time counting started anew.
THEOREM AdmissionsBoundedAlways == Spec => []AdmissionsBounded
<1>1. TypeOK /\ CountersKnown /\ [Next]_vars => CountersKnown'
  BY CountersKnownStep
<1>2. TypeOK /\ TypeOK' /\ CountersKnown /\ TwoPlaces /\ [Next]_vars => TwoPlaces'
  BY TwoPlacesStep
<1>3. TypeOK /\ TypeOK' /\ CountersKnown /\ OnePlace /\ [Next]_vars => OnePlace'
  BY OnePlaceStep
<1>4. TypeOK /\ CountersKnown /\ TwoPlaces /\ OnePlace => AdmissionsBounded
  BY AdmissionsFollow
<1> QED BY <1>1, <1>2, <1>3, <1>4, CountersStart, RateLimitTyped, PTL DEF Spec

\* Counters, clocks and histories keep to their types and bounds.
THEOREM RateLimitTypes == Spec => []TypeOK
BY RateLimitTyped, PTL
=============================================================================
