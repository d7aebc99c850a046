-------------------------- MODULE LLMFallbackProofs --------------------------
(***************************************************************************)
(* Proofs about LLMFallback: for any number of callers and processes, any   *)
(* limits, any number of days, Redis errors and stopped processes.          *)
(***************************************************************************)
EXTENDS LLMFallback, FiniteSetTheorems, TLAPS

USE CallerAssumption, LimitAssumption

(***************************************************************************)
(* The inductive invariant.                                                 *)
(***************************************************************************)
Running == {"idle", "count", "expire", "acquire", "request"}

\* The failed attempts are the ones before the current one, and a caller got to
\* its client because those before it gave up.
Progress(c) ==
    /\ call[c].at = "idle" => call[c].provider = "gemini" /\ call[c].attempt = 1
    /\ call[c].at \in {"count", "expire"} => call[c].provider = "vertex"
    /\ call[c].at \in Running => failed[c][call[c].provider] = call[c].attempt - 1
    /\ call[c].at = "backoff" =>
          call[c].attempt < Attempts /\ failed[c][call[c].provider] = call[c].attempt
    /\ call[c].provider = "gemini" => failed[c]["vertex"] = 0
    /\ call[c].provider # "claude" => failed[c]["claude"] = 0
    /\ call[c].provider # "gemini" => TriedTwice(c, "gemini")
    /\ call[c].provider = "claude" => TriedTwice(c, "vertex") \/ c \in refused
    /\ call[c].at = "failed" =>
          call[c].provider = "vertex" \/ (call[c].provider = "claude" /\ TriedTwice(c, "claude"))

Attempted == \A c \in Callers : Progress(c)

\* The counter of a day that may still be counted holds all INCRs of that day.
Counted ==
    /\ \A d \in Days : d > today => counter[d] = 0 /\ issued[d] = 0
    /\ counter[today] = issued[today]
    /\ \A c \in Callers : /\ call[c].day <= today
                          /\ call[c].at = "count" => counter[call[c].day] = issued[call[c].day]

\* Callers that drew a ticket and have not used it.
Holding(c) ==
    call[c].at = "expire" \/ (call[c].at = "acquire" /\ call[c].provider = "vertex")

\* A ticket is drawn once: no two requests or waiting callers of a day have the
\* same one, and a request has one within the limit.
Tickets ==
    /\ \A c \in Callers : Holding(c) =>
          /\ call[c].ticket >= 1 /\ call[c].ticket <= issued[call[c].day]
          /\ call[c].at = "acquire" => call[c].ticket <= DailyLimit
    /\ \A c1, c2 \in Callers :
          Holding(c1) /\ Holding(c2) /\ call[c1].day = call[c2].day
             /\ call[c1].ticket = call[c2].ticket => c1 = c2
    /\ \A r \in sent : /\ r.ticket >= 1 /\ r.ticket <= DailyLimit
                       /\ r.ticket <= issued[r.day]
    /\ \A r \in sent, c \in Callers :
          Holding(c) /\ r.day = call[c].day => r.ticket # call[c].ticket
    /\ \A r1, r2 \in sent :
          r1.day = r2.day /\ r1.ticket = r2.ticket => r1 = r2

\* A call that ended before Claude cost a Redis error of its own.
Charged == Cardinality(CutShort) <= errors

IInv == TypeOK /\ PermitsReturn /\ Attempted /\ Charged /\ Counted /\ Tickets

(***************************************************************************)
(* Lemmas about the helpers.                                                *)
(***************************************************************************)
\* A client method starts in a state of a call.
LEMMA EnterType ==
  ASSUME TypeOK, NEW q \in Providers, NEW n \in 1..Attempts
  PROVE  Enter(q, n) \in CallType
  BY DEF Enter, CallType, Places, TypeOK, Days

\* A call stays a call wherever it goes.
LEMMA AtType ==
  ASSUME TypeOK, NEW c \in Callers, NEW place \in Places
  PROVE  At(c, place) \in [Callers -> CallType]
  BY DEF At, TypeOK, CallType

\* An exception leads to the backoff, to the next client or out of LLMUtil.
LEMMA RaisedType ==
  ASSUME TypeOK, NEW c \in Callers, NEW e
  PROVE  Raised(c, e) \in [Callers -> CallType]
<1>1. At(c, "backoff") \in [Callers -> CallType] /\ At(c, "failed") \in [Callers -> CallType]
  BY AtType DEF Places, Ended
<1>2. Enter("vertex", 1) \in CallType /\ Enter("claude", 1) \in CallType
  BY EnterType DEF Providers, Attempts
<1> QED
  BY <1>1, <1>2 DEF Raised, TypeOK

\* Every method answers or raises an exception that is retried.
LEMMA OutcomeType ==
  ASSUME TypeOK, NEW c \in Callers, NEW r \in Responses
  PROVE  Outcome(c, r) \in Retryable \cup {"answer"}
<1>1. call[c].provider \in Providers
  BY DEF TypeOK, CallType
<1> QED
  BY <1>1 DEF Outcome, Providers, Responses, Retryable, GeminiResponse, GeminiGrounded,
         VertexResponse, VertexGrounded, ClaudeResponse, ClaudeGrounded

\* The count is the first INCR's or it is judged at once.
LEMMA JudgeType ==
  ASSUME TypeOK, NEW c \in Callers, NEW n \in Nat, Judge(c, n)
  PROVE  call' \in [Callers -> CallType] /\ refused' \subseteq Callers
<1>1. Raised(c, "VertexDailyLimitError") \in [Callers -> CallType]
  BY RaisedType
<1>2. [call EXCEPT ![c].at = "acquire", ![c].ticket = n] \in [Callers -> CallType]
  <2>1. [call[c] EXCEPT !.at = "acquire", !.ticket = n] \in CallType
    BY DEF TypeOK, CallType, Places
  <2> QED
    BY <2>1 DEF TypeOK
<1> QED
  BY <1>1, <1>2 DEF Judge, TypeOK

\* What an exception makes of the call, case by case; other calls stay.
LEMMA RaisedCases ==
  ASSUME TypeOK, NEW c \in Callers, NEW e, call' = Raised(c, e)
  PROVE  /\ \A b \in Callers \ {c} : call'[b] = call[b]
         /\ \/ /\ e \in Retryable /\ call[c].attempt < Attempts
               /\ call'[c] = [call[c] EXCEPT !.at = "backoff"]
            \/ /\ e \in Caught[call[c].provider]
               /\ e \notin Retryable \/ call[c].attempt = Attempts
               /\ \/ call[c].provider = "gemini" /\ call'[c] = Enter("vertex", 1)
                  \/ call[c].provider = "vertex" /\ call'[c] = Enter("claude", 1)
            \/ /\ e \notin Caught[call[c].provider]
               /\ e \notin Retryable \/ call[c].attempt = Attempts
               /\ call'[c] = [call[c] EXCEPT !.at = "failed"]
<1>1. call[c].provider \in Providers /\ call[c].attempt \in 1..Attempts
  BY DEF TypeOK, CallType
<1>2. Caught["claude"] = {}
  BY DEF Caught
<1> QED
  BY <1>1, <1>2 DEF Raised, At, TypeOK, Providers, Attempts

\* The cap is not retried; LLMUtil catches it.
LEMMA LimitError ==
  /\ "VertexDailyLimitError" \notin Retryable
  /\ "VertexDailyLimitError" \in Caught["vertex"]
  BY DEF Retryable, Caught

\* A Redis error is neither retried nor caught.
LEMMA RedisErrorUnhandled ==
  ASSUME NEW q \in Providers
  PROVE  "RedisError" \notin Retryable /\ "RedisError" \notin Caught[q]
  BY DEF Retryable, Caught, Providers

\* A provider's error that is tried again is caught, but for Claude's.
LEMMA ProviderErrorCaught ==
  ASSUME TypeOK, NEW c \in Callers, NEW r \in Responses, Outcome(c, r) # "answer",
         call[c].provider # "claude"
  PROVE  Outcome(c, r) \in Caught[call[c].provider]
<1>1. call[c].provider \in Providers
  BY DEF TypeOK, CallType
<1> QED
  BY <1>1 DEF Outcome, Providers, Responses, Caught, GeminiResponse, GeminiGrounded,
         VertexResponse, VertexGrounded

(***************************************************************************)
(* Every step keeps the types.                                              *)
(***************************************************************************)
LEMMA TypeInit == Init => TypeOK
  BY DEF Init, TypeOK, CallType, Places, Providers, Days, Attempts, Semaphores

RedisTyped ==
    /\ counter \in [Days -> Nat]
    /\ expires \subseteq Days
    /\ issued \in [Days -> Nat]

\* INCR and EXPIRE keep the types.
LEMMA RedisType ==
  ASSUME TypeOK, NEW d \in Days, Incremented(d) \/ Expired(d) \/ UNCHANGED redis
  PROVE  RedisTyped'
  BY DEF RedisTyped, TypeOK, Incremented, Expired, redis

\* A step of a caller that is not about a response.
LEMMA TypeCaller ==
  ASSUME TypeOK, Attempted, NEW c \in Callers,
         Start(c) \/ Count(c) \/ CountRaises(c) \/ Expire(c) \/ ExpireRaises(c)
           \/ Acquire(c) \/ Retry(c)
  PROVE  TypeOK'
<1> USE DEF TypeOK
<1>1. call[c] \in CallType /\ call[c].day \in Days /\ call[c].provider \in Providers
        /\ call[c].attempt \in 1..Attempts /\ ProcessOf[c] \in Processes
  BY DEF CallType
<1>2. counter[call[c].day] + 1 \in Nat
  BY <1>1
<1>3. Incremented(call[c].day) \/ Expired(call[c].day) \/ UNCHANGED redis => RedisTyped'
  BY <1>1, RedisType
<1>5. CASE Start(c)
  BY <1>5, EnterType DEF Start, redis, faults, Providers, Attempts
<1>6. CASE Count(c)
  <2>1. [call EXCEPT ![c].at = "expire", ![c].ticket = 1] \in [Callers -> CallType]
    <3>1. [call[c] EXCEPT !.at = "expire", !.ticket = 1] \in CallType
      BY <1>1 DEF CallType, Places
    <3> QED
      BY <3>1
  <2>2. counter[call[c].day] + 1 # 1 =>
          call' \in [Callers -> CallType] /\ refused' \subseteq Callers
    BY <1>2, <1>6, JudgeType DEF Count
  <2>3. call' \in [Callers -> CallType] /\ refused' \subseteq Callers
    BY <1>6, <2>1, <2>2 DEF Count
  <2> QED
    BY <1>3, <1>6, <2>3 DEF Count, faults, RedisTyped
<1>7. CASE CountRaises(c)
  <2>1. Raised(c, "RedisError") \in [Callers -> CallType]
    BY RaisedType
  <2> QED
    BY <1>3, <1>7, <2>1 DEF CountRaises, RedisError, RedisTyped
<1>8. CASE Expire(c)
  <2>1. call[c].ticket \in Nat
    BY <1>1 DEF CallType
  <2>2. call' \in [Callers -> CallType] /\ refused' \subseteq Callers
    BY <1>8, <2>1, JudgeType DEF Expire
  <2> QED
    BY <1>3, <1>8, <2>2 DEF Expire, faults, RedisTyped
<1>9. CASE ExpireRaises(c)
  <2>1. Raised(c, "RedisError") \in [Callers -> CallType]
    BY RaisedType
  <2> QED
    BY <1>3, <1>9, <2>1 DEF ExpireRaises, RedisError, RedisTyped
<1>10. CASE Acquire(c)
  <2>1. call' \in [Callers -> CallType]
    BY <1>10, AtType DEF Acquire, Places
  <2>2. permits' \in [Processes -> [Providers -> 0..ConcurrencyLimit]]
    BY <1>1, <1>10 DEF Acquire
  <2>3. sent' \subseteq RequestType
    BY <1>1, <1>10 DEF Acquire, RequestType, CallType
  <2> QED
    BY <1>10, <2>1, <2>2, <2>3 DEF Acquire, faults, redis
<1>11. CASE Retry(c)
  <2>1. call[c].attempt + 1 \in 1..Attempts
    BY <1>1, <1>11 DEF Retry, Attempted, Progress, Attempts
  <2> QED
    BY <1>1, <1>11, <2>1, EnterType DEF Retry, faults, redis
<1> QED
  BY <1>5, <1>6, <1>7, <1>8, <1>9, <1>10, <1>11

\* A request that ends holds a permit.
LEMMA PermitOut ==
  ASSUME TypeOK, PermitsReturn, NEW c \in Callers, call[c].at = "request"
  PROVE  permits[ProcessOf[c]][call[c].provider] < ConcurrencyLimit
<1> DEFINE p == ProcessOf[c]
           q == call[c].provider
<1>1. p \in Processes /\ q \in Providers
  BY DEF TypeOK, CallType
<1>2. IsFiniteSet(InFlight(p, q)) /\ c \in InFlight(p, q)
  BY FS_Subset DEF InFlight
<1>3. Cardinality(InFlight(p, q)) \in Nat /\ Cardinality(InFlight(p, q)) # 0
  BY <1>2, FS_CardinalityType, FS_EmptySet
<1>4. permits[p][q] + Cardinality(InFlight(p, q)) = ConcurrencyLimit
  BY <1>1 DEF PermitsReturn
<1>5. permits[p][q] \in Nat
  BY <1>1 DEF TypeOK
<1> HIDE DEF p, q
<1>6. permits[p][q] < ConcurrencyLimit
  BY <1>3, <1>4, <1>5
<1> QED
  BY <1>6 DEF p, q

LEMMA TypeStep == TypeOK /\ PermitsReturn /\ Attempted /\ [Next]_vars => TypeOK'
<1> SUFFICES ASSUME TypeOK, PermitsReturn, Attempted, [Next]_vars
             PROVE  TypeOK'
  OBVIOUS
<1> USE DEF TypeOK
<1>1. ASSUME NEW c \in Callers,
             Start(c) \/ Count(c) \/ CountRaises(c) \/ Expire(c) \/ ExpireRaises(c)
               \/ Acquire(c) \/ Retry(c)
      PROVE  TypeOK'
  BY <1>1, TypeCaller
<1>2. ASSUME NEW c \in Callers, call[c].at = "request"
      PROVE  Released(c) \in [Processes -> [Providers -> 0..ConcurrencyLimit]]
  <2>1. ProcessOf[c] \in Processes /\ call[c].provider \in Providers
    BY DEF CallType
  <2> QED
    BY <1>2, <2>1, PermitOut DEF Released
<1>3. ASSUME NEW c \in Callers, Answered(c)
      PROVE  TypeOK'
  <2>1. call' \in [Callers -> CallType]
    BY <1>3, AtType DEF Answered, Places, Ended
  <2> QED
    BY <1>2, <1>3, <2>1 DEF Answered, redis, faults
<1>4. ASSUME NEW c \in Callers, NEW r \in Responses, Responded(c, r)
      PROVE  TypeOK'
  <2>1. call' \in [Callers -> CallType]
    BY <1>4, RaisedType DEF Responded
  <2>2. call[c].provider \in Providers /\ call[c].attempt \in 1..Attempts
    BY DEF CallType
  <2>3. failed[c][call[c].provider] + 1 \in 0..Attempts
    BY <1>4, <2>2 DEF Responded, Attempted, Progress, Running, Attempts
  <2>4. failed' \in [Callers -> [Providers -> 0..Attempts]]
    BY <1>4, <2>2, <2>3 DEF Responded
  <2> QED
    BY <1>2, <1>4, <2>1, <2>4 DEF Responded, redis, faults
<1>5. CASE NewDay
  BY <1>5 DEF NewDay, redis, faults, Days
<1>6. ASSUME NEW d \in Days, KeyExpires(d)
      PROVE  TypeOK'
  BY <1>6 DEF KeyExpires, faults
<1>7. ASSUME NEW p \in Processes, Crash(p)
      PROVE  TypeOK'
  <2>1. call' \in [Callers -> CallType]
    <3>1. \A b \in Callers : [call[b] EXCEPT !.at = "stopped"] \in CallType
      BY DEF CallType, Places, Ended
    <3> QED
      BY <1>7, <3>1 DEF Crash
  <2>2. permits' \in [Processes -> [Providers -> 0..ConcurrencyLimit]]
    BY <1>7 DEF Crash, Semaphores
  <2> QED
    BY <1>7, <2>1, <2>2 DEF Crash, redis
<1>8. CASE UNCHANGED vars
  BY <1>8 DEF vars, redis, faults
<1> QED
  BY <1>1, <1>3, <1>4, <1>5, <1>6, <1>7, <1>8 DEF Next, Proceed

(***************************************************************************)
(* Permits come back.                                                       *)
(***************************************************************************)
LEMMA InFlightFinite ==
  ASSUME NEW p \in Processes, NEW q \in Providers
  PROVE  IsFiniteSet(InFlight(p, q)) /\ Cardinality(InFlight(p, q)) \in Nat
<1>1. IsFiniteSet(InFlight(p, q))
  BY FS_Subset DEF InFlight
<1> QED
  BY <1>1, FS_CardinalityType

LEMMA PermitsInit == Init => PermitsReturn
<1> SUFFICES ASSUME Init, NEW p \in Processes, NEW q \in Providers
             PROVE  permits[p][q] + Cardinality(InFlight(p, q)) = ConcurrencyLimit
  BY DEF PermitsReturn
<1>1. InFlight(p, q) = {}
  BY DEF InFlight, Init
<1>2. permits[p][q] = ConcurrencyLimit
  BY DEF Init, Semaphores
<1> QED
  BY <1>1, <1>2, FS_EmptySet

\* A step that changes no permit and neither starts nor ends a request.
LEMMA PermitsStay ==
  ASSUME TypeOK, PermitsReturn, UNCHANGED permits,
         \A b \in Callers : (call[b].at = "request" \/ call'[b].at = "request")
                               => call'[b] = call[b]
  PROVE  PermitsReturn'
<1> SUFFICES ASSUME NEW p \in Processes, NEW q \in Providers
             PROVE  InFlight(p, q)' = InFlight(p, q)
  BY DEF PermitsReturn
<1> QED
  BY DEF InFlight

\* A request ends and gives its permit back.
LEMMA PermitsRelease ==
  ASSUME TypeOK, PermitsReturn, NEW c \in Callers, call[c].at = "request",
         permits' = Released(c), call'[c].at # "request",
         \A b \in Callers \ {c} : call'[b] = call[b]
  PROVE  PermitsReturn'
<1> SUFFICES ASSUME NEW p \in Processes, NEW q \in Providers
             PROVE  permits'[p][q] + Cardinality(InFlight(p, q)') = ConcurrencyLimit
  BY DEF PermitsReturn
<1>1. /\ permits[p][q] \in Nat
      /\ permits[p][q] + Cardinality(InFlight(p, q)) = ConcurrencyLimit
      /\ IsFiniteSet(InFlight(p, q)) /\ Cardinality(InFlight(p, q)) \in Nat
  BY InFlightFinite DEF TypeOK, PermitsReturn
<1>2. CASE p = ProcessOf[c] /\ q = call[c].provider
  <2>1. InFlight(p, q)' = InFlight(p, q) \ {c} /\ c \in InFlight(p, q)
    <3>1. c \in InFlight(p, q) /\ c \notin InFlight(p, q)'
      BY <1>2 DEF InFlight
    <3>2. \A b \in Callers \ {c} : b \in InFlight(p, q)' <=> b \in InFlight(p, q)
      BY DEF InFlight
    <3>3. InFlight(p, q) \subseteq Callers /\ InFlight(p, q)' \subseteq Callers
      BY DEF InFlight
    <3> QED
      BY <3>1, <3>2, <3>3
  <2>2. Cardinality(InFlight(p, q)') = Cardinality(InFlight(p, q)) - 1
    <3>1. Cardinality(InFlight(p, q) \ {c}) = Cardinality(InFlight(p, q)) - 1
      BY <1>1, <2>1, FS_RemoveElement
    <3> QED
      BY <2>1, <3>1
  <2>3. permits'[p][q] = permits[p][q] + 1
    BY <1>2 DEF Released, TypeOK
  <2> QED
    BY <1>1, <2>2, <2>3
<1>3. CASE ~(p = ProcessOf[c] /\ q = call[c].provider)
  <2>1. InFlight(p, q)' = InFlight(p, q)
    BY <1>3 DEF InFlight
  <2>2. permits'[p][q] = permits[p][q]
    BY <1>3 DEF Released, TypeOK
  <2> QED
    BY <1>1, <2>1, <2>2
<1> QED
  BY <1>2, <1>3

\* A caller's step changes no other call.
LEMMA CallerAlone ==
  ASSUME TypeOK, NEW c \in Callers,
         Start(c) \/ Proceed(c) \/ CountRaises(c) \/ ExpireRaises(c)
  PROVE  \A b \in Callers \ {c} : call'[b] = call[b]
<1> USE DEF TypeOK
<1>1. ASSUME NEW e, call' = Raised(c, e)
      PROVE  \A b \in Callers \ {c} : call'[b] = call[b]
  BY <1>1, RaisedCases
<1>2. ASSUME NEW n \in Nat, Judge(c, n)
      PROVE  \A b \in Callers \ {c} : call'[b] = call[b]
  BY <1>1, <1>2 DEF Judge
<1>3. call[c].ticket \in Nat /\ call[c].day \in Days
  BY DEF CallType
<1>4. CASE Start(c)
  BY <1>4 DEF Start
<1>5. CASE Count(c)
  <2>1. counter[call[c].day] + 1 \in Nat
    BY <1>3
  <2> QED
    BY <1>2, <1>5, <2>1 DEF Count
<1>6. CASE Expire(c)
  BY <1>2, <1>3, <1>6 DEF Expire
<1>7. CASE Acquire(c) \/ Answered(c)
  BY <1>7 DEF Acquire, Answered, At
<1>8. CASE Retry(c)
  BY <1>8 DEF Retry
<1>9. CASE CountRaises(c) \/ ExpireRaises(c)
  BY <1>1, <1>9 DEF CountRaises, ExpireRaises
<1>10. CASE \E r \in Responses : Responded(c, r)
  BY <1>1, <1>10 DEF Responded
<1> QED
  BY <1>4, <1>5, <1>6, <1>7, <1>8, <1>9, <1>10 DEF Proceed

\* Where an exception leads no request is under way.
LEMMA RaisedPlace ==
  ASSUME TypeOK, NEW c \in Callers, NEW e, call' = Raised(c, e)
  PROVE  call'[c].at \in {"backoff", "count", "acquire", "failed"}
<1>1. call[c] \in CallType
  BY DEF TypeOK
<1>2. Enter("vertex", 1).at = "count" /\ Enter("claude", 1).at = "acquire"
  BY DEF Enter
<1>3. /\ [call[c] EXCEPT !.at = "backoff"].at = "backoff"
      /\ [call[c] EXCEPT !.at = "failed"].at = "failed"
  BY <1>1 DEF CallType
<1> QED
  BY <1>2, <1>3, RaisedCases

LEMMA PermitsStep == TypeOK /\ PermitsReturn /\ [Next]_vars => PermitsReturn'
<1> SUFFICES ASSUME TypeOK, PermitsReturn, [Next]_vars
             PROVE  PermitsReturn'
  OBVIOUS
<1> USE DEF TypeOK
<1>1. ASSUME NEW c \in Callers,
             Start(c) \/ Count(c) \/ CountRaises(c) \/ Expire(c) \/ ExpireRaises(c)
               \/ Retry(c)
      PROVE  PermitsReturn'
  <2>1. call[c] \in CallType /\ counter[call[c].day] + 1 \in Nat
    BY DEF CallType
  <2>2. \A b \in Callers \ {c} : call'[b] = call[b]
    BY <1>1, CallerAlone DEF Proceed
  <2>3. call[c].at # "request" /\ UNCHANGED permits
    BY <1>1 DEF Start, Count, CountRaises, Expire, ExpireRaises, Retry
  <2>4. ASSUME NEW n \in Nat, Judge(c, n)
        PROVE  call'[c].at # "request"
    <3>1. CASE call' = Raised(c, "VertexDailyLimitError")
      BY <3>1, RaisedPlace
    <3>2. CASE call' = [call EXCEPT ![c].at = "acquire", ![c].ticket = n]
      BY <2>1, <3>2 DEF CallType
    <3> QED
      BY <2>4, <3>1, <3>2 DEF Judge
  <2>5. call'[c].at # "request"
    <3>1. CASE Start(c) \/ Retry(c)
      BY <2>1, <3>1 DEF Start, Retry, Enter, CallType
    <3>2. CASE Count(c)
      BY <2>1, <2>4, <3>2 DEF Count, CallType
    <3>3. CASE Expire(c)
      BY <2>1, <2>4, <3>3 DEF Expire, CallType
    <3>4. CASE CountRaises(c) \/ ExpireRaises(c)
      BY <3>4, RaisedPlace DEF CountRaises, ExpireRaises
    <3> QED
      BY <1>1, <3>1, <3>2, <3>3, <3>4
  <2> QED
    BY <2>2, <2>3, <2>5, PermitsStay
<1>2. ASSUME NEW c \in Callers, Acquire(c)
      PROVE  PermitsReturn'
  <2> SUFFICES ASSUME NEW p \in Processes, NEW q \in Providers
               PROVE  permits'[p][q] + Cardinality(InFlight(p, q)') = ConcurrencyLimit
    BY DEF PermitsReturn
  <2>1. /\ permits[p][q] \in Nat
        /\ permits[p][q] + Cardinality(InFlight(p, q)) = ConcurrencyLimit
        /\ IsFiniteSet(InFlight(p, q)) /\ Cardinality(InFlight(p, q)) \in Nat
    BY InFlightFinite DEF PermitsReturn
  <2>2. call[c] \in CallType /\ call[c].at = "acquire" /\ call'[c] = [call[c] EXCEPT !.at = "request"]
          /\ \A b \in Callers \ {c} : call'[b] = call[b]
    BY <1>2 DEF Acquire, At
  <2>3. CASE p = ProcessOf[c] /\ q = call[c].provider
    <3>1. InFlight(p, q)' = InFlight(p, q) \cup {c} /\ c \notin InFlight(p, q)
      BY <2>2, <2>3 DEF InFlight, CallType
    <3>2. Cardinality(InFlight(p, q)') = Cardinality(InFlight(p, q)) + 1
      BY <2>1, <3>1, FS_AddElement
    <3>3. permits'[p][q] = permits[p][q] - 1
      BY <1>2, <2>3 DEF Acquire
    <3> QED
      BY <2>1, <3>2, <3>3
  <2>4. CASE ~(p = ProcessOf[c] /\ q = call[c].provider)
    <3>1. InFlight(p, q)' = InFlight(p, q)
      BY <2>2, <2>4 DEF InFlight, CallType
    <3>2. permits'[p][q] = permits[p][q]
      BY <1>2, <2>4 DEF Acquire
    <3> QED
      BY <2>1, <3>1, <3>2
  <2> QED
    BY <2>3, <2>4
<1>3. ASSUME NEW c \in Callers, Answered(c) \/ \E r \in Responses : Responded(c, r)
      PROVE  PermitsReturn'
  <2>1. \A b \in Callers \ {c} : call'[b] = call[b]
    BY <1>3, CallerAlone DEF Proceed
  <2>2. call[c].at = "request" /\ permits' = Released(c)
    BY <1>3 DEF Answered, Responded
  <2>3. call'[c].at # "request"
    <3>1. CASE Answered(c)
      BY <3>1 DEF Answered, At, CallType
    <3>2. CASE \E r \in Responses : Responded(c, r)
      BY <3>2, RaisedPlace DEF Responded
    <3> QED
      BY <1>3, <3>1, <3>2
  <2> QED
    BY <2>1, <2>2, <2>3, PermitsRelease
<1>4. ASSUME NEW p0 \in Processes, Crash(p0)
      PROVE  PermitsReturn'
  <2> SUFFICES ASSUME NEW p \in Processes, NEW q \in Providers
               PROVE  permits'[p][q] + Cardinality(InFlight(p, q)') = ConcurrencyLimit
    BY DEF PermitsReturn
  <2>1. CASE p = p0
    <3>1. InFlight(p, q)' = {}
      BY <1>4, <2>1 DEF Crash, InFlight, CallType, Ended
    <3>2. permits'[p][q] = ConcurrencyLimit
      BY <1>4, <2>1 DEF Crash, Semaphores
    <3> QED
      BY <3>1, <3>2, FS_EmptySet
  <2>2. CASE p # p0
    <3>1. InFlight(p, q)' = InFlight(p, q)
      BY <1>4, <2>2 DEF Crash, InFlight, CallType, Ended
    <3>2. permits'[p][q] = permits[p][q]
      BY <1>4, <2>2 DEF Crash
    <3> QED
      BY <3>1, <3>2 DEF PermitsReturn
  <2> QED
    BY <2>1, <2>2
<1>5. CASE NewDay \/ (\E d \in Days : KeyExpires(d)) \/ UNCHANGED vars
  BY <1>5, PermitsStay DEF NewDay, KeyExpires, vars
<1> QED
  BY <1>1, <1>2, <1>3, <1>4, <1>5 DEF Next, Proceed

(***************************************************************************)
(* How far a caller got.                                                    *)
(***************************************************************************)
LEMMA AttemptedInit == Init => Attempted
  BY DEF Init, Attempted, Progress, Running, TriedTwice, Providers, Attempts

\* A call that goes on or stops without a new failure.
LEMMA ProgressStays ==
  ASSUME TypeOK, NEW c \in Callers, Progress(c), failed'[c] = failed[c],
         c \in refused => c \in refused', errors' >= errors, errors' \in Nat,
         call'[c].provider = call[c].provider, call'[c].attempt = call[c].attempt,
         \/ call'[c].at = call[c].at
         \/ call'[c].at \in {"acquire", "request"} /\ call[c].at \in Running
         \/ call'[c].at = "expire" /\ call[c].at = "count"
         \/ call'[c].at \in {"answered", "stopped"}
         \/ call'[c].at = "failed" /\ call'[c].provider = "vertex"
  PROVE  Progress(c)'
<1>1. errors \in Nat /\ "expire" \in Running /\ "acquire" \in Running
  BY DEF TypeOK, Running
<1> USE DEF Progress, Running, TriedTwice
<1>2. CASE call'[c].at = call[c].at
  BY <1>1, <1>2
<1>3. CASE call'[c].at \in {"acquire", "request"} /\ call[c].at \in Running
  BY <1>1, <1>3
<1>4. CASE call'[c].at = "expire" /\ call[c].at = "count"
  BY <1>1, <1>4
<1>5. CASE call'[c].at \in {"answered", "stopped"}
  BY <1>1, <1>5
<1>6. CASE call'[c].at = "failed" /\ call'[c].provider = "vertex"
  BY <1>1, <1>6
<1> QED
  BY <1>2, <1>3, <1>4, <1>5, <1>6

\* The next client or the next attempt.
LEMMA ProgressEnters ==
  ASSUME TypeOK, NEW c \in Callers, Progress(c), failed'[c] = failed[c],
         c \in refused => c \in refused', errors' >= errors, errors' \in Nat,
         \/ call[c].at = "idle" /\ call'[c] = Enter("gemini", 1)
         \/ call[c].at = "backoff" /\ call'[c] = Enter(call[c].provider, call[c].attempt + 1)
         \/ call[c].provider = "vertex" /\ call'[c] = Enter("claude", 1) /\ c \in refused'
  PROVE  Progress(c)'
<1>1. call[c] \in CallType /\ failed[c] \in [Providers -> 0..Attempts] /\ errors \in Nat /\ errors' \in Nat
  BY DEF TypeOK
<1> USE DEF Progress, Running, TriedTwice, Enter, Providers, Attempts
<1>2. CASE call[c].at = "idle" /\ call'[c] = Enter("gemini", 1)
  BY <1>1, <1>2
<1>3. CASE call[c].at = "backoff" /\ call'[c] = Enter(call[c].provider, call[c].attempt + 1)
  <2>1. call[c].provider \in Providers /\ call[c].attempt \in 1..Attempts
    BY <1>1 DEF CallType
  <2> QED
    BY <1>1, <1>3, <2>1
<1>4. CASE call[c].provider = "vertex" /\ call'[c] = Enter("claude", 1) /\ c \in refused'
  BY <1>1, <1>4
<1> QED
  BY <1>2, <1>3, <1>4

\* A response that is not an answer.
LEMMA ProgressResponded ==
  ASSUME TypeOK, NEW c \in Callers, Progress(c), NEW r \in Responses, Responded(c, r)
  PROVE  Progress(c)'
<1> USE DEF TypeOK
<1> DEFINE q == call[c].provider
           e == Outcome(c, r)
<1>1. q \in Providers /\ call[c].attempt \in 1..Attempts /\ call[c] \in CallType
        /\ failed[c] \in [Providers -> 0..Attempts]
  BY DEF CallType
<1>2. e \in Retryable /\ (q # "claude" => e \in Caught[q])
  BY OutcomeType, ProviderErrorCaught DEF Responded
<1>3. /\ failed'[c] = [failed[c] EXCEPT ![q] = call[c].attempt]
      /\ call[c].at = "request" /\ UNCHANGED <<errors, refused>>
  <2>1. call[c].at = "request" /\ failed[c][q] = call[c].attempt - 1
    BY DEF Responded, Progress, Running
  <2>2. failed[c][q] + 1 = call[c].attempt
    BY <1>1, <2>1
  <2>3. failed'[c] = [failed[c] EXCEPT ![q] = failed[c][q] + 1]
    BY <1>1 DEF Responded
  <2> QED
    BY <2>1, <2>2, <2>3 DEF Responded, faults
<1>4. /\ failed'[c][q] = call[c].attempt
      /\ \A p \in Providers \ {q} : failed'[c][p] = failed[c][p]
  BY <1>1, <1>3
<1> HIDE DEF e, q
<1>5. \/ call[c].attempt < Attempts /\ call'[c] = [call[c] EXCEPT !.at = "backoff"]
      \/ call[c].attempt = Attempts /\ q = "gemini" /\ call'[c] = Enter("vertex", 1)
      \/ call[c].attempt = Attempts /\ q = "vertex" /\ call'[c] = Enter("claude", 1)
      \/ call[c].attempt = Attempts /\ q = "claude" /\ call'[c] = [call[c] EXCEPT !.at = "failed"]
  BY <1>1, <1>2, RaisedCases DEF Responded, e, q, Providers
<1> USE DEF Progress, Running, TriedTwice, Enter, Providers, Attempts
<1>6. CASE call[c].attempt < Attempts /\ call'[c] = [call[c] EXCEPT !.at = "backoff"]
  BY <1>1, <1>3, <1>4, <1>6 DEF q, CallType
<1>7. CASE call[c].attempt = Attempts /\ q = "gemini" /\ call'[c] = Enter("vertex", 1)
  BY <1>1, <1>3, <1>4, <1>7 DEF q
<1>8. CASE call[c].attempt = Attempts /\ q = "vertex" /\ call'[c] = Enter("claude", 1)
  BY <1>1, <1>3, <1>4, <1>8 DEF q
<1>9. CASE call[c].attempt = Attempts /\ q = "claude" /\ call'[c] = [call[c] EXCEPT !.at = "failed"]
  BY <1>1, <1>3, <1>4, <1>9 DEF q, CallType
<1> QED
  BY <1>5, <1>6, <1>7, <1>8, <1>9

LEMMA AttemptedStep == TypeOK /\ TypeOK' /\ Attempted /\ [Next]_vars => Attempted'
<1> SUFFICES ASSUME TypeOK, TypeOK', Attempted, [Next]_vars, NEW b \in Callers
             PROVE  Progress(b)'
  BY DEF Attempted
<1>1. Progress(b)
  BY DEF Attempted
<1>2. call[b] \in CallType /\ errors \in Nat /\ errors' \in Nat /\ failed[b] \in [Providers -> 0..Attempts]
  BY DEF TypeOK
<1>3. ASSUME NEW c \in Callers \ {b},
             Start(c) \/ Proceed(c) \/ CountRaises(c) \/ ExpireRaises(c)
      PROVE  Progress(b)'
  <2>1. call'[b] = call[b]
    BY <1>3, CallerAlone
  <2>2. failed'[b] = failed[b] /\ (b \in refused => b \in refused') /\ errors' >= errors
    BY <1>2, <1>3 DEF Start, Proceed, Count, Expire, Acquire, Retry, Answered, Responded, CountRaises,
       ExpireRaises, RedisError, Judge, faults, TypeOK
  <2> QED
    BY <1>1, <1>2, <2>1, <2>2, ProgressStays
<1>4. CASE Start(b)
  BY <1>1, <1>2, <1>4, ProgressEnters DEF Start, faults, TypeOK
<1>5. CASE Retry(b)
  BY <1>1, <1>2, <1>5, ProgressEnters DEF Retry, faults, TypeOK
<1>6. ASSUME NEW n \in Nat, Judge(b, n), call[b].at \in {"count", "expire"},
             UNCHANGED <<failed, errors>>
      PROVE  Progress(b)'
  <2>1. call[b].provider = "vertex"
    BY <1>1, <1>6 DEF Progress
  <2>2. CASE n > DailyLimit
    <3>1. call'[b] = Enter("claude", 1) /\ b \in refused' /\ refused \subseteq refused'
      BY <1>6, <2>1, <2>2, LimitError, RaisedCases DEF Judge
    <3> QED
      BY <1>1, <1>2, <1>6, <2>1, <3>1, ProgressEnters
  <2>3. CASE ~(n > DailyLimit)
    <3>1. call'[b] = [call[b] EXCEPT !.at = "acquire", !.ticket = n] /\ UNCHANGED refused
      BY <1>6, <2>3 DEF Judge, TypeOK
    <3>2. call'[b].at = "acquire" /\ call'[b].provider = call[b].provider
            /\ call'[b].attempt = call[b].attempt
      BY <1>2, <3>1 DEF CallType
    <3>3. call[b].at \in Running /\ UNCHANGED <<failed, refused, errors>>
      BY <1>6, <3>1 DEF Running
    <3> QED
      BY <1>1, <1>2, <3>2, <3>3, ProgressStays
  <2> QED
    BY <2>2, <2>3
<1>7. CASE Count(b)
  <2>1. counter[call[b].day] + 1 \in Nat
    BY <1>2 DEF TypeOK, CallType
  <2>2. CASE counter[call[b].day] + 1 = 1
    <3>1. call'[b] = [call[b] EXCEPT !.at = "expire", !.ticket = 1]
      BY <1>7, <2>2 DEF Count, TypeOK
    <3>2. call'[b].at = "expire" /\ call'[b].provider = call[b].provider
            /\ call'[b].attempt = call[b].attempt
      BY <1>2, <3>1 DEF CallType
    <3>3. UNCHANGED <<failed, refused, errors>> /\ call[b].at = "count"
      BY <1>7, <2>2 DEF Count, faults
    <3> QED
      BY <1>1, <1>2, <3>2, <3>3, ProgressStays
  <2>3. CASE counter[call[b].day] + 1 # 1
    BY <1>6, <1>7, <2>1, <2>3 DEF Count, faults
  <2> QED
    BY <2>2, <2>3
<1>8. CASE Expire(b)
  BY <1>2, <1>6, <1>8 DEF Expire, faults, CallType
<1>9. CASE CountRaises(b) \/ ExpireRaises(b)
  <2>1. call[b].provider \in Providers /\ call[b].provider = "vertex"
    BY <1>1, <1>2, <1>9 DEF CallType, Progress, CountRaises, ExpireRaises
  <2>2. call'[b] = [call[b] EXCEPT !.at = "failed"]
    BY <1>9, <2>1, RaisedCases, RedisErrorUnhandled DEF CountRaises, ExpireRaises
  <2> QED
    BY <1>1, <1>2, <1>9, <2>1, <2>2, ProgressStays DEF CountRaises, ExpireRaises, RedisError, CallType
<1>10. CASE Acquire(b) \/ Answered(b)
  <2>1. \/ call'[b] = [call[b] EXCEPT !.at = "request"] /\ call[b].at = "acquire"
        \/ call'[b] = [call[b] EXCEPT !.at = "answered"]
    BY <1>10 DEF Acquire, Answered, At, TypeOK
  <2> QED
    BY <1>1, <1>2, <1>10, <2>1, ProgressStays DEF Acquire, Answered, faults, CallType, Running
<1>11. CASE \E r \in Responses : Responded(b, r)
  BY <1>1, <1>11, ProgressResponded
<1>12. ASSUME NEW p \in Processes, Crash(p)
       PROVE  Progress(b)'
  <2>1. call'[b] = call[b] \/ call'[b] = [call[b] EXCEPT !.at = "stopped"]
    BY <1>12 DEF Crash
  <2> QED
    BY <1>1, <1>2, <1>12, <2>1, ProgressStays DEF Crash, CallType
<1>13. CASE NewDay \/ (\E d \in Days : KeyExpires(d)) \/ UNCHANGED vars
  BY <1>1, <1>2, <1>13, ProgressStays DEF NewDay, KeyExpires, vars, faults
<1> QED
  BY <1>3, <1>4, <1>5, <1>7, <1>8, <1>9, <1>10, <1>11, <1>12, <1>13 DEF Next, Proceed

(***************************************************************************)
(* Every call that is cut short has its Redis error.                        *)
(***************************************************************************)
LEMMA CutShortFinite == IsFiniteSet(CutShort) /\ Cardinality(CutShort) \in Nat
<1>1. CutShort \subseteq Callers
  BY DEF CutShort
<1> QED
  BY <1>1, FS_Subset, FS_CardinalityType

LEMMA ChargedInit == Init => Charged
<1> SUFFICES ASSUME Init PROVE Charged
  OBVIOUS
<1>1. CutShort = {}
  BY DEF Init, CutShort
<1> QED
  BY <1>1, FS_EmptySet DEF Init, Charged

\* A step that cuts no call short.
LEMMA ChargedStays ==
  ASSUME TypeOK, TypeOK', Charged, CutShort' \subseteq CutShort, errors' >= errors
  PROVE  Charged'
<1>1. Cardinality(CutShort') <= Cardinality(CutShort) /\ Cardinality(CutShort') \in Nat
  BY CutShortFinite, FS_Subset, FS_CardinalityType
<1> QED
  BY <1>1, CutShortFinite DEF Charged, TypeOK

\* Nothing but a Redis error cuts a call short: where a step of the call itself
\* fails it, Claude raised.
LEMMA NotCutShort ==
  ASSUME TypeOK, TypeOK', Attempted, NEW c \in Callers, Start(c) \/ Proceed(c)
  PROVE  ~(call'[c].at = "failed" /\ call'[c].provider # "claude")
<1>1. call[c] \in CallType /\ call[c].provider \in Providers
  BY DEF TypeOK, CallType
<1>2. CASE Start(c) \/ Retry(c)
  BY <1>2 DEF Start, Retry, Enter, TypeOK
<1>3. ASSUME NEW n \in Nat, Judge(c, n), call[c].at \in {"count", "expire"}
      PROVE  call'[c].at # "failed"
  <2>1. call[c].provider = "vertex"
    BY <1>3 DEF Attempted, Progress
  <2>2. CASE n > DailyLimit
    <3>1. call'[c] = Enter("claude", 1)
      BY <1>3, <2>1, <2>2, LimitError, RaisedCases DEF Judge
    <3> QED
      BY <3>1 DEF Enter
  <2>3. CASE ~(n > DailyLimit)
    BY <1>1, <1>3, <2>3 DEF Judge, TypeOK, CallType
  <2> QED
    BY <2>2, <2>3
<1>4. CASE Count(c)
  <2>1. counter[call[c].day] + 1 \in Nat
    BY <1>1 DEF TypeOK, CallType
  <2>2. CASE counter[call[c].day] + 1 = 1
    BY <1>1, <1>4, <2>2 DEF Count, TypeOK, CallType
  <2>3. CASE counter[call[c].day] + 1 # 1
    BY <1>3, <1>4, <2>1, <2>3 DEF Count
  <2> QED
    BY <2>2, <2>3
<1>5. CASE Expire(c)
  BY <1>1, <1>3, <1>5 DEF Expire, CallType
<1>6. CASE Acquire(c) \/ Answered(c)
  BY <1>1, <1>6 DEF Acquire, Answered, At, TypeOK, CallType
<1>7. ASSUME NEW r \in Responses, Responded(c, r)
      PROVE  ~(call'[c].at = "failed" /\ call'[c].provider # "claude")
  <2>1. Outcome(c, r) \in Retryable /\ Outcome(c, r) # "answer"
    BY <1>7, OutcomeType DEF Responded
  <2>2. CASE call[c].provider # "claude"
    <3>1. Outcome(c, r) \in Caught[call[c].provider]
      BY <2>1, <2>2, ProviderErrorCaught
    <3>2. \/ call'[c] = [call[c] EXCEPT !.at = "backoff"]
          \/ call'[c] = Enter("vertex", 1)
          \/ call'[c] = Enter("claude", 1)
      BY <1>7, <3>1, RaisedCases DEF Responded
    <3> QED
      BY <1>1, <3>2 DEF Enter, CallType
  <2>3. CASE call[c].provider = "claude"
    BY <1>1, <1>7, <2>3, RaisedCases DEF Responded, Enter, CallType
  <2> QED
    BY <2>2, <2>3
<1> QED
  BY <1>2, <1>4, <1>5, <1>6, <1>7 DEF Proceed

LEMMA ChargedStep ==
  TypeOK /\ TypeOK' /\ Attempted /\ Attempted' /\ Charged /\ [Next]_vars => Charged'
<1> SUFFICES ASSUME TypeOK, TypeOK', Attempted, Attempted', Charged, [Next]_vars
             PROVE  Charged'
  OBVIOUS
<1>1. errors \in Nat /\ errors' \in Nat
  BY DEF TypeOK
<1>2. ASSUME NEW c \in Callers, CountRaises(c) \/ ExpireRaises(c)
      PROVE  Charged'
  <2>1. \A b \in Callers \ {c} : call'[b] = call[b]
    BY <1>2, CallerAlone
  <2>2. CutShort' \subseteq CutShort \cup {c} /\ errors' = errors + 1
    BY <1>2, <2>1 DEF CutShort, CountRaises, ExpireRaises, RedisError
  <2>3. IsFiniteSet(CutShort \cup {c}) /\ Cardinality(CutShort \cup {c}) <= Cardinality(CutShort) + 1
          /\ Cardinality(CutShort \cup {c}) \in Nat
    <3>1. /\ IsFiniteSet(CutShort \cup {c})
          /\ Cardinality(CutShort \cup {c})
               = IF c \in CutShort THEN Cardinality(CutShort) ELSE Cardinality(CutShort) + 1
      BY CutShortFinite, FS_AddElement
    <3> QED
      BY <3>1, CutShortFinite
  <2>4. Cardinality(CutShort') <= Cardinality(CutShort \cup {c}) /\ Cardinality(CutShort') \in Nat
    BY <2>2, <2>3, FS_Subset, FS_CardinalityType
  <2> QED
    BY <1>1, <2>2, <2>3, <2>4, CutShortFinite DEF Charged
<1>3. ASSUME NEW c \in Callers, Start(c) \/ Proceed(c)
      PROVE  Charged'
  <2>1. \A b \in Callers \ {c} : call'[b] = call[b]
    BY <1>3, CallerAlone
  <2>2. errors' = errors
    BY <1>3 DEF Start, Proceed, Count, Expire, Acquire, Retry, Answered, Responded, faults
  <2>3. c \notin CutShort'
    BY <1>3, NotCutShort DEF CutShort
  <2> QED
    BY <1>1, <2>1, <2>2, <2>3, ChargedStays DEF CutShort
<1>4. ASSUME NEW p \in Processes, Crash(p)
      PROVE  Charged'
  <2>1. \A b \in Callers : call'[b] = call[b] \/ call'[b].at = "stopped"
    BY <1>4 DEF Crash, TypeOK, CallType
  <2>2. errors' = errors
    BY <1>4 DEF Crash
  <2> QED
    BY <1>1, <2>1, <2>2, ChargedStays DEF CutShort
<1>5. CASE NewDay \/ (\E d \in Days : KeyExpires(d)) \/ UNCHANGED vars
  <2>1. UNCHANGED <<call, errors>>
    BY <1>5 DEF NewDay, KeyExpires, vars, faults
  <2> QED
    BY <1>1, <2>1, ChargedStays DEF CutShort
<1> QED
  BY <1>2, <1>3, <1>4, <1>5 DEF Next

(***************************************************************************)
(* The counter is the number of INCRs.                                      *)
(***************************************************************************)
LEMMA CountedInit == Init => Counted
  BY DEF Init, Counted, Days

\* The day a call notes is today's or the one it had.
LEMMA CallerDay ==
  ASSUME TypeOK, NEW c \in Callers,
         Start(c) \/ Proceed(c) \/ CountRaises(c) \/ ExpireRaises(c)
  PROVE  /\ call'[c].day \in {call[c].day, today}
         /\ call'[c].at = "count" => call'[c].day = today
<1> USE DEF TypeOK
<1>1. call[c] \in CallType /\ call[c].ticket \in Nat /\ counter[call[c].day] + 1 \in Nat
  BY DEF CallType
<1>2. ASSUME NEW e, call' = Raised(c, e)
      PROVE  call'[c].day \in {call[c].day, today} /\ (call'[c].at = "count" => call'[c].day = today)
  <2>1. \A q \in Providers, n \in Nat : Enter(q, n).day = today
    BY DEF Enter
  <2>2. Enter("vertex", 1).day = today /\ Enter("claude", 1).day = today
    BY <2>1 DEF Providers
  <2> QED
    BY <1>1, <1>2, <2>2, RaisedCases DEF CallType
<1>3. ASSUME NEW n \in Nat, Judge(c, n)
      PROVE  call'[c].day \in {call[c].day, today} /\ (call'[c].at = "count" => call'[c].day = today)
  <2>1. CASE call' = Raised(c, "VertexDailyLimitError")
    BY <1>2, <2>1
  <2>2. CASE call' = [call EXCEPT ![c].at = "acquire", ![c].ticket = n]
    BY <1>1, <2>2 DEF CallType
  <2> QED
    BY <1>3, <2>1, <2>2 DEF Judge
<1>4. CASE Start(c) \/ Retry(c)
  BY <1>1, <1>4 DEF Start, Retry, Enter
<1>5. CASE Count(c)
  BY <1>1, <1>3, <1>5 DEF Count, CallType
<1>6. CASE Expire(c)
  BY <1>1, <1>3, <1>6 DEF Expire
<1>7. CASE CountRaises(c) \/ ExpireRaises(c) \/ \E r \in Responses : Responded(c, r)
  BY <1>2, <1>7 DEF CountRaises, ExpireRaises, Responded
<1>8. CASE Acquire(c) \/ Answered(c)
  BY <1>1, <1>8 DEF Acquire, Answered, At, CallType
<1> QED
  BY <1>4, <1>5, <1>6, <1>7, <1>8 DEF Proceed

\* INCRs count on both sides; nothing else a caller does changes the counter.
LEMMA CallerCounts ==
  ASSUME TypeOK, NEW c \in Callers,
         Start(c) \/ Proceed(c) \/ CountRaises(c) \/ ExpireRaises(c)
  PROVE  /\ UNCHANGED today
         /\ \/ call[c].at = "count" /\ Incremented(call[c].day)
            \/ UNCHANGED <<counter, issued>>
  BY DEF Start, Proceed, Count, CountRaises, Expire, ExpireRaises, Acquire, Retry, Answered,
         Responded, Expired, redis

LEMMA CountedStep == TypeOK /\ Counted /\ [Next]_vars => Counted'
<1> SUFFICES ASSUME TypeOK, Counted, [Next]_vars
             PROVE  Counted'
  OBVIOUS
<1> USE DEF TypeOK
<1>1. /\ today \in Nat /\ \A b \in Callers : call[b].day \in Days /\ call[b].day <= today
      /\ \A d \in Days : d \in Nat
  BY DEF Counted, CallType, Days
<1>2. ASSUME NEW c \in Callers,
             Start(c) \/ Proceed(c) \/ CountRaises(c) \/ ExpireRaises(c)
      PROVE  Counted'
  <2>1. \A b \in Callers \ {c} : call'[b] = call[b]
    BY <1>2, CallerAlone
  <2>2. UNCHANGED today /\ call'[c].day \in {call[c].day, today}
          /\ (call'[c].at = "count" => call'[c].day = today)
    BY <1>2, CallerDay, CallerCounts
  <2>3. (call[c].at = "count" /\ Incremented(call[c].day)) \/ UNCHANGED <<counter, issued>>
    BY <1>2, CallerCounts
  <2>4. \A d \in Days : counter[d] = issued[d] => counter'[d] = issued'[d]
    <3>1. ASSUME NEW x \in Days, Incremented(x)
          PROVE  \A d \in Days : /\ counter'[d] = IF d = x THEN counter[d] + 1 ELSE counter[d]
                                 /\ issued'[d] = IF d = x THEN issued[d] + 1 ELSE issued[d]
      BY <3>1 DEF Incremented
    <3> QED
      BY <1>1, <2>3, <3>1
  <2>5. \A d \in Days : d > today => counter'[d] = counter[d] /\ issued'[d] = issued[d]
    BY <1>1, <2>3 DEF Incremented
  <2>6. counter'[today'] = issued'[today']
    BY <2>2, <2>4 DEF Counted
  <2>7. \A b \in Callers : /\ call'[b].day <= today'
                           /\ call'[b].at = "count" => counter'[call'[b].day] = issued'[call'[b].day]
    <3>1. SUFFICES ASSUME NEW b \in Callers
                   PROVE  /\ call'[b].day <= today'
                          /\ call'[b].at = "count" => counter'[call'[b].day] = issued'[call'[b].day]
      OBVIOUS
    <3>2. CASE b = c
      BY <1>1, <2>2, <2>6, <3>2
    <3>3. CASE b # c
      BY <1>1, <2>1, <2>2, <2>4, <3>3 DEF Counted
    <3> QED
      BY <3>2, <3>3
  <2> QED
    BY <2>2, <2>5, <2>6, <2>7 DEF Counted
<1>3. CASE NewDay
  <2>1. /\ today + 1 \in Days /\ today + 1 > today /\ today' = today + 1
        /\ UNCHANGED <<counter, issued, call>>
    BY <1>1, <1>3 DEF NewDay, Days, redis
  <2>2. counter[today + 1] = 0 /\ issued[today + 1] = 0
    BY <2>1 DEF Counted
  <2>3. \A d \in Days : d > today + 1 => counter[d] = 0 /\ issued[d] = 0
    BY <1>1 DEF Counted
  <2>4. \A b \in Callers : call[b].day <= today + 1
    BY <1>1 DEF Days
  <2> QED
    BY <2>1, <2>2, <2>3, <2>4 DEF Counted
<1>4. ASSUME NEW d \in Days, KeyExpires(d)
      PROVE  Counted'
  BY <1>1, <1>4 DEF KeyExpires, Counted
<1>5. ASSUME NEW p \in Processes, Crash(p)
      PROVE  Counted'
  <2>1. \A b \in Callers : call'[b] = call[b] \/ call'[b] = [call[b] EXCEPT !.at = "stopped"]
    BY <1>5 DEF Crash
  <2>2. \A b \in Callers : call'[b].day = call[b].day /\ (call'[b].at = "count" => call[b].at = "count")
    <3> SUFFICES ASSUME NEW b \in Callers
                 PROVE  call'[b].day = call[b].day /\ (call'[b].at = "count" => call[b].at = "count")
      OBVIOUS
    <3>1. CASE call'[b] = call[b]
      BY <3>1
    <3>2. CASE call'[b] = [call[b] EXCEPT !.at = "stopped"]
      <4>1. call[b] \in CallType
        BY <1>1
      <4> QED
        BY <3>2, <4>1 DEF CallType
    <3> QED
      BY <2>1, <3>1, <3>2
  <2> QED
    BY <1>5, <2>2 DEF Crash, Counted, redis
<1>6. CASE UNCHANGED vars
  BY <1>6 DEF vars, redis, Counted
<1> QED
  BY <1>2, <1>3, <1>4, <1>5, <1>6 DEF Next

(***************************************************************************)
(* Tickets are drawn once.                                                  *)
(***************************************************************************)
LEMMA TicketsInit == Init => Tickets
  BY DEF Init, Tickets, Holding

\* The start of a client method holds no ticket.
LEMMA EnterHoldsNone ==
  ASSUME NEW c \in Callers, NEW q \in Providers, NEW n \in Nat, call'[c] = Enter(q, n)
  PROVE  ~Holding(c)'
  BY DEF Enter, Holding

\* Neither does a caller after an exception.
LEMMA RaisedHoldsNone ==
  ASSUME TypeOK, NEW c \in Callers, NEW e, call' = Raised(c, e)
  PROVE  ~Holding(c)'
<1>1. call[c] \in CallType
  BY DEF TypeOK
<1>2. CASE call'[c] = Enter("vertex", 1) \/ call'[c] = Enter("claude", 1)
  BY <1>2, EnterHoldsNone DEF Providers
<1>3. CASE call'[c] = [call[c] EXCEPT !.at = "backoff"] \/ call'[c] = [call[c] EXCEPT !.at = "failed"]
  BY <1>1, <1>3 DEF Holding, CallType
<1> QED
  BY <1>2, <1>3, RaisedCases

\* Nothing is drawn or used: tickets stay where they are or are dropped.
LEMMA TicketsStay ==
  ASSUME Tickets, UNCHANGED sent, TypeOK, TypeOK',
         \A d \in Days : issued'[d] >= issued[d],
         \A b \in Callers : Holding(b)' =>
            /\ Holding(b) /\ call'[b].ticket = call[b].ticket /\ call'[b].day = call[b].day
            /\ call'[b].at = "acquire" => call[b].ticket <= DailyLimit
  PROVE  Tickets'
<1>1. \A b \in Callers : call[b].day \in Days /\ call[b].ticket \in Nat
  BY DEF TypeOK, CallType
<1>2. \A r \in sent : r.day \in Days /\ r.ticket \in Nat
  BY DEF TypeOK, RequestType
<1>3. \A d \in Days : issued[d] \in Nat /\ issued'[d] \in Nat
  BY DEF TypeOK
<1>4. \A c \in Callers : Holding(c)' =>
          /\ call'[c].ticket >= 1 /\ call'[c].ticket <= issued'[call'[c].day]
          /\ call'[c].at = "acquire" => call'[c].ticket <= DailyLimit
  BY <1>1, <1>3 DEF Tickets
<1>5. \A r \in sent' : r.ticket >= 1 /\ r.ticket <= DailyLimit /\ r.ticket <= issued'[r.day]
  BY <1>2, <1>3 DEF Tickets
<1> QED
  BY <1>4, <1>5 DEF Tickets

\* A ticket is drawn: it is the number of the INCR, which nobody has.
LEMMA TicketsDraw ==
  ASSUME Tickets, UNCHANGED sent, TypeOK, TypeOK', NEW c \in Callers,
         \A b \in Callers \ {c} : call'[b] = call[b],
         call'[c].day = call[c].day, call'[c].ticket = issued[call[c].day] + 1,
         call'[c].at = "acquire" => call'[c].ticket <= DailyLimit,
         issued' = [issued EXCEPT ![call[c].day] = @ + 1]
  PROVE  Tickets'
<1>1. \A b \in Callers : call[b].day \in Days /\ call[b].ticket \in Nat
  BY DEF TypeOK, CallType
<1>2. \A r \in sent : r.day \in Days /\ r.ticket \in Nat
  BY DEF TypeOK, RequestType
<1>3. \A d \in Days : issued[d] \in Nat /\ issued'[d] \in Nat /\ issued'[d] >= issued[d]
  BY <1>1 DEF TypeOK
<1>4. call'[c].ticket <= issued'[call'[c].day] /\ call'[c].ticket >= 1
  BY <1>1, <1>3 DEF TypeOK
<1>5. \A b \in Callers \ {c} : Holding(b)' <=> Holding(b)
  BY DEF Holding
<1>6. \A b \in Callers \ {c} : Holding(b) /\ call[b].day = call[c].day => call[b].ticket < call'[c].ticket
  BY <1>1, <1>3 DEF Tickets
<1>7. \A r \in sent : r.day = call[c].day => r.ticket < call'[c].ticket
  BY <1>1, <1>2, <1>3 DEF Tickets
<1>8. \A b \in Callers : Holding(b)' =>
          /\ call'[b].ticket >= 1 /\ call'[b].ticket <= issued'[call'[b].day]
          /\ call'[b].at = "acquire" => call'[b].ticket <= DailyLimit
  BY <1>1, <1>3, <1>4, <1>5 DEF Tickets
<1>9. \A r \in sent' : r.ticket >= 1 /\ r.ticket <= DailyLimit /\ r.ticket <= issued'[r.day]
  BY <1>2, <1>3 DEF Tickets
<1>10. call'[c].ticket \in Nat
  BY <1>1, <1>3
<1>11. \A b1, b2 \in Callers :
          Holding(b1)' /\ Holding(b2)' /\ call'[b1].day = call'[b2].day
             /\ call'[b1].ticket = call'[b2].ticket => b1 = b2
  BY <1>1, <1>5, <1>6, <1>10 DEF Tickets
<1>12. \A r \in sent', b \in Callers :
          Holding(b)' /\ r.day = call'[b].day => r.ticket # call'[b].ticket
  BY <1>1, <1>2, <1>5, <1>7, <1>10 DEF Tickets
<1> QED
  BY <1>8, <1>9, <1>11, <1>12 DEF Tickets

\* A ticket is used: its request has it from now on.
LEMMA TicketsUse ==
  ASSUME Tickets, TypeOK, NEW c \in Callers, Holding(c), call[c].at = "acquire", ~Holding(c)',
         \A b \in Callers \ {c} : call'[b] = call[b],
         NEW r0 \in RequestType, r0.day = call[c].day, r0.ticket = call[c].ticket,
         sent' = sent \cup {r0}, UNCHANGED issued
  PROVE  Tickets'
<1>1. \A b \in Callers \ {c} : Holding(b)' <=> Holding(b)
  BY DEF Holding
<1> QED
  BY <1>1 DEF Tickets

LEMMA TicketsStep == TypeOK /\ TypeOK' /\ Attempted /\ Counted /\ Tickets /\ [Next]_vars => Tickets'
<1> SUFFICES ASSUME TypeOK, TypeOK', Attempted, Counted, Tickets, [Next]_vars
             PROVE  Tickets'
  OBVIOUS
<1>1. \A b \in Callers : call[b] \in CallType /\ call[b].day \in Days /\ call[b].ticket \in Nat
        /\ call[b].provider \in Providers /\ call[b].attempt \in 1..Attempts
  BY DEF TypeOK, CallType
<1>2. \A d \in Days : issued[d] \in Nat /\ counter[d] \in Nat
  BY DEF TypeOK
<1>3. \A d \in Days : (Incremented(d) \/ UNCHANGED issued) => \A x \in Days : issued'[x] >= issued[x]
  BY <1>2 DEF Incremented, TypeOK
<1>4. ASSUME NEW c \in Callers, UNCHANGED sent, Incremented(call[c].day) \/ UNCHANGED issued,
             \A b \in Callers \ {c} : call'[b] = call[b], ~Holding(c)'
      PROVE  Tickets'
  <2>1. \A b \in Callers : Holding(b)' => b # c /\ Holding(b)
    BY <1>4 DEF Holding
  <2>2. \A b \in Callers : Holding(b) /\ call[b].at = "acquire" => call[b].ticket <= DailyLimit
    BY DEF Tickets
  <2> QED
    BY <1>1, <1>3, <1>4, <2>1, <2>2, TicketsStay
<1>5. ASSUME NEW c \in Callers, Start(c) \/ Retry(c)
      PROVE  Tickets'
  <2>1. \A b \in Callers \ {c} : call'[b] = call[b]
    BY <1>5, CallerAlone DEF Proceed
  <2>2. ~Holding(c)'
    <3>1. CASE Start(c)
      BY <3>1, EnterHoldsNone DEF Start, TypeOK, Providers
    <3>2. CASE Retry(c)
      BY <1>1, <3>2, EnterHoldsNone DEF Retry, TypeOK
    <3> QED
      BY <1>5, <3>1, <3>2
  <2> QED
    BY <1>4, <1>5, <2>1, <2>2 DEF Start, Retry, redis
<1>6. ASSUME NEW c \in Callers, Count(c)
      PROVE  Tickets'
  <2>1. \A b \in Callers \ {c} : call'[b] = call[b]
    BY <1>6, CallerAlone DEF Proceed
  <2> DEFINE d == call[c].day
             n == counter[d] + 1
  <2>2. d \in Days /\ n = issued[d] + 1 /\ n \in Nat
    BY <1>1, <1>2, <1>6 DEF Count, Counted
  <2>3. UNCHANGED sent /\ Incremented(d) /\ issued' = [issued EXCEPT ![d] = @ + 1]
    BY <1>6 DEF Count, Incremented
  <2>4. \/ call' = [call EXCEPT ![c].at = "expire", ![c].ticket = n]
        \/ n <= DailyLimit /\ call' = [call EXCEPT ![c].at = "acquire", ![c].ticket = n]
        \/ call' = Raised(c, "VertexDailyLimitError")
    BY <1>6, <2>2 DEF Count, Judge
  <2>5. CASE call' = Raised(c, "VertexDailyLimitError")
    BY <1>4, <2>1, <2>3, <2>5, RaisedHoldsNone
  <2>6. CASE call' = [call EXCEPT ![c].at = "expire", ![c].ticket = n]
    <3>1. call'[c].day = d /\ call'[c].ticket = n /\ call'[c].at = "expire"
      BY <1>1, <2>6 DEF CallType, TypeOK
    <3> QED
      BY <2>1, <2>2, <2>3, <3>1, TicketsDraw
  <2>7. CASE n <= DailyLimit /\ call' = [call EXCEPT ![c].at = "acquire", ![c].ticket = n]
    <3>1. call'[c].day = d /\ call'[c].ticket = n
      BY <1>1, <2>7 DEF CallType, TypeOK
    <3> QED
      BY <2>1, <2>2, <2>3, <2>7, <3>1, TicketsDraw
  <2> QED
    BY <2>4, <2>5, <2>6, <2>7
<1>7. ASSUME NEW c \in Callers, Expire(c)
      PROVE  Tickets'
  <2>1. \A b \in Callers \ {c} : call'[b] = call[b]
    BY <1>7, CallerAlone DEF Proceed
  <2>2. UNCHANGED <<sent, issued>> /\ call[c].at = "expire"
    BY <1>7 DEF Expire, Expired
  <2>3. \/ call[c].ticket <= DailyLimit /\ call' = [call EXCEPT ![c].at = "acquire", ![c].ticket = call[c].ticket]
        \/ call' = Raised(c, "VertexDailyLimitError")
    BY <1>1, <1>7 DEF Expire, Judge
  <2>4. CASE call' = Raised(c, "VertexDailyLimitError")
    BY <1>4, <2>1, <2>2, <2>4, RaisedHoldsNone
  <2>5. CASE call[c].ticket <= DailyLimit /\ call' = [call EXCEPT ![c].at = "acquire", ![c].ticket = call[c].ticket]
    <3>1. call'[c].day = call[c].day /\ call'[c].ticket = call[c].ticket
      BY <1>1, <2>5 DEF CallType, TypeOK
    <3>2. \A b \in Callers : Holding(b)' =>
             /\ Holding(b) /\ call'[b].ticket = call[b].ticket /\ call'[b].day = call[b].day
             /\ call'[b].at = "acquire" => call[b].ticket <= DailyLimit
      BY <2>1, <2>2, <2>5, <3>1 DEF Holding, Tickets
    <3> QED
      BY <1>2, <2>2, <3>2, TicketsStay
  <2> QED
    BY <2>3, <2>4, <2>5
<1>8. ASSUME NEW c \in Callers,
             CountRaises(c) \/ ExpireRaises(c) \/ \E r \in Responses : Responded(c, r)
      PROVE  Tickets'
  <2>1. \A b \in Callers \ {c} : call'[b] = call[b]
    BY <1>8, CallerAlone DEF Proceed
  <2>2. ~Holding(c)'
    BY <1>8, RaisedHoldsNone DEF CountRaises, ExpireRaises, Responded
  <2>3. UNCHANGED sent /\ (Incremented(call[c].day) \/ UNCHANGED issued)
    BY <1>8 DEF CountRaises, ExpireRaises, Responded, Expired, redis
  <2> QED
    BY <1>4, <2>1, <2>2, <2>3
<1>9. ASSUME NEW c \in Callers, Acquire(c) \/ Answered(c)
      PROVE  Tickets'
  <2>1. \A b \in Callers \ {c} : call'[b] = call[b]
    BY <1>9, CallerAlone DEF Proceed
  <2>2. ~Holding(c)'
    BY <1>1, <1>9 DEF Acquire, Answered, At, Holding, CallType, TypeOK
  <2>3. CASE UNCHANGED sent
    BY <1>4, <1>9, <2>1, <2>2, <2>3 DEF Acquire, Answered, redis
  <2>4. CASE call[c].provider = "vertex" /\ Acquire(c)
    <3> DEFINE r0 == [caller |-> c, attempt |-> call[c].attempt,
                      day |-> call[c].day, ticket |-> call[c].ticket]
    <3>1. r0 \in RequestType
      BY <1>1 DEF RequestType
    <3>2. call[c].at = "acquire" /\ Holding(c) /\ sent' = sent \cup {r0} /\ UNCHANGED issued
      BY <2>4 DEF Acquire, Holding, redis
    <3> QED
      BY <2>1, <2>2, <3>1, <3>2, TicketsUse
  <2> QED
    BY <1>9, <2>3, <2>4 DEF Acquire, Answered
<1>10. ASSUME NEW p \in Processes, Crash(p)
       PROVE  Tickets'
  <2>1. \A b \in Callers : call'[b] = call[b] \/ call'[b] = [call[b] EXCEPT !.at = "stopped"]
    BY <1>10 DEF Crash
  <2>2. \A b \in Callers : Holding(b)' => call'[b] = call[b] /\ Holding(b)
    BY <1>1, <2>1 DEF Holding, CallType
  <2>3. UNCHANGED <<sent, issued>>
    BY <1>10 DEF Crash, redis
  <2> QED
    BY <1>2, <2>2, <2>3, TicketsStay DEF Tickets
<1>11. CASE NewDay \/ (\E d \in Days : KeyExpires(d)) \/ UNCHANGED vars
  <2>1. UNCHANGED <<call, sent, issued>>
    BY <1>11 DEF NewDay, KeyExpires, vars, redis
  <2> QED
    BY <2>1 DEF Tickets, Holding
<1> QED
  BY <1>5, <1>6, <1>7, <1>8, <1>9, <1>10, <1>11 DEF Next, Proceed

(***************************************************************************)
(* The invariant and what follows from it.                                  *)
(***************************************************************************)
\* The inductive invariant holds, for every value of the constants.
THEOREM Inductive == Spec => []IInv
<1>1. Init => IInv
  BY TypeInit, PermitsInit, AttemptedInit, ChargedInit, CountedInit, TicketsInit DEF IInv
<1>2. IInv /\ [Next]_vars => IInv'
  BY TypeStep, PermitsStep, AttemptedStep, ChargedStep, CountedStep, TicketsStep DEF IInv
<1> QED
  BY <1>1, <1>2, PTL DEF Spec

\* Every variable keeps its type, for any number of callers and processes.
THEOREM TypeCorrect == Spec => []TypeOK
<1>1. IInv => TypeOK
  BY DEF IInv
<1> QED
  BY <1>1, Inductive, PTL

\* No permit is lost or released twice, whatever raises or stops.
THEOREM PermitsAlwaysReturn == Spec => []PermitsReturn
<1>1. IInv => PermitsReturn
  BY DEF IInv
<1> QED
  BY <1>1, Inductive, PTL

\* Every provider is tried twice before the next one, and a call that ends before
\* Claude was asked cost an error of Redis of its own.
THEOREM AlwaysHandsOver == Spec => []HandsOverAfterAttempts
<1>1. IInv => HandsOverAfterAttempts
  BY DEF IInv, Attempted, Progress, Charged, HandsOverAfterAttempts
<1> QED
  BY <1>1, Inductive, PTL

\* The cap holds for any number of processes: tickets within the limit are
\* fewer than the limit, and each is used once.
THEOREM QuotaAlwaysHolds == Spec => []QuotaHolds
<1>1. ASSUME IInv, NEW d \in Days
      PROVE  Cardinality({r \in sent : r.day = d}) <= DailyLimit
  <2> DEFINE S == {r \in sent : r.day = d}
             f == [r \in S |-> r.ticket]
  <2>1. \A r \in S : r.ticket \in 1..DailyLimit
    BY <1>1 DEF IInv, TypeOK, RequestType, Tickets
  <2>2. \A r1, r2 \in S : r1.ticket = r2.ticket => r1 = r2
    BY <1>1 DEF IInv, Tickets
  <2>3. f \in Injection(S, 1..DailyLimit)
    BY <2>1, <2>2 DEF Injection, IsInjective
  <2>4. IsFiniteSet(1..DailyLimit) /\ Cardinality(1..DailyLimit) = DailyLimit
    BY FS_Interval
  <2> QED
    BY <2>3, <2>4, FS_Injection
<1>2. IInv => QuotaHolds
  BY <1>1 DEF QuotaHolds
<1> QED
  BY <1>2, Inductive, PTL

(***************************************************************************)
(* The counter in Redis implements the abstract quota.                      *)
(***************************************************************************)
\* One INCR is at most one grant.
LEMMA IncrementGrants ==
  ASSUME TypeOK, NEW d \in Days, Incremented(d)
  PROVE  \/ /\ issued[d] < DailyLimit /\ Granted[d] < DailyLimit
            /\ Granted' = [Granted EXCEPT ![d] = @ + 1]
         \/ /\ issued[d] >= DailyLimit /\ Granted[d] = DailyLimit
            /\ Granted' = Granted
<1>1. issued' = [issued EXCEPT ![d] = @ + 1] /\ issued \in [Days -> Nat]
  BY DEF Incremented, TypeOK
<1>2. CASE issued[d] < DailyLimit
  <2>1. Granted[d] = issued[d] /\ issued[d] \in Nat /\ issued'[d] = issued[d] + 1
    BY <1>1, <1>2 DEF Granted
  <2>2. \A x \in Days : Granted'[x] = IF x = d THEN Granted[d] + 1 ELSE Granted[x]
    BY <1>1, <1>2, <2>1 DEF Granted
  <2>3. Granted' = [Granted EXCEPT ![d] = @ + 1]
    BY <2>2 DEF Granted
  <2> QED
    BY <1>2, <2>1, <2>3
<1>3. CASE issued[d] >= DailyLimit
  BY <1>1, <1>3 DEF Granted
<1> QED
  BY <1>1, <1>2, <1>3

LEMMA QuotaInit == Init => Quota!Init
  BY DEF Init, Quota!Init, Granted

LEMMA QuotaStep == IInv /\ [Next]_vars => [Quota!Next]_<<Granted, refused>>
<1> SUFFICES ASSUME IInv, [Next]_vars
             PROVE  [Quota!Next]_<<Granted, refused>>
  OBVIOUS
<1> USE DEF IInv
<1>1. UNCHANGED issued => UNCHANGED Granted
  BY DEF Granted
<1>2. ASSUME NEW c \in Callers, Count(c)
      PROVE  [Quota!Next]_<<Granted, refused>>
  <2> DEFINE d == call[c].day
  <2>1. d \in Days /\ counter[d] = issued[d] /\ issued[d] \in Nat
    BY <1>2 DEF Count, Counted, TypeOK, CallType
  <2>2. /\ Incremented(d)
        /\ refused' = refused \/ (refused' = refused \cup {c} /\ issued[d] + 1 > DailyLimit)
    BY <1>2, <2>1 DEF Count, Judge
  <2> HIDE DEF d
  <2>3. CASE issued[d] < DailyLimit
    <3>1. UNCHANGED refused
      BY <2>1, <2>2, <2>3
    <3>2. Quota!Grant(d)
      BY <2>1, <2>2, <2>3, <3>1, IncrementGrants DEF Quota!Grant
    <3> QED
      BY <2>1, <3>2 DEF Quota!Next
  <2>4. CASE issued[d] >= DailyLimit
    <3>1. Granted[d] = DailyLimit /\ UNCHANGED Granted
      BY <2>1, <2>2, <2>4, IncrementGrants
    <3>2. CASE refused' = refused \cup {c}
      BY <2>1, <3>1, <3>2 DEF Quota!Next, Quota!Deny
    <3>3. CASE UNCHANGED refused
      BY <3>1, <3>3
    <3> QED
      BY <2>2, <3>2, <3>3
  <2> QED
    BY <2>1, <2>3, <2>4
<1>3. ASSUME NEW c \in Callers, CountRaises(c)
      PROVE  [Quota!Next]_<<Granted, refused>>
  <2> DEFINE d == call[c].day
  <2>1. d \in Days /\ issued[d] \in Nat
    BY DEF TypeOK, CallType
  <2>2. UNCHANGED refused /\ (Incremented(d) \/ UNCHANGED issued)
    BY <1>3 DEF CountRaises, redis
  <2> HIDE DEF d
  <2>3. CASE Incremented(d)
    <3>1. Quota!Grant(d) \/ UNCHANGED Granted
      BY <2>1, <2>2, <2>3, IncrementGrants DEF Quota!Grant
    <3> QED
      BY <2>1, <2>2, <3>1 DEF Quota!Next
  <2>4. CASE UNCHANGED issued
    BY <1>1, <2>2, <2>4
  <2> QED
    BY <2>2, <2>3, <2>4
<1>4. ASSUME NEW c \in Callers, Expire(c)
      PROVE  [Quota!Next]_<<Granted, refused>>
  <2> DEFINE d == call[c].day
  <2>1. d \in Days /\ call[c].ticket \in Nat /\ issued[d] \in Nat /\ call[c].at = "expire"
    BY <1>4 DEF TypeOK, CallType, Expire
  <2>2. call[c].ticket <= issued[d]
    BY <2>1 DEF Tickets, Holding
  <2>3. /\ UNCHANGED issued
        /\ refused' = refused \/ (refused' = refused \cup {c} /\ call[c].ticket > DailyLimit)
    BY <1>4 DEF Expire, Expired, Judge, redis
  <2> HIDE DEF d
  <2>4. CASE refused' = refused \cup {c} /\ call[c].ticket > DailyLimit
    <3>1. Granted[d] = DailyLimit /\ UNCHANGED Granted
      BY <2>1, <2>2, <2>3, <2>4 DEF Granted
    <3> QED
      BY <2>1, <2>4, <3>1 DEF Quota!Next, Quota!Deny
  <2> QED
    BY <1>1, <2>3, <2>4
<1>5. ASSUME NEW c \in Callers,
             Start(c) \/ ExpireRaises(c) \/ Acquire(c) \/ Retry(c) \/ Answered(c)
               \/ \E r \in Responses : Responded(c, r)
      PROVE  UNCHANGED <<issued, refused>>
  BY <1>5 DEF Start, ExpireRaises, Expired, Acquire, Retry, Answered, Responded, redis
<1>6. CASE NewDay \/ (\E d \in Days : KeyExpires(d)) \/ (\E p \in Processes : Crash(p)) \/ UNCHANGED vars
  <2>1. UNCHANGED <<issued, refused>>
    BY <1>6 DEF NewDay, KeyExpires, Crash, vars, redis
  <2> QED
    BY <1>1, <2>1
<1> QED
  BY <1>1, <1>2, <1>3, <1>4, <1>5, <1>6 DEF Next, Proceed

\* Counting in Redis, with its errors, expiry and midnight, is the quota.
THEOREM QuotaRefinement == Spec => ImplementsDailyQuota
  BY Inductive, QuotaInit, QuotaStep, PTL DEF Spec, ImplementsDailyQuota, Quota!Spec
=============================================================================
