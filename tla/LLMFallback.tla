----------------------------- MODULE LLMFallback -----------------------------
(***************************************************************************)
(* A call of the language models (src/common/utils/llm_util.py): Gemini,    *)
(* then Gemini on Vertex, then Claude, each tried twice, each behind a      *)
(* semaphore of the process, Vertex also behind a daily cap that all        *)
(* processes count in Redis.  Callers are coroutines, one call each; one    *)
(* action per awaited call.  Responses are abstracted to what the clients   *)
(* tell apart.                                                              *)
(***************************************************************************)
EXTENDS Integers, FiniteSets

CONSTANTS
    Callers,          \* coroutines that call LLMUtil
    Grounded,         \* those that ask for a grounded answer
    Processes,
    ProcessOf,        \* [Callers -> Processes]
    DailyLimit,       \* VERTEX_DAILY_LIMIT
    ConcurrencyLimit, \* 30 in all three clients
    LastDay,          \* bound: days that pass
    MaxErrors,        \* bound: Redis commands that raise
    MaxCrashes        \* bound: processes that stop

ASSUME CallerAssumption ==
    /\ IsFiniteSet(Callers)
    /\ ProcessOf \in [Callers -> Processes]
ASSUME LimitAssumption ==
    /\ DailyLimit \in Nat
    /\ ConcurrencyLimit \in Nat
    /\ LastDay \in Nat
    /\ MaxErrors \in Nat
    /\ MaxCrashes \in Nat

Days == 0..LastDay
Providers == {"gemini", "vertex", "claude"}
Attempts == 2  \* stop_after_attempt(2) of every client method

VARIABLES
    today,   \* date.today(), on which the processes agree
    counter, \* vertex_gemini:daily_calls:<date>; 0 when there is no such key
    expires, \* the days whose key has a time to live
    permits, \* permits left, per process and client
    call,    \* where each caller is
    failed,  \* failed attempts, per caller and client
    refused, \* callers that got VertexDailyLimitError
    errors,  \* Redis commands that raised
    crashes, \* processes that stopped
    issued,  \* history: INCRs applied, per day
    sent     \* history: requests sent to Vertex

redis == <<counter, expires, issued>>
faults == <<errors, crashes>>
vars == <<today, redis, permits, call, failed, refused, faults, sent>>

Ended == {"answered", "failed", "stopped"}
Places == {"idle", "count", "expire", "acquire", "request", "backoff"} \cup Ended

CallType == [at : Places, provider : Providers, attempt : 1..Attempts,
             day : Days, ticket : Nat]
RequestType == [caller : Callers, attempt : 1..Attempts, day : Days, ticket : Nat]

TypeOK ==
    /\ today \in Days
    /\ counter \in [Days -> Nat]
    /\ expires \subseteq Days
    /\ permits \in [Processes -> [Providers -> 0..ConcurrencyLimit]]
    /\ call \in [Callers -> CallType]
    /\ failed \in [Callers -> [Providers -> 0..Attempts]]
    /\ refused \subseteq Callers
    /\ errors \in 0..MaxErrors
    /\ crashes \in 0..MaxCrashes
    /\ issued \in [Days -> Nat]
    /\ sent \subseteq RequestType

\* The clients a process makes once (get_llm_util).
Semaphores == [q \in Providers |-> ConcurrencyLimit]

Init ==
    /\ today = 0
    /\ counter = [d \in Days |-> 0]
    /\ expires = {}
    /\ permits = [p \in Processes |-> Semaphores]
    /\ call = [c \in Callers |-> [at |-> "idle", provider |-> "gemini",
                                  attempt |-> 1, day |-> 0, ticket |-> 0]]
    /\ failed = [c \in Callers |-> [q \in Providers |-> 0]]
    /\ refused = {}
    /\ errors = 0
    /\ crashes = 0
    /\ issued = [d \in Days |-> 0]
    /\ sent = {}

RedisError ==
    /\ errors < MaxErrors
    /\ errors' = errors + 1
    /\ UNCHANGED crashes

----------------------------------------------------------------------------
(***************************************************************************)
(* What each client method makes of a response: an answer or the exception  *)
(* it raises.                                                               *)
(***************************************************************************)
Responses == {"valid", "empty", "malformed", "rate_limited", "unavailable", "timeout"}

GeminiResponse ==
    [valid |-> "answer", empty |-> "ModelRefusalError", malformed |-> "GeminiError",
     rate_limited |-> "GeminiRateLimitError", unavailable |-> "GeminiError",
     timeout |-> "GeminiError"]

GeminiGrounded ==
    [valid |-> "answer", empty |-> "ModelRefusalError", malformed |-> "GeminiError",
     rate_limited |-> "GeminiRateLimitError", unavailable |-> "GeminiError",
     timeout |-> "GeminiError"]

VertexResponse ==
    [valid |-> "answer", empty |-> "ModelRefusalError", malformed |-> "GeminiError",
     rate_limited |-> "GeminiRateLimitError", unavailable |-> "GeminiError",
     timeout |-> "GeminiError"]

VertexGrounded ==
    [valid |-> "answer", empty |-> "ModelRefusalError", malformed |-> "GeminiError",
     rate_limited |-> "GeminiRateLimitError", unavailable |-> "GeminiError",
     timeout |-> "GeminiError"]

ClaudeResponse ==
    [valid |-> "answer", empty |-> "ClaudeModelRefusalError", malformed |-> "ClaudeError",
     rate_limited |-> "ClaudeError", unavailable |-> "ClaudeError",
     timeout |-> "ClaudeError"]

ClaudeGrounded ==
    [valid |-> "answer", empty |-> "ClaudeModelRefusalError", malformed |-> "ClaudeError",
     rate_limited |-> "ClaudeError", unavailable |-> "ClaudeError",
     timeout |-> "ClaudeError"]

Outcome(c, r) ==
    LET plain == [gemini |-> GeminiResponse, vertex |-> VertexResponse,
                  claude |-> ClaudeResponse]
        grounded == [gemini |-> GeminiGrounded, vertex |-> VertexGrounded,
                     claude |-> ClaudeGrounded]
    IN (IF c \in Grounded THEN grounded ELSE plain)[call[c].provider][r]

\* The exceptions a client method is retried for; subclasses included.
Retryable ==
    {"GeminiError", "GeminiRateLimitError", "ModelRefusalError",
     "ClaudeError", "ClaudeModelRefusalError"}

\* Mutant: the cap is an error like any other that LLMUtil does not expect.
CaughtNoLimit ==
    [gemini |-> {"GeminiError", "GeminiRateLimitError", "ModelRefusalError"},
     vertex |-> {"GeminiError", "GeminiRateLimitError", "ModelRefusalError"},
     claude |-> {}]

\* The exceptions for which LLMUtil goes to the next client; Claude is the last.
Caught ==
    [gemini |-> {"GeminiError", "GeminiRateLimitError", "ModelRefusalError"},
     vertex |-> {"GeminiError", "GeminiRateLimitError", "ModelRefusalError",
                 "VertexDailyLimitError"},
     claude |-> {}]

----------------------------------------------------------------------------
\* Mutant: the retry is inside the count, so a second attempt is not counted.
EnterUncounted(q, n) ==
    [at |-> IF q = "vertex" /\ n = 1 THEN "count" ELSE "acquire", provider |-> q,
     attempt |-> n, day |-> today, ticket |-> 0]

\* The start of a client method.  Vertex takes the local date before it counts.
Enter(q, n) ==
    [at |-> IF q = "vertex" THEN "count" ELSE "acquire", provider |-> q,
     attempt |-> n, day |-> today, ticket |-> 0]

At(c, place) == [call EXCEPT ![c].at = place]

\* Mutant: no stop condition.
RaisedForever(c, e) ==
    LET q == call[c].provider
    IN IF e \in Retryable THEN At(c, "backoff")
       ELSE IF e \in Caught[q]
       THEN [call EXCEPT ![c] = Enter(IF q = "gemini" THEN "vertex" ELSE "claude", 1)]
       ELSE At(c, "failed")

\* tenacity, then LLMUtil: again, the next client, or the exception leaves LLMUtil.
Raised(c, e) ==
    LET q == call[c].provider
    IN IF e \in Retryable /\ call[c].attempt < Attempts
       THEN At(c, "backoff")
       ELSE IF e \in Caught[q]
       THEN [call EXCEPT ![c] = Enter(IF q = "gemini" THEN "vertex" ELSE "claude", 1)]
       ELSE At(c, "failed")

Start(c) ==
    /\ call[c].at = "idle"
    /\ call' = [call EXCEPT ![c] = Enter("gemini", 1)]
    /\ UNCHANGED <<today, redis, permits, failed, refused, faults, sent>>

\* Mutant: the call that reaches the limit is refused as well.
JudgeEarly(c, n) ==
    IF n >= DailyLimit
    THEN /\ refused' = refused \cup {c}
         /\ call' = Raised(c, "VertexDailyLimitError")
    ELSE /\ call' = [call EXCEPT ![c].at = "acquire", ![c].ticket = n]
         /\ UNCHANGED refused

\* The count is over the limit or not.
Judge(c, n) ==
    IF n > DailyLimit
    THEN /\ refused' = refused \cup {c}
         /\ call' = Raised(c, "VertexDailyLimitError")
    ELSE /\ call' = [call EXCEPT ![c].at = "acquire", ![c].ticket = n]
         /\ UNCHANGED refused

Incremented(d) ==
    /\ counter' = [counter EXCEPT ![d] = @ + 1]
    /\ issued' = [issued EXCEPT ![d] = @ + 1]
    /\ UNCHANGED expires

Count(c) ==
    /\ call[c].at = "count"
    /\ Incremented(call[c].day)
    /\ LET n == counter[call[c].day] + 1
       IN IF n = 1
          THEN /\ call' = [call EXCEPT ![c].at = "expire", ![c].ticket = n]
               /\ UNCHANGED refused
          ELSE Judge(c, n)
    /\ UNCHANGED <<today, permits, failed, faults, sent>>

\* INCR raises, applied or not: no exception that a client or LLMUtil handles.
CountRaises(c) ==
    /\ call[c].at = "count"
    /\ RedisError
    /\ Incremented(call[c].day) \/ UNCHANGED redis
    /\ call' = Raised(c, "RedisError")
    /\ UNCHANGED <<today, permits, failed, refused, sent>>

\* EXPIRE of a key that is still there.
Expired(d) ==
    /\ expires' = IF counter[d] > 0 THEN expires \cup {d} ELSE expires
    /\ UNCHANGED <<counter, issued>>

Expire(c) ==
    /\ call[c].at = "expire"
    /\ Expired(call[c].day)
    /\ Judge(c, call[c].ticket)
    /\ UNCHANGED <<today, permits, failed, faults, sent>>

ExpireRaises(c) ==
    /\ call[c].at = "expire"
    /\ RedisError
    /\ Expired(call[c].day) \/ UNCHANGED redis
    /\ call' = Raised(c, "RedisError")
    /\ UNCHANGED <<today, permits, failed, refused, sent>>

\* The semaphore's permit; the request is sent.
Acquire(c) ==
    LET q == call[c].provider
    IN /\ call[c].at = "acquire"
       /\ permits[ProcessOf[c]][q] > 0
       /\ permits' = [permits EXCEPT ![ProcessOf[c]][q] = @ - 1]
       /\ call' = At(c, "request")
       /\ sent' = IF q = "vertex"
                  THEN sent \cup {[caller |-> c, attempt |-> call[c].attempt,
                                   day |-> call[c].day, ticket |-> call[c].ticket]}
                  ELSE sent
       /\ UNCHANGED <<today, redis, failed, refused, faults>>

\* Mutant: the semaphore is not released when the request raises or answers.
ReleasedNever(c) == permits

Released(c) == [permits EXCEPT ![ProcessOf[c]][call[c].provider] = @ + 1]

Answered(c) ==
    /\ call[c].at = "request"
    /\ \E r \in Responses : Outcome(c, r) = "answer"
    /\ permits' = Released(c)
    /\ call' = At(c, "answered")
    /\ UNCHANGED <<today, redis, failed, refused, faults, sent>>

Responded(c, r) ==
    /\ call[c].at = "request"
    /\ Outcome(c, r) # "answer"
    /\ permits' = Released(c)
    /\ failed' = [failed EXCEPT ![c][call[c].provider] = @ + 1]
    /\ call' = Raised(c, Outcome(c, r))
    /\ UNCHANGED <<today, redis, refused, faults, sent>>

\* The backoff is over.
Retry(c) ==
    /\ call[c].at = "backoff"
    /\ call' = [call EXCEPT ![c] = Enter(@.provider, @.attempt + 1)]
    /\ UNCHANGED <<today, redis, permits, failed, refused, faults, sent>>

----------------------------------------------------------------------------
NewDay ==
    /\ today < LastDay
    /\ today' = today + 1
    /\ UNCHANGED <<redis, permits, call, failed, refused, faults, sent>>

\* A key lives 25 hours, longer than an INCR of its day may be under way.
KeyExpires(d) ==
    /\ d \in expires
    /\ d < today
    /\ \A c \in Callers : call[c].at = "count" => call[c].day # d
    /\ counter' = [counter EXCEPT ![d] = 0]
    /\ expires' = expires \ {d}
    /\ UNCHANGED <<today, issued, permits, call, failed, refused, faults, sent>>

\* A process stops; its semaphores go with it.
Crash(p) ==
    /\ crashes < MaxCrashes
    /\ crashes' = crashes + 1
    /\ call' = [c \in Callers |-> IF ProcessOf[c] = p /\ call[c].at \notin Ended \cup {"idle"}
                                  THEN [call[c] EXCEPT !.at = "stopped"] ELSE call[c]]
    /\ permits' = [permits EXCEPT ![p] = Semaphores]
    /\ UNCHANGED <<today, redis, failed, refused, errors, sent>>

Proceed(c) ==
    \/ Count(c) \/ Expire(c) \/ Acquire(c) \/ Retry(c) \/ Answered(c)
    \/ \E r \in Responses : Responded(c, r)

Next ==
    \/ \E c \in Callers : Start(c) \/ Proceed(c) \/ CountRaises(c) \/ ExpireRaises(c)
    \/ NewDay
    \/ \E d \in Days : KeyExpires(d)
    \/ \E p \in Processes : Crash(p)

Spec == Init /\ [][Next]_vars

\* Every awaited call returns or raises: a request at the latest with the client's
\* timeout; for Redis, where none is set, it is assumed of the server and the
\* connection.  Permits are handed out in the order they were asked for.
FairSpec == Spec /\ \A c \in Callers : SF_vars(Proceed(c))

----------------------------------------------------------------------------
InFlight(p, q) ==
    {c \in Callers : ProcessOf[c] = p /\ call[c].at = "request" /\ call[c].provider = q}

\* All processes together send Vertex at most DailyLimit requests on the count
\* of one day, retries included (vertex_gemini_util.py, daily call cap).
QuotaHolds ==
    \A d \in Days : Cardinality({r \in sent : r.day = d}) <= DailyLimit

\* Whatever raises, times out or is tried again, a client's permits are the ones
\* of the requests in flight: none is lost and none comes back twice.
PermitsReturn ==
    \A p \in Processes, q \in Providers :
        permits[p][q] + Cardinality(InFlight(p, q)) = ConcurrencyLimit

TriedTwice(c, q) == failed[c][q] = Attempts

\* Calls that ended before Claude was asked.
CutShort == {c \in Callers : call[c].at = "failed" /\ call[c].provider # "claude"}

\* A call reaches a client only when the ones before it have failed twice or,
\* for Vertex, met the cap, and it fails only when Claude has failed twice too:
\* no error of a provider ends a call early, and every Redis error at most one
\* (docs/ARCHITECTURE.md, docs/LLM.md).
HandsOverAfterAttempts ==
    /\ \A c \in Callers :
          /\ call[c].provider # "gemini" => TriedTwice(c, "gemini")
          /\ call[c].provider = "claude" => TriedTwice(c, "vertex") \/ c \in refused
          /\ call[c].provider = "claude" /\ call[c].at = "failed" => TriedTwice(c, "claude")
    /\ Cardinality(CutShort) <= errors

\* Every call that starts ends: with an answer, an error, or its process.
EveryCallEnds ==
    \A c \in Callers : call[c].at # "idle" ~> call[c].at \in Ended

\* The counter in Redis is the abstract quota: counts up to the limit are the
\* grants, and a caller is denied only beyond it.
Granted == [d \in Days |-> IF issued[d] < DailyLimit THEN issued[d] ELSE DailyLimit]
Quota == INSTANCE DailyQuota WITH granted <- Granted, denied <- refused
ImplementsDailyQuota == Quota!Spec
=============================================================================
