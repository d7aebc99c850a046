-------------------------- MODULE JobTrackerProofs --------------------------
(***************************************************************************)
(* Proofs about JobTracker, for every batch, every number of deliveries and *)
(* every number of faults.                                                  *)
(***************************************************************************)
EXTENDS JobTracker, FiniteSetTheorems, TLAPS

----------------------------------------------------------------------------
(***************************************************************************)
(* The steps of the system, with the actors of both kinds taken together.   *)
(***************************************************************************)
CreateExpireAny ==
    \/ CreateExpire("expire_job", "job", "expire_tasks")
    \/ CreateExpire("expire_tasks", "tasks", "expire_errors")
    \/ CreateExpire("expire_errors", "errors", "expire_meta")
    \/ CreateExpire("expire_meta", "meta", "loop")

\* Actors are pairs; the request's iterations and the executions are actors.
LEMMA ActorFacts ==
    /\ \A a \in Actors : a = <<a[1], a[2]>> /\ a[1] \in Uploads /\ a[2] \in 0..MaxDeliveries
    /\ \A u \in Uploads, d \in 0..MaxDeliveries : <<u, d>> \in Actors
    /\ \A u \in Uploads : <<u, 0>> \in Actors /\ <<u, 1>> \in Actors
    /\ Executions = {a \in Actors : a[2] > 0}
    /\ \A e \in Executions : e \in Actors /\ e[2] > 0
    /\ MaxDeliveries \in Nat
BY BoundsAssumption, SMT DEF Actors, Executions, MaxDeliveries

\* Every step of the system is one of these.
LEMMA StepCases ==
    ASSUME Next
    PROVE \/ CreateHset \/ CreateExpireAny
          \/ \E a \in Actors : HsetTask(a) \/ HsetError(a) \/ Hincrby(a)
                                \/ Hgetall(a) \/ HsetStatus(a)
                                \/ Unreachable(a) \/ Crash(a)
          \/ \E u \in Uploads : NextUpload(u) \/ Insert(u) \/ Kiq(u) \/ KiqUnacknowledged(u)
          \/ \E e \in Executions : Receive(e) \/ Body(e) \/ Persist(e)
          \/ \E u \in Uploads, d \in 1..MaxRedeliveries : Redeliver(u, d)
          \/ CrashApi \/ ExpireJob \/ Read
<1>1. CASE Create
  BY <1>1 DEF Create, CreateExpireAny
<1>2. ASSUME NEW u \in Uploads, Iterate(u)
      PROVE  \/ \E a \in Actors : HsetTask(a) \/ HsetError(a) \/ Hincrby(a)
                                   \/ Hgetall(a) \/ HsetStatus(a)
             \/ NextUpload(u) \/ Insert(u) \/ Kiq(u) \/ KiqUnacknowledged(u)
  <2>1. <<u, 0>> \in Actors
    BY ActorFacts
  <2> QED
    BY <1>2, <2>1 DEF Iterate, Mark
<1>3. ASSUME NEW e \in Executions, Execute(e)
      PROVE  \/ \E a \in Actors : HsetTask(a) \/ HsetError(a) \/ Hincrby(a)
                                   \/ Hgetall(a) \/ HsetStatus(a)
             \/ Receive(e) \/ Body(e) \/ Persist(e)
  <2>1. e \in Actors
    BY ActorFacts
  <2> QED
    BY <1>3, <2>1 DEF Execute, Mark
<1>4. CASE Environment
  BY <1>4 DEF Environment
<1> QED
  BY <1>1, <1>2, <1>3, <1>4 DEF Next, System

----------------------------------------------------------------------------
(***************************************************************************)
(* Type correctness.                                                        *)
(***************************************************************************)
\* Where a returning or raising call leaves its actor, and that it leaves the
\* other actors alone.
LEMMA AwaitStep ==
    ASSUME TypeOK, NEW a \in Actors, NEW next \in Places, Await(a, next)
    PROVE /\ pc' \in [Actors -> Places]
          /\ mk' \in [Actors -> Statuses]
          /\ faults' \in 0..MaxFaults
          /\ \A b \in Actors \ {a} : pc'[b] = pc[b] /\ mk'[b] = mk[b]
          /\ \/ pc'[a] = next /\ mk'[a] = mk[a] /\ faults' = faults
             \/ pc'[a] = HandlerPlace(a) /\ mk'[a] = HandlerMark(a) /\ faults' = faults + 1
          /\ UNCHANGED <<request, api, reader>>
<1>1. /\ pc \in [Actors -> Places]
      /\ mk \in [Actors -> Statuses]
      /\ faults \in 0..MaxFaults
  BY DEF TypeOK
<1>2. HandlerPlace(a) \in Places /\ HandlerMark(a) \in Statuses
  BY <1>1 DEF HandlerPlace, HandlerMark, Places, Statuses
<1>3. CASE Return(a, next)
  BY <1>1, <1>3 DEF Await, Return
<1>4. CASE Raise(a)
  BY <1>1, <1>2, <1>4, BoundsAssumption DEF Await, Raise, Fault
<1> QED
  BY <1>3, <1>4 DEF Await

LEMMA RaiseStep ==
    ASSUME TypeOK, NEW a \in Actors, Raise(a)
    PROVE /\ pc' \in [Actors -> Places]
          /\ mk' \in [Actors -> Statuses]
          /\ faults' \in 0..MaxFaults
          /\ \A b \in Actors \ {a} : pc'[b] = pc[b] /\ mk'[b] = mk[b]
          /\ pc'[a] = HandlerPlace(a) /\ mk'[a] = HandlerMark(a) /\ faults' = faults + 1
<1>1. /\ pc \in [Actors -> Places]
      /\ mk \in [Actors -> Statuses]
      /\ faults \in 0..MaxFaults
  BY DEF TypeOK
<1>2. HandlerPlace(a) \in Places /\ HandlerMark(a) \in Statuses
  BY <1>1 DEF HandlerPlace, HandlerMark, Places, Statuses
<1> QED
  BY <1>1, <1>2, BoundsAssumption DEF Raise, Fault

LEMMA MarkKeyType ==
    ASSUME TypeOK, NEW a \in Actors
    PROVE MarkKey(a) \in Keys /\ a[1] \in Uploads /\ AfterMark(a) \in Places
BY ActorFacts, BatchAssumption DEF MarkKey, Keys, AfterMark, Places

LEMMA TypeInit == Init => TypeOK
<1> SUFFICES ASSUME Init PROVE TypeOK
  OBVIOUS
<1>1. job \in JobType
  BY DEF Init, NoJob, JobType
<1>2. reader \in ReaderType
  BY DEF Init, IdleReader, ReaderType
<1> QED
  BY <1>1, <1>2, BoundsAssumption DEF Init, TypeOK, Places, Statuses

LEMMA TypeStep == TypeOK /\ [Next]_vars => TypeOK'
<1> SUFFICES ASSUME TypeOK, [Next]_vars PROVE TypeOK'
  OBVIOUS
<1> USE BoundsAssumption, BatchAssumption
<1>1. CASE CreateHset
  <2>1. job' \in JobType
    BY <1>1, FS_CardinalityType DEF CreateHset, JobType
  <2> QED
    BY <1>1, <2>1 DEF CreateHset, AwaitInCreate, Fault, TypeOK
<1>2. CASE CreateExpireAny
  <2>1. ttl' \in SUBSET {"job", "tasks", "errors", "meta"}
    BY <1>2 DEF CreateExpireAny, CreateExpire, TypeOK
  <2> QED
    BY <1>2, <2>1 DEF CreateExpireAny, CreateExpire, AwaitInCreate, Fault, TypeOK
<1>3. ASSUME NEW a \in Actors, HsetTask(a) PROVE TypeOK'
  <2> DEFINE next == CASE mk[a] = "failed" -> "hset_error"
                       [] mk[a] = "completed" -> "hincrby"
                       [] OTHER -> "hgetall"
  <2>1. next \in Places
    BY DEF Places
  <2>2. Await(a, next)
    BY <1>3 DEF HsetTask
  <2>3. tasks' \in [Keys -> Statuses \cup {"absent"}]
    BY <1>3, MarkKeyType DEF HsetTask, TypeOK
  <2> HIDE DEF next
  <2> QED
    BY <1>3, <2>1, <2>2, <2>3, AwaitStep DEF HsetTask, TypeOK
<1>4. ASSUME NEW a \in Actors, HsetError(a) PROVE TypeOK'
  <2>1. Await(a, "hincrby") /\ "hincrby" \in Places
    BY <1>4 DEF HsetError, Places
  <2>2. errors' \in SUBSET Keys
    BY <1>4, MarkKeyType DEF HsetError, TypeOK
  <2> QED
    BY <1>4, <2>1, <2>2, AwaitStep DEF HsetError, TypeOK
<1>5. ASSUME NEW a \in Actors, Hincrby(a) PROVE TypeOK'
  <2>1. Await(a, "hgetall") /\ "hgetall" \in Places
    BY <1>5 DEF Hincrby, Places
  <2>2. job' \in JobType
    <3>1. job \in JobType
      BY DEF TypeOK
    <3>2. CASE mk[a] = "failed"
      <4>1. job' = [job EXCEPT !.exists = TRUE, !.failed = job.failed + 1]
        BY <1>5, <3>2 DEF Hincrby
      <4>2. \A n \in Nat : [job EXCEPT !.exists = TRUE, !.failed = n] \in JobType
        BY <3>1 DEF JobType
      <4>3. job.failed + 1 \in Nat
        BY <3>1 DEF JobType
      <4> QED
        BY <4>1, <4>2, <4>3
    <3>3. CASE mk[a] # "failed"
      <4>1. job' = [job EXCEPT !.exists = TRUE, !.completed = job.completed + 1]
        BY <1>5, <3>3 DEF Hincrby
      <4>2. \A n \in Nat : [job EXCEPT !.exists = TRUE, !.completed = n] \in JobType
        BY <3>1 DEF JobType
      <4>3. job.completed + 1 \in Nat
        BY <3>1 DEF JobType
      <4> QED
        BY <4>1, <4>2, <4>3
    <3> QED
      BY <3>2, <3>3
  <2>3. counted' \in SUBSET Uploads
    BY <1>5, MarkKeyType DEF Hincrby, TypeOK
  <2> QED
    BY <1>5, <2>1, <2>2, <2>3, AwaitStep DEF Hincrby, TypeOK
<1>6. ASSUME NEW a \in Actors, Hgetall(a) PROVE TypeOK'
  <2> DEFINE next == IF AllDone THEN "finalize" ELSE AfterMark(a)
  <2>1. next \in Places
    BY MarkKeyType DEF Places
  <2>2. Await(a, next)
    BY <1>6 DEF Hgetall
  <2> HIDE DEF next
  <2> QED
    BY <1>6, <2>1, <2>2, AwaitStep DEF Hgetall, hashes, TypeOK
<1>7. ASSUME NEW a \in Actors, HsetStatus(a) PROVE TypeOK'
  <2>1. Await(a, AfterMark(a)) /\ AfterMark(a) \in Places
    BY <1>7, MarkKeyType DEF HsetStatus
  <2>2. job' \in JobType
    BY <1>7 DEF HsetStatus, TypeOK, JobType
  <2> QED
    BY <1>7, <2>1, <2>2, AwaitStep DEF HsetStatus, TypeOK
<1>8. ASSUME NEW a \in Actors, Unreachable(a) PROVE TypeOK'
  BY <1>8, RaiseStep DEF Unreachable, hashes, TypeOK
<1>9. ASSUME NEW a \in Actors, Crash(a) PROVE TypeOK'
  BY <1>9 DEF Crash, Fault, Places, hashes, TypeOK
<1>10. ASSUME NEW u \in Uploads, NextUpload(u) PROVE TypeOK'
  BY <1>10 DEF NextUpload, Places, hashes, TypeOK
<1>11. ASSUME NEW u \in Uploads, Insert(u) PROVE TypeOK'
  <2>1. <<u, 0>> \in Actors /\ "hset_task" \in Places
    BY ActorFacts DEF Places
  <2> QED
    BY <1>11, <2>1, AwaitStep DEF Insert, hashes, TypeOK
<1>12. ASSUME NEW u \in Uploads, Kiq(u) PROVE TypeOK'
  BY <1>12 DEF Kiq, Places, hashes, TypeOK
<1>13. ASSUME NEW u \in Uploads, KiqUnacknowledged(u) PROVE TypeOK'
  BY <1>13 DEF KiqUnacknowledged, HandlerPlace, HandlerMark, Places, Statuses, hashes, TypeOK
<1>14. ASSUME NEW e \in Executions, Receive(e) \/ Body(e) \/ Persist(e) PROVE TypeOK'
  BY <1>14 DEF Receive, Body, Persist, Places, Statuses, Terminal, hashes, TypeOK
<1>15. ASSUME NEW u \in Uploads, NEW d \in 1..MaxRedeliveries, Redeliver(u, d) PROVE TypeOK'
  BY <1>15 DEF Redeliver, Places, hashes, TypeOK
<1>16. CASE CrashApi
  BY <1>16 DEF CrashApi, Fault, hashes, TypeOK
<1>17. CASE ExpireJob
  <2>1. job' \in JobType
    BY <1>17 DEF ExpireJob, NoJob, JobType
  <2> QED
    BY <1>17, <2>1 DEF ExpireJob, control, TypeOK
<1>18. CASE Read
  <2>1. reader' \in ReaderType
    <3>1. reader \in ReaderType /\ job.status \in {"queued", "completed"}
      BY DEF TypeOK, JobType
    <3>2. ASSUME NEW user \in Users, Poll(user) PROVE reader' \in ReaderType
      BY <3>1, <3>2 DEF Poll, ReaderType
    <3>3. CASE PollTasks
      BY <3>1, <3>3 DEF PollTasks, ReaderType, TypeOK
    <3>4. CASE PollErrors
      BY <3>1, <3>4 DEF PollErrors, ReaderType, TypeOK
    <3>5. CASE PollAgain
      BY <3>5 DEF PollAgain, IdleReader, ReaderType
    <3> QED
      BY <1>18, <3>2, <3>3, <3>4, <3>5 DEF Read
  <2> QED
    BY <1>18, <2>1 DEF Read, Poll, PollTasks, PollErrors, PollAgain, hashes, control, TypeOK
<1>19. CASE UNCHANGED vars
  BY <1>19 DEF vars, hashes, control, TypeOK
<1> QED
  BY <1>1, <1>2, <1>3, <1>4, <1>5, <1>6, <1>7, <1>8, <1>9, <1>10, <1>11, <1>12,
     <1>13, <1>14, <1>15, <1>16, <1>17, <1>18, <1>19, StepCases

\* Every reachable state has the types that TypeOK gives its variables.
THEOREM TypeCorrect == Spec => []TypeOK
BY TypeInit, TypeStep, PTL DEF Spec

----------------------------------------------------------------------------
(***************************************************************************)
(* The control invariant: which marks an actor can be making, and that the  *)
(* request is through with an upload once its task is published.            *)
(***************************************************************************)
MarksOK ==
    \A a \in Actors :
        /\ a[2] = 0 => mk[a] \in {"queued", "failed"}
        /\ a[2] > 0 => mk[a] \in {"processing", "completed", "failed"}
        /\ pc[a] = "hset_error" => mk[a] = "failed"
        /\ pc[a] = "hincrby" => mk[a] \in Terminal

PublishedOnce ==
    \A u \in Uploads :
        pc[<<u, 1>>] # "none" => pc[<<u, 0>>] \in {"done", "dead"}

Control == MarksOK /\ PublishedOnce

\* What one step can do to one actor's place and mark.
Moves(a) ==
    \/ pc'[a] = pc[a] /\ mk'[a] = mk[a]
    \/ pc[a] \notin {"none", "done", "dead"} /\ pc'[a] = "dead" /\ mk'[a] = mk[a]
    \/ /\ pc[a] \in Marking \cup {"insert", "kiq"}
       /\ pc'[a] = HandlerPlace(a) /\ mk'[a] = HandlerMark(a)
    \/ /\ pc[a] = "hset_task" /\ mk'[a] = mk[a]
       /\ pc'[a] = CASE mk[a] = "failed" -> "hset_error"
                     [] mk[a] = "completed" -> "hincrby"
                     [] OTHER -> "hgetall"
    \/ pc[a] = "hset_error" /\ pc'[a] = "hincrby" /\ mk'[a] = mk[a]
    \/ pc[a] = "hincrby" /\ pc'[a] = "hgetall" /\ mk'[a] = mk[a]
    \/ pc[a] = "hgetall" /\ pc'[a] \in {"finalize", AfterMark(a)} /\ mk'[a] = mk[a]
    \/ pc[a] = "finalize" /\ pc'[a] = AfterMark(a) /\ mk'[a] = mk[a]
    \/ a[2] = 0 /\ pc[a] = "none" /\ pc'[a] = "insert" /\ mk'[a] = mk[a]
    \/ a[2] = 0 /\ pc[a] = "insert" /\ pc'[a] = "hset_task" /\ mk'[a] = mk[a]
    \/ a[2] = 0 /\ pc[a] = "kiq" /\ pc'[a] = "done" /\ mk'[a] = mk[a]
    \/ /\ a[2] = 1 /\ pc[a] = "none" /\ pc[<<a[1], 0>>] = "kiq"
       /\ pc'[a] = "sent" /\ pc'[<<a[1], 0>>] = "done" /\ mk'[a] = mk[a]
    \/ a[2] > 0 /\ pc[a] = "sent" /\ pc'[a] = "hset_task" /\ mk'[a] = mk[a]
    \/ a[2] > 0 /\ pc[a] = "body" /\ pc'[a] = "hset_task" /\ mk'[a] \in Terminal
    \/ a[2] > 0 /\ pc[a] = "persist" /\ pc'[a] = "done" /\ mk'[a] = mk[a]

LEMMA StepMoves ==
    ASSUME TypeOK, AtMostOnce, PublishedOnce, [Next]_vars, NEW b \in Actors
    PROVE Moves(b)
<1> USE DEF Marking
<1>0. pc \in [Actors -> Places] /\ mk \in [Actors -> Statuses]
  BY DEF TypeOK
<1>1. CASE CreateHset \/ CreateExpireAny \/ CrashApi \/ ExpireJob \/ Read \/ UNCHANGED vars
  <2>1. UNCHANGED <<pc, mk>>
    BY <1>1 DEF CreateHset, CreateExpireAny, CreateExpire, AwaitInCreate, CrashApi,
         ExpireJob, Read, Poll, PollTasks, PollErrors, PollAgain, control, vars
  <2> QED
    BY <2>1 DEF Moves
<1>2. ASSUME NEW a \in Actors, HsetTask(a) PROVE Moves(b)
  <2> DEFINE next == CASE mk[a] = "failed" -> "hset_error"
                       [] mk[a] = "completed" -> "hincrby"
                       [] OTHER -> "hgetall"
  <2>1. next \in Places /\ Await(a, next) /\ pc[a] = "hset_task"
    BY <1>2 DEF HsetTask, Places
  <2>2. \/ pc'[a] = next /\ mk'[a] = mk[a]
        \/ pc'[a] = HandlerPlace(a) /\ mk'[a] = HandlerMark(a)
    <3> HIDE DEF next
    <3> QED
      BY <2>1, AwaitStep
  <2>3. b # a => pc'[b] = pc[b] /\ mk'[b] = mk[b]
    <3> HIDE DEF next
    <3> QED
      BY <2>1, AwaitStep
  <2> QED
    BY <2>1, <2>2, <2>3 DEF Moves
<1>3. ASSUME NEW a \in Actors, HsetError(a) PROVE Moves(b)
  <2>1. "hincrby" \in Places /\ Await(a, "hincrby") /\ pc[a] = "hset_error"
    BY <1>3 DEF HsetError, Places
  <2> QED
    BY <2>1, AwaitStep DEF Moves
<1>4. ASSUME NEW a \in Actors, Hincrby(a) PROVE Moves(b)
  <2>1. "hgetall" \in Places /\ Await(a, "hgetall") /\ pc[a] = "hincrby"
    BY <1>4 DEF Hincrby, Places
  <2> QED
    BY <2>1, AwaitStep DEF Moves
<1>5. ASSUME NEW a \in Actors, Hgetall(a) PROVE Moves(b)
  <2> DEFINE next == IF AllDone THEN "finalize" ELSE AfterMark(a)
  <2>1. next \in Places /\ Await(a, next) /\ pc[a] = "hgetall"
    BY <1>5, MarkKeyType DEF Hgetall, Places
  <2>2. next \in {"finalize", AfterMark(a)}
    OBVIOUS
  <2> HIDE DEF next
  <2> QED
    BY <2>1, <2>2, AwaitStep DEF Moves
<1>6. ASSUME NEW a \in Actors, HsetStatus(a) PROVE Moves(b)
  <2>1. AfterMark(a) \in Places /\ Await(a, AfterMark(a)) /\ pc[a] = "finalize"
    BY <1>6, MarkKeyType DEF HsetStatus
  <2> QED
    BY <2>1, AwaitStep DEF Moves
<1>7. ASSUME NEW a \in Actors, Unreachable(a) PROVE Moves(b)
  BY <1>7, RaiseStep DEF Unreachable, Moves
<1>8. ASSUME NEW a \in Actors, Crash(a) PROVE Moves(b)
  BY <1>0, <1>8 DEF Crash, Moves
<1>9. ASSUME NEW u \in Uploads, NextUpload(u) PROVE Moves(b)
  <2>1. <<u, 0>> \in Actors /\ <<u, 0>>[2] = 0
    BY ActorFacts
  <2> QED
    BY <1>0, <1>9, <2>1 DEF NextUpload, Moves
<1>10. ASSUME NEW u \in Uploads, Insert(u) PROVE Moves(b)
  <2>1. <<u, 0>> \in Actors /\ <<u, 0>>[2] = 0 /\ "hset_task" \in Places
    BY ActorFacts DEF Places
  <2> QED
    BY <1>10, <2>1, AwaitStep DEF Insert, Moves
<1>11. ASSUME NEW u \in Uploads, Kiq(u) PROVE Moves(b)
  <2>1. /\ <<u, 0>> \in Actors /\ <<u, 0>>[2] = 0
        /\ <<u, 1>> \in Actors /\ <<u, 1>>[2] = 1 /\ <<u, 1>>[1] = u
    BY ActorFacts
  <2>2. pc[<<u, 1>>] = "none"
    BY <1>11 DEF PublishedOnce, Kiq
  <2>3. /\ mk'[b] = mk[b]
        /\ pc'[<<u, 0>>] = "done" /\ pc'[<<u, 1>>] = "sent" /\ pc[<<u, 0>>] = "kiq"
        /\ b # <<u, 0>> /\ b # <<u, 1>> => pc'[b] = pc[b]
    BY <1>0, <1>11, <2>1 DEF Kiq
  <2> QED
    BY <2>1, <2>2, <2>3 DEF Moves
<1>12. ASSUME NEW u \in Uploads, KiqUnacknowledged(u) PROVE Moves(b)
  BY <1>12 DEF KiqUnacknowledged, AtMostOnce
<1>13. ASSUME NEW e \in Executions, Receive(e) \/ Body(e) \/ Persist(e) PROVE Moves(b)
  <2>1. e \in Actors /\ e[2] > 0
    BY ActorFacts
  <2> QED
    BY <1>0, <1>13, <2>1 DEF Receive, Body, Persist, Moves
<1>14. ASSUME NEW u \in Uploads, NEW d \in 1..MaxRedeliveries, Redeliver(u, d) PROVE Moves(b)
  BY <1>14 DEF AtMostOnce
<1> QED
  BY <1>1, <1>2, <1>3, <1>4, <1>5, <1>6, <1>7, <1>8, <1>9, <1>10, <1>11, <1>12,
     <1>13, <1>14, StepCases

LEMMA ControlInit == Init => Control
BY ActorFacts DEF Init, Control, MarksOK, PublishedOnce

LEMMA ControlStep ==
    ASSUME TypeOK, AtMostOnce, Control, [Next]_vars
    PROVE Control'
<1>1. ASSUME NEW a \in Actors PROVE Moves(a)
  BY StepMoves DEF Control
<1>2. MarksOK'
  <2> SUFFICES ASSUME NEW a \in Actors
               PROVE  /\ a[2] = 0 => mk'[a] \in {"queued", "failed"}
                      /\ a[2] > 0 => mk'[a] \in {"processing", "completed", "failed"}
                      /\ pc'[a] = "hset_error" => mk'[a] = "failed"
                      /\ pc'[a] = "hincrby" => mk'[a] \in Terminal
    BY DEF MarksOK
  <2>1. Moves(a) /\ a[2] \in Nat
    BY <1>1, ActorFacts
  <2> QED
    BY <2>1 DEF Control, MarksOK, Moves, HandlerPlace, HandlerMark, AfterMark, Terminal
<1>3. PublishedOnce'
  <2> SUFFICES ASSUME NEW u \in Uploads, pc'[<<u, 1>>] # "none"
               PROVE  pc'[<<u, 0>>] \in {"done", "dead"}
    BY DEF PublishedOnce
  <2>1. Moves(<<u, 0>>) /\ Moves(<<u, 1>>)
    BY <1>1, ActorFacts
  <2>2. CASE pc[<<u, 1>>] # "none"
    BY <2>1, <2>2 DEF Control, PublishedOnce, Moves, Marking
  <2>3. CASE pc[<<u, 1>>] = "none"
    BY <2>1, <2>3 DEF Moves, Marking
  <2> QED
    BY <2>2, <2>3
<1> QED
  BY <1>2, <1>3 DEF Control

----------------------------------------------------------------------------
(***************************************************************************)
(* The counting invariant: an actor that has counted its upload never       *)
(* counts again, and nobody else can count the same upload.                 *)
(***************************************************************************)
Past(a) ==
    \/ pc[a] \in {"persist", "done", "dead"}
    \/ pc[a] \in {"hgetall", "finalize"} /\ mk[a] \in Terminal

CountedOnce ==
    \A u \in counted :
        /\ Past(<<u, 0>>)
        /\ Past(<<u, 1>>) \/ pc[<<u, 1>>] = "none"

\* An outcome is on record before it is counted, and stays there.
OnRecord ==
    /\ \A a \in Actors :
          pc[a] \in {"hset_error", "hincrby"} => tasks[MarkKey(a)] = mk[a]
    /\ \A u \in counted : Settled(tasks, u)

\* The counters never run ahead of the uploads counted, and only a full count
\* finalizes.
Counters ==
    /\ job.total \in {0, Cardinality(Uploads)}
    /\ job.completed + job.failed <= Cardinality(counted)
    /\ \A a \in Actors : pc[a] = "finalize" => counted = Uploads
    /\ job.status = "completed" => counted = Uploads

IInv == TypeOK /\ Control /\ CountedOnce /\ OnRecord /\ Counters

LEMMA FiniteBatch ==
    ASSUME TypeOK
    PROVE /\ IsFiniteSet(counted)
          /\ Cardinality(counted) \in Nat
          /\ Cardinality(Uploads) \in Nat
          /\ Cardinality(Uploads) # 0
          /\ Cardinality(counted) <= Cardinality(Uploads)
          /\ Cardinality(counted) = Cardinality(Uploads) => counted = Uploads
BY BatchAssumption, FS_Subset, FS_CardinalityType, FS_EmptySet DEF TypeOK

LEMMA IInvInit == Init => IInv
<1> SUFFICES ASSUME Init PROVE IInv
  OBVIOUS
<1>1. TypeOK /\ Control
  BY TypeInit, ControlInit
<1>2. CountedOnce /\ OnRecord
  BY DEF Init, CountedOnce, OnRecord
<1>3. Counters
  BY FS_EmptySet DEF Init, NoJob, Counters
<1> QED
  BY <1>1, <1>2, <1>3 DEF IInv

\* Who counts, when, and which upload.
LEMMA CountStep ==
    ASSUME TypeOK, AtMostOnce, [Next]_vars
    PROVE \/ counted' = counted
          \/ \E a \in Actors : Hincrby(a) /\ counted' = counted \cup {a[1]}
<1>1. CASE CreateHset \/ CreateExpireAny \/ CrashApi \/ ExpireJob \/ Read \/ UNCHANGED vars
  BY <1>1 DEF CreateHset, CreateExpireAny, CreateExpire, AwaitInCreate, CrashApi,
       ExpireJob, Read, Poll, PollTasks, PollErrors, PollAgain, hashes, vars
<1>2. ASSUME NEW a \in Actors,
             HsetTask(a) \/ HsetError(a) \/ Hincrby(a) \/ Hgetall(a)
             \/ HsetStatus(a) \/ Unreachable(a) \/ Crash(a)
      PROVE  counted' = counted \/ (Hincrby(a) /\ counted' = counted \cup {a[1]})
  BY <1>2 DEF HsetTask, HsetError, Hincrby, Hgetall, HsetStatus, Unreachable, Crash, hashes
<1>3. ASSUME NEW u \in Uploads,
             NextUpload(u) \/ Insert(u) \/ Kiq(u) \/ KiqUnacknowledged(u)
      PROVE  counted' = counted
  BY <1>3 DEF NextUpload, Insert, Kiq, KiqUnacknowledged, hashes
<1>4. ASSUME NEW e \in Executions, Receive(e) \/ Body(e) \/ Persist(e)
      PROVE  counted' = counted
  BY <1>4 DEF Receive, Body, Persist, hashes
<1>5. ASSUME NEW u \in Uploads, NEW d \in 1..MaxRedeliveries, Redeliver(u, d)
      PROVE  counted' = counted
  BY <1>5 DEF Redeliver, hashes
<1> QED
  BY <1>1, <1>2, <1>3, <1>4, <1>5, StepCases

\* Once past counting, always past counting.
LEMMA PastStays ==
    ASSUME TypeOK, AtMostOnce, Control, [Next]_vars, NEW a \in Actors, Past(a)
    PROVE Past(a)'
<1>1. Moves(a)
  BY StepMoves DEF Control
<1>2. a[2] \in Nat /\ pc[a] \in Places
  BY ActorFacts DEF TypeOK
<1>3. a[2] = 0 => mk[a] \in {"queued", "failed"}
  BY DEF Control, MarksOK
<1> QED
  BY <1>1, <1>2, <1>3 DEF Moves, Past, Marking, AfterMark, HandlerPlace, HandlerMark,
     CaughtByLoop, Terminal

LEMMA CountedOnceStep ==
    ASSUME TypeOK, AtMostOnce, Control, CountedOnce, [Next]_vars
    PROVE CountedOnce'
<1>0. Control'
  BY ControlStep
<1>1. ASSUME NEW u \in counted
      PROVE  Past(<<u, 0>>)' /\ (Past(<<u, 1>>)' \/ pc'[<<u, 1>>] = "none")
  <2>1. u \in Uploads /\ <<u, 0>> \in Actors /\ <<u, 1>> \in Actors
    BY ActorFacts DEF TypeOK
  <2>2. Past(<<u, 0>>)'
    BY <2>1, PastStays DEF CountedOnce
  <2>3. CASE Past(<<u, 1>>)
    BY <2>1, <2>2, <2>3, PastStays
  <2>4. CASE pc[<<u, 1>>] = "none"
    <3>1. Moves(<<u, 1>>) /\ pc[<<u, 0>>] # "kiq"
      BY <2>1, StepMoves DEF Control, CountedOnce, Past
    <3> QED
      BY <2>1, <2>2, <2>4, <3>1 DEF Moves, Marking
  <2> QED
    BY <2>2, <2>3, <2>4 DEF CountedOnce
<1>2. ASSUME NEW a \in Actors, Hincrby(a)
      PROVE  Past(<<a[1], 0>>)' /\ (Past(<<a[1], 1>>)' \/ pc'[<<a[1], 1>>] = "none")
  <2>1. pc[a] = "hincrby" /\ mk[a] \in Terminal
    BY <1>2 DEF Hincrby, Control, MarksOK
  <2>2. Await(a, "hgetall") /\ "hgetall" \in Places
    BY <1>2 DEF Hincrby, Places
  <2>3. Past(a)'
    <3>1. a[2] = 0 => mk[a] = "failed"
      BY <2>1 DEF Control, MarksOK, Terminal
    <3> QED
      BY <2>1, <2>2, <3>1, AwaitStep, ActorFacts DEF Past, HandlerPlace, CaughtByLoop
  <2>4. a = <<a[1], 0>> \/ a = <<a[1], 1>>
    BY ActorFacts DEF AtMostOnce, MaxDeliveries
  <2>5. CASE a = <<a[1], 1>>
    <3>1. pc[<<a[1], 0>>] \in {"done", "dead"}
      BY <2>1, <2>5, ActorFacts DEF Control, PublishedOnce
    <3>2. Past(<<a[1], 0>>)'
      BY <3>1, PastStays, ActorFacts DEF Past
    <3> QED
      BY <2>3, <2>5, <3>2
  <2>6. CASE a = <<a[1], 0>>
    <3>1. pc[<<a[1], 1>>] = "none"
      BY <2>1, <2>6, ActorFacts DEF Control, PublishedOnce
    <3>2. pc'[<<a[1], 1>>] = "none"
      <4>1. <<a[1], 1>> \in Actors \ {a}
        BY <2>6, ActorFacts
      <4> QED
        BY <2>2, <3>1, <4>1, AwaitStep
    <3> QED
      BY <2>3, <2>6, <3>2
  <2> QED
    BY <2>4, <2>5, <2>6
<1>3. ASSUME NEW u \in counted'
      PROVE  Past(<<u, 0>>)' /\ (Past(<<u, 1>>)' \/ pc'[<<u, 1>>] = "none")
  <2>1. CASE u \in counted
    BY <1>1, <2>1
  <2>2. CASE u \notin counted
    <3>1. PICK a \in Actors : Hincrby(a) /\ u = a[1]
      BY <2>2, CountStep
    <3> QED
      BY <1>2, <3>1
  <2> QED
    BY <2>1, <2>2
<1> QED
  BY <1>3 DEF CountedOnce

\* Who writes an entry of the tasks hash.
LEMMA EntryStep ==
    ASSUME TypeOK, [Next]_vars
    PROVE tasks' = tasks \/ \E a \in Actors : HsetTask(a)
<1>1. CASE CreateHset \/ CreateExpireAny \/ CrashApi \/ ExpireJob \/ Read \/ UNCHANGED vars
  BY <1>1 DEF CreateHset, CreateExpireAny, CreateExpire, AwaitInCreate, CrashApi,
       ExpireJob, Read, Poll, PollTasks, PollErrors, PollAgain, hashes, vars
<1>2. ASSUME NEW a \in Actors,
             HsetTask(a) \/ HsetError(a) \/ Hincrby(a) \/ Hgetall(a)
             \/ HsetStatus(a) \/ Unreachable(a) \/ Crash(a)
      PROVE  tasks' = tasks \/ HsetTask(a)
  BY <1>2 DEF HsetError, Hincrby, Hgetall, HsetStatus, Unreachable, Crash, hashes
<1>3. ASSUME NEW u \in Uploads,
             NextUpload(u) \/ Insert(u) \/ Kiq(u) \/ KiqUnacknowledged(u)
      PROVE  tasks' = tasks
  BY <1>3 DEF NextUpload, Insert, Kiq, KiqUnacknowledged, hashes
<1>4. ASSUME NEW e \in Executions, Receive(e) \/ Body(e) \/ Persist(e)
      PROVE  tasks' = tasks
  BY <1>4 DEF Receive, Body, Persist, hashes
<1>5. ASSUME NEW u \in Uploads, NEW d \in 1..MaxRedeliveries, Redeliver(u, d)
      PROVE  tasks' = tasks
  BY <1>5 DEF Redeliver, hashes
<1> QED
  BY <1>1, <1>2, <1>3, <1>4, <1>5, StepCases

\* The keys the two actors of one upload write, and that the keys of queueing
\* failures and of tasks are apart.
LEMMA KeyFacts ==
    ASSUME TypeOK, Control, AtMostOnce, NEW a \in Actors
    PROVE /\ a = <<a[1], 0>> \/ a = <<a[1], 1>>
          /\ a[1] \in Uploads /\ FileName[a[1]] \in FileNames \ Uploads
          /\ a = <<a[1], 1>> => MarkKey(a) = a[1]
          /\ a = <<a[1], 0>> /\ mk[a] = "failed" => MarkKey(a) = FileName[a[1]]
          /\ a = <<a[1], 0>> /\ mk[a] # "failed" => MarkKey(a) = a[1] /\ mk[a] = "queued"
<1>1. a[1] \in Uploads /\ (a = <<a[1], 0>> \/ a = <<a[1], 1>>)
  BY ActorFacts DEF AtMostOnce, MaxDeliveries
<1>2. FileName[a[1]] \in FileNames \ Uploads
  BY <1>1, BatchAssumption
<1>3. a = <<a[1], 0>> => a[2] = 0 /\ mk[a] \in {"queued", "failed"}
  BY DEF Control, MarksOK
<1> QED
  BY <1>1, <1>2, <1>3 DEF MarkKey

\* An actor gets to counting only through the command that records the outcome.
LEMMA RecordedFirst ==
    ASSUME TypeOK, [Next]_vars, NEW a \in Actors,
           pc'[a] \in {"hset_error", "hincrby"}
    PROVE HsetTask(a) \/ (pc[a] \in {"hset_error", "hincrby"} /\ mk'[a] = mk[a])
<1>0. pc \in [Actors -> Places] /\ mk \in [Actors -> Statuses]
  BY DEF TypeOK
<1>1. CASE CreateHset \/ CreateExpireAny \/ CrashApi \/ ExpireJob \/ Read \/ UNCHANGED vars
  BY <1>1 DEF CreateHset, CreateExpireAny, CreateExpire, AwaitInCreate, CrashApi,
       ExpireJob, Read, Poll, PollTasks, PollErrors, PollAgain, control, vars
<1>2. ASSUME NEW b \in Actors, HsetTask(b)
      PROVE  HsetTask(a) \/ (pc[a] \in {"hset_error", "hincrby"} /\ mk'[a] = mk[a])
  <2> DEFINE next == CASE mk[b] = "failed" -> "hset_error"
                       [] mk[b] = "completed" -> "hincrby"
                       [] OTHER -> "hgetall"
  <2>1. next \in Places /\ Await(b, next)
    BY <1>2 DEF HsetTask, Places
  <2> HIDE DEF next
  <2>2. b # a => pc'[a] = pc[a] /\ mk'[a] = mk[a]
    BY <2>1, AwaitStep
  <2> QED
    BY <1>2, <2>2
<1>3. ASSUME NEW b \in Actors, HsetError(b)
      PROVE  pc[a] \in {"hset_error", "hincrby"} /\ mk'[a] = mk[a]
  <2>1. "hincrby" \in Places /\ Await(b, "hincrby") /\ pc[b] = "hset_error"
    BY <1>3 DEF HsetError, Places
  <2> QED
    BY <2>1, AwaitStep DEF HandlerPlace
<1>4. ASSUME NEW b \in Actors, NEW next \in Places \ {"hset_error", "hincrby"}, Await(b, next)
      PROVE  pc[a] \in {"hset_error", "hincrby"} /\ mk'[a] = mk[a]
  BY <1>4, AwaitStep DEF HandlerPlace
<1>5. ASSUME NEW b \in Actors, Hincrby(b) \/ Hgetall(b) \/ HsetStatus(b)
      PROVE  pc[a] \in {"hset_error", "hincrby"} /\ mk'[a] = mk[a]
  <2>1. PICK next \in {"hgetall", "finalize", AfterMark(b)} : Await(b, next)
    BY <1>5 DEF Hincrby, Hgetall, HsetStatus
  <2>2. next \in Places \ {"hset_error", "hincrby"}
    BY MarkKeyType DEF Places, AfterMark
  <2> QED
    BY <1>4, <2>1, <2>2
<1>6. ASSUME NEW b \in Actors, Unreachable(b) \/ Crash(b)
      PROVE  pc[a] \in {"hset_error", "hincrby"} /\ mk'[a] = mk[a]
  <2>1. CASE Unreachable(b)
    BY <2>1, RaiseStep DEF Unreachable, HandlerPlace
  <2>2. CASE Crash(b)
    BY <1>0, <2>2 DEF Crash
  <2> QED
    BY <1>6, <2>1, <2>2
<1>7. ASSUME NEW u \in Uploads, NextUpload(u) \/ Kiq(u) \/ KiqUnacknowledged(u)
      PROVE  pc[a] \in {"hset_error", "hincrby"} /\ mk'[a] = mk[a]
  BY <1>0, <1>7, ActorFacts DEF NextUpload, Kiq, KiqUnacknowledged, HandlerPlace, HandlerMark
<1>8. ASSUME NEW u \in Uploads, Insert(u)
      PROVE  pc[a] \in {"hset_error", "hincrby"} /\ mk'[a] = mk[a]
  <2>1. <<u, 0>> \in Actors /\ "hset_task" \in Places \ {"hset_error", "hincrby"}
    BY ActorFacts DEF Places
  <2> QED
    BY <1>4, <1>8, <2>1 DEF Insert
<1>9. ASSUME NEW e \in Executions, Receive(e) \/ Body(e) \/ Persist(e)
      PROVE  pc[a] \in {"hset_error", "hincrby"} /\ mk'[a] = mk[a]
  BY <1>0, <1>9, ActorFacts DEF Receive, Body, Persist
<1>10. ASSUME NEW u \in Uploads, NEW d \in 1..MaxRedeliveries, Redeliver(u, d)
      PROVE  pc[a] \in {"hset_error", "hincrby"} /\ mk'[a] = mk[a]
  BY <1>0, <1>10 DEF Redeliver
<1> QED
  BY <1>1, <1>2, <1>3, <1>5, <1>6, <1>7, <1>8, <1>9, <1>10, StepCases

LEMMA OnRecordStep ==
    ASSUME TypeOK, AtMostOnce, Control, CountedOnce, OnRecord, [Next]_vars
    PROVE OnRecord'
<1>0. /\ tasks \in [Keys -> Statuses \cup {"absent"}]
      /\ counted \in SUBSET Uploads
      /\ mk \in [Actors -> Statuses]
  BY DEF TypeOK
<1>1. ASSUME NEW b \in Actors, HsetTask(b)
      PROVE  /\ MarkKey(b) \in Keys
             /\ pc[b] = "hset_task"
             /\ tasks' = [tasks EXCEPT ![MarkKey(b)] = mk[b]]
             /\ counted' = counted
  BY <1>1, MarkKeyType DEF HsetTask
<1>2. ASSUME NEW a \in Actors, pc'[a] \in {"hset_error", "hincrby"}
      PROVE  tasks'[MarkKey(a)'] = mk'[a]
  <2>1. Moves(a)
    BY StepMoves DEF Control
  <2>2. mk'[a] = mk[a] /\ MarkKey(a)' = MarkKey(a)
    <3>1. mk'[a] = mk[a]
      BY <1>2, <2>1 DEF Moves, HandlerPlace, AfterMark
    <3> QED
      BY <3>1 DEF MarkKey
  <2>3. CASE HsetTask(a)
    BY <1>0, <1>1, <2>2, <2>3
  <2>4. CASE pc[a] \in {"hset_error", "hincrby"}
    <3>1. tasks[MarkKey(a)] = mk[a] /\ mk[a] \in Terminal
      BY <2>4 DEF OnRecord, Control, MarksOK, Terminal
    <3>2. CASE tasks' = tasks
      BY <2>2, <3>1, <3>2
    <3>3. ASSUME NEW b \in Actors, HsetTask(b), MarkKey(b) = MarkKey(a)
          PROVE  mk[b] = mk[a]
      <4>1. CASE a = <<a[1], 1>>
        <5>1. pc[<<a[1], 0>>] \in {"done", "dead"}
          BY <2>4, <4>1, KeyFacts DEF Control, PublishedOnce
        <5>2. MarkKey(b) = b[1] /\ b[1] = a[1]
          BY <3>3, <4>1, KeyFacts
        <5> QED
          BY <1>1, <2>4, <3>3, <4>1, <5>1, <5>2, KeyFacts
      <4>2. CASE a = <<a[1], 0>>
        <5>1. mk[a] = "failed" /\ MarkKey(a) \notin Uploads
          BY <3>1, <4>2, KeyFacts DEF Terminal
        <5>2. mk[b] = "failed"
          BY <3>3, <5>1, KeyFacts
        <5> QED
          BY <5>1, <5>2
      <4> QED
        BY <4>1, <4>2, KeyFacts
    <3>4. ASSUME NEW b \in Actors, HsetTask(b)
          PROVE  tasks'[MarkKey(a)'] = mk'[a]
      <4>1. MarkKey(a) \in Keys
        BY MarkKeyType
      <4> QED
        BY <1>0, <1>1, <2>2, <3>1, <3>3, <3>4, <4>1
    <3> QED
      BY <3>2, <3>4, EntryStep
  <2> QED
    BY <1>2, <2>3, <2>4, RecordedFirst
<1>3. ASSUME NEW u \in counted PROVE Settled(tasks', u)
  <2>1. u \in Uploads /\ Settled(tasks, u) /\ FileName[u] \in FileNames \ Uploads
    BY <1>0, BatchAssumption DEF OnRecord
  <2>2. ASSUME NEW b \in Actors, HsetTask(b)
        PROVE  Settled(tasks', u)
    <3>1. u \in Keys /\ FileName[u] \in Keys
      BY <2>1 DEF Keys
    <3>2. MarkKey(b) # u
      <4>1. SUFFICES ASSUME MarkKey(b) = u PROVE FALSE
        OBVIOUS
      <4>2. b[1] = u
        BY <2>1, <4>1, KeyFacts
      <4>3. pc[b] = "hset_task"
        BY <1>1, <2>2
      <4> QED
        BY <4>2, <4>3, KeyFacts DEF CountedOnce, Past
    <3>3. MarkKey(b) = FileName[u] => mk[b] = "failed"
      BY <2>1, KeyFacts
    <3> QED
      BY <1>0, <1>1, <2>1, <2>2, <3>1, <3>2, <3>3 DEF Settled
  <2> QED
    BY <2>1, <2>2, EntryStep
<1>4. ASSUME NEW a \in Actors, Hincrby(a) PROVE Settled(tasks', a[1])
  <2>1. tasks' = tasks /\ pc[a] = "hincrby"
    BY <1>4 DEF Hincrby
  <2>2. tasks[MarkKey(a)] = mk[a] /\ mk[a] \in Terminal
    BY <2>1 DEF OnRecord, Control, MarksOK
  <2> QED
    BY <2>1, <2>2, KeyFacts DEF Settled, Terminal
<1>5. ASSUME NEW u \in counted' PROVE Settled(tasks', u)
  <2>1. CASE u \in counted
    BY <1>3, <2>1
  <2>2. CASE u \notin counted
    <3>1. PICK a \in Actors : Hincrby(a) /\ u = a[1]
      BY <2>2, CountStep
    <3> QED
      BY <1>4, <3>1
  <2> QED
    BY <2>1, <2>2
<1> QED
  BY <1>2, <1>5 DEF OnRecord

\* Which commands change the job hash, and what they leave of it.
LEMMA JobStep ==
    ASSUME TypeOK, [Next]_vars
    PROVE \/ UNCHANGED <<job, counted>>
          \/ CreateHset
          \/ \E a \in Actors : Hincrby(a)
          \/ \E a \in Actors : HsetStatus(a)
          \/ ExpireJob
<1>1. CASE CreateExpireAny \/ CrashApi \/ Read \/ UNCHANGED vars
  BY <1>1 DEF CreateExpireAny, CreateExpire, AwaitInCreate, CrashApi,
       Read, Poll, PollTasks, PollErrors, PollAgain, hashes, vars
<1>2. ASSUME NEW a \in Actors,
             HsetTask(a) \/ HsetError(a) \/ Hgetall(a) \/ Unreachable(a) \/ Crash(a)
      PROVE  UNCHANGED <<job, counted>>
  BY <1>2 DEF HsetTask, HsetError, Hgetall, Unreachable, Crash, hashes
<1>3. ASSUME NEW u \in Uploads,
             NextUpload(u) \/ Insert(u) \/ Kiq(u) \/ KiqUnacknowledged(u)
      PROVE  UNCHANGED <<job, counted>>
  BY <1>3 DEF NextUpload, Insert, Kiq, KiqUnacknowledged, hashes
<1>4. ASSUME NEW e \in Executions, Receive(e) \/ Body(e) \/ Persist(e)
      PROVE  UNCHANGED <<job, counted>>
  BY <1>4 DEF Receive, Body, Persist, hashes
<1>5. ASSUME NEW u \in Uploads, NEW d \in 1..MaxRedeliveries, Redeliver(u, d)
      PROVE  UNCHANGED <<job, counted>>
  BY <1>5 DEF Redeliver, hashes
<1> QED
  BY <1>1, <1>2, <1>3, <1>4, <1>5, StepCases

\* Only reading a full count leads to finalizing.
LEMMA FinalizeStep ==
    ASSUME TypeOK, [Next]_vars, AtMostOnce, Control, NEW a \in Actors,
           pc'[a] = "finalize", pc[a] # "finalize"
    PROVE AllDone
<1>0. pc \in [Actors -> Places] /\ mk \in [Actors -> Statuses]
  BY DEF TypeOK
<1>1. Moves(a)
  BY StepMoves DEF Control
<1>2. pc[a] = "hgetall"
  BY <1>1 DEF Moves, HandlerPlace, AfterMark
<1>3. CASE CreateHset \/ CreateExpireAny \/ CrashApi \/ ExpireJob \/ Read \/ UNCHANGED vars
  BY <1>3 DEF CreateHset, CreateExpireAny, CreateExpire, AwaitInCreate, CrashApi,
       ExpireJob, Read, Poll, PollTasks, PollErrors, PollAgain, control, vars
<1>4. ASSUME NEW b \in Actors, Hgetall(b) PROVE AllDone
  <2>1. CASE b = a
    <3>1. SUFFICES ASSUME ~ AllDone PROVE FALSE
      OBVIOUS
    <3>2. Await(a, AfterMark(a)) /\ AfterMark(a) \in Places
      BY <1>4, <2>1, <3>1, MarkKeyType DEF Hgetall
    <3> QED
      BY <3>2, AwaitStep DEF AfterMark, HandlerPlace
  <2>2. CASE b # a
    <3> DEFINE next == IF AllDone THEN "finalize" ELSE AfterMark(b)
    <3>1. Await(b, next) /\ next \in Places
      BY <1>4, MarkKeyType DEF Hgetall, Places
    <3> HIDE DEF next
    <3> QED
      BY <2>2, <3>1, AwaitStep
  <2> QED
    BY <2>1, <2>2
<1>5. ASSUME NEW b \in Actors, NEW next \in Places, Await(b, next), pc[b] # "hgetall"
      PROVE  FALSE
  BY <1>2, <1>5, AwaitStep
<1>6. ASSUME NEW b \in Actors, HsetTask(b) \/ HsetError(b) \/ Hincrby(b) \/ HsetStatus(b)
      PROVE  FALSE
  <2>1. PICK next \in Places : Await(b, next)
    <3>1. {"hset_error", "hincrby", "hgetall"} \subseteq Places
      BY DEF Places
    <3> QED
      BY <1>6, <3>1, MarkKeyType DEF HsetTask, HsetError, Hincrby, HsetStatus
  <2>2. pc[b] # "hgetall"
    BY <1>6 DEF HsetTask, HsetError, Hincrby, HsetStatus
  <2> QED
    BY <1>5, <2>1, <2>2
<1>7. ASSUME NEW b \in Actors, Unreachable(b) \/ Crash(b) PROVE FALSE
  <2>1. CASE Unreachable(b)
    BY <2>1, RaiseStep DEF Unreachable, HandlerPlace
  <2>2. CASE Crash(b)
    BY <1>0, <2>2 DEF Crash
  <2> QED
    BY <1>7, <2>1, <2>2
<1>8. ASSUME NEW u \in Uploads, NextUpload(u) \/ Kiq(u) \/ KiqUnacknowledged(u)
      PROVE  FALSE
  BY <1>0, <1>8, ActorFacts DEF NextUpload, Kiq, KiqUnacknowledged, HandlerPlace, AtMostOnce
<1>9. ASSUME NEW u \in Uploads, Insert(u) PROVE FALSE
  <2>1. <<u, 0>> \in Actors /\ "hset_task" \in Places
    BY ActorFacts DEF Places
  <2> QED
    BY <1>5, <1>9, <2>1 DEF Insert
<1>10. ASSUME NEW e \in Executions, Receive(e) \/ Body(e) \/ Persist(e) PROVE FALSE
  BY <1>0, <1>2, <1>10, ActorFacts DEF Receive, Body, Persist
<1>11. ASSUME NEW u \in Uploads, NEW d \in 1..MaxRedeliveries, Redeliver(u, d)
       PROVE  FALSE
  BY <1>11 DEF AtMostOnce
<1> QED
  BY <1>3, <1>4, <1>6, <1>7, <1>8, <1>9, <1>10, <1>11, StepCases

LEMMA CountersStep ==
    ASSUME TypeOK, AtMostOnce, Control, CountedOnce, Counters, [Next]_vars
    PROVE Counters'
<1>0. job \in JobType /\ counted \in SUBSET Uploads /\ TypeOK'
  BY TypeStep DEF TypeOK
<1>1. counted \subseteq counted' /\ counted' \subseteq Uploads
  BY <1>0, CountStep DEF TypeOK
<1>2. ASSUME NEW a \in Actors, pc'[a] = "finalize" PROVE counted' = Uploads
  <2>1. CASE pc[a] = "finalize"
    BY <1>1, <2>1 DEF Counters
  <2>2. CASE pc[a] # "finalize"
    <3>1. AllDone
      BY <1>2, <2>2, FinalizeStep
    <3>2. job.completed + job.failed >= Cardinality(Uploads)
      BY <3>1 DEF AllDone, Counters
    <3>3. counted = Uploads
      BY <1>0, <3>2, FiniteBatch DEF Counters, JobType
    <3> QED
      BY <1>1, <3>3
  <2> QED
    BY <2>1, <2>2
<1>3. CASE UNCHANGED <<job, counted>>
  BY <1>2, <1>3 DEF Counters
<1>4. CASE CreateHset
  BY <1>0, <1>2, <1>4, FiniteBatch DEF CreateHset, AwaitInCreate, Counters
<1>5. ASSUME NEW a \in Actors, Hincrby(a) PROVE Counters'
  <2>1. pc[a] = "hincrby" /\ counted' = counted \cup {a[1]}
    BY <1>5 DEF Hincrby
  <2>2. a[1] \notin counted
    BY <2>1, KeyFacts DEF CountedOnce, Past
  <2>3. Cardinality(counted') = Cardinality(counted) + 1
    BY <2>1, <2>2, FiniteBatch, FS_AddElement
  <2>4. /\ job'.total = job.total /\ job'.status = job.status
        /\ job'.completed + job'.failed = job.completed + job.failed + 1
    <3>1. CASE mk[a] = "failed"
      <4>1. job' = [job EXCEPT !.exists = TRUE, !.failed = job.failed + 1]
        BY <1>5, <3>1 DEF Hincrby
      <4> QED
        BY <1>0, <4>1 DEF JobType
    <3>2. CASE mk[a] # "failed"
      <4>1. job' = [job EXCEPT !.exists = TRUE, !.completed = job.completed + 1]
        BY <1>5, <3>2 DEF Hincrby
      <4> QED
        BY <1>0, <4>1 DEF JobType
    <3> QED
      BY <3>1, <3>2
  <2>5. job'.completed + job'.failed <= Cardinality(counted')
    BY <1>0, <2>3, <2>4, FiniteBatch DEF Counters, JobType
  <2> QED
    BY <1>1, <1>2, <2>4, <2>5 DEF Counters
<1>6. ASSUME NEW a \in Actors, HsetStatus(a) PROVE Counters'
  <2>1. counted = Uploads /\ counted' = counted
    BY <1>6 DEF HsetStatus, Counters
  <2>2. /\ job'.total = job.total
        /\ job'.completed = job.completed /\ job'.failed = job.failed
    BY <1>0, <1>6 DEF HsetStatus, JobType
  <2> QED
    BY <2>1, <2>2 DEF Counters
<1>7. CASE ExpireJob
  <2>1. job' = NoJob /\ counted' = counted
    BY <1>7 DEF ExpireJob
  <2> QED
    BY <1>2, <2>1, FiniteBatch DEF NoJob, Counters
<1> QED
  BY <1>3, <1>4, <1>5, <1>6, <1>7, JobStep

LEMMA IInvStep == AtMostOnce /\ IInv /\ [Next]_vars => IInv'
BY TypeStep, ControlStep, CountedOnceStep, OnRecordStep, CountersStep DEF IInv

\* The inductive invariant holds in every reachable state.
THEOREM Inductive == AtMostOnce /\ Spec => []IInv
<1> SUFFICES ASSUME AtMostOnce PROVE Spec => []IInv
  OBVIOUS
<1>1. IInv /\ [Next]_vars => IInv'
  BY IInvStep
<1> QED
  BY <1>1, IInvInit, PTL DEF Spec

\* A batch that reads "completed" has an outcome on record for every upload.
THEOREM NeverCompletesEarly == AtMostOnce /\ Spec => []NoEarlyCompletion
<1>1. IInv => NoEarlyCompletion
  BY DEF IInv, Counters, OnRecord, NoEarlyCompletion
<1> QED
  BY <1>1, Inductive, PTL

\* No upload is counted twice.
THEOREM NeverOvercounts == AtMostOnce /\ Spec => []NoOvercount
<1>1. IInv => NoOvercount
  <2> SUFFICES ASSUME IInv PROVE NoOvercount
    OBVIOUS
  <2>1. job.completed \in Nat /\ job.failed \in Nat
    BY DEF IInv, TypeOK, JobType
  <2> QED
    BY <2>1, FiniteBatch DEF IInv, Counters, NoOvercount
<1> QED
  BY <1>1, Inductive, PTL

----------------------------------------------------------------------------
(***************************************************************************)
(* The record implements the abstract batch.                                *)
(***************************************************************************)
LEMMA ProgressStep ==
    ASSUME IInv, AtMostOnce, [Next]_vars
    PROVE [Progress!Next]_(Progress!vars)
<1>0. job \in JobType /\ counted \in SUBSET Uploads
  BY DEF IInv, TypeOK
<1>1. CASE UNCHANGED <<job, counted>>
  BY <1>1 DEF Progress!vars
<1>2. CASE CreateHset
  <2>1. job'.status = "queued" /\ counted' = counted
    BY <1>2 DEF CreateHset, AwaitInCreate
  <2> QED
    BY <2>1 DEF Progress!Next, Progress!Forget
<1>3. ASSUME NEW a \in Actors, Hincrby(a)
      PROVE  [Progress!Next]_(Progress!vars)
  <2>1. pc[a] = "hincrby" /\ counted' = counted \cup {a[1]} /\ a[1] \in Uploads
    BY <1>3, MarkKeyType DEF Hincrby, IInv
  <2>2. a[1] \notin counted
    BY <2>1, KeyFacts DEF IInv, CountedOnce, Past
  <2>3. job'.status = job.status
    BY <1>0, <1>3 DEF Hincrby, JobType
  <2> QED
    BY <2>1, <2>2, <2>3 DEF Progress!Next, Progress!Settle
<1>4. ASSUME NEW a \in Actors, HsetStatus(a)
      PROVE  [Progress!Next]_(Progress!vars)
  <2>1. counted = Uploads /\ counted' = counted
    BY <1>4 DEF HsetStatus, IInv, Counters
  <2>2. job'.status = "completed"
    BY <1>0, <1>4 DEF HsetStatus, JobType
  <2> QED
    BY <2>1, <2>2 DEF Progress!Next, Progress!Announce
<1>5. CASE ExpireJob
  <2>1. job'.status = "queued" /\ counted' = counted
    BY <1>5 DEF ExpireJob, NoJob
  <2> QED
    BY <2>1 DEF Progress!Next, Progress!Forget
<1> QED
  BY <1>1, <1>2, <1>3, <1>4, <1>5, JobStep DEF IInv

\* Every behaviour of the tracker is one of the abstract batch.
THEOREM Refinement == AtMostOnce /\ Spec => ImplementsBatchProgress
<1> SUFFICES ASSUME AtMostOnce PROVE Spec => Progress!Spec
  BY DEF ImplementsBatchProgress
<1>1. Init => Progress!Init
  BY DEF Init, NoJob, Progress!Init
<1>2. IInv /\ [Next]_vars => [Progress!Next]_(Progress!vars)
  BY ProgressStep
<1>3. Spec => []IInv
  BY Inductive
<1> QED
  BY <1>1, <1>2, <1>3, PTL DEF Spec, Progress!Spec

----------------------------------------------------------------------------
(***************************************************************************)
(* The last mark finalizes, also when messages are delivered again or were  *)
(* published although publishing raised.  Control does not hold then; what  *)
(* does is that an upload's first execution does not start over.            *)
(***************************************************************************)
Handed ==
    \A u \in Uploads :
        /\ pc[<<u, 0>>] \in {"none", "insert", "kiq"} => mk[<<u, 0>>] = "queued"
        /\ pc[<<u, 1>>] # "none" =>
              pc[<<u, 0>>] \in {"done", "dead"} \/ mk[<<u, 0>>] = "failed"

\* An actor inside a command goes on inside mark(), to what follows the mark,
\* to the handler, or stops.
GoesOn(a) ==
    /\ pc[a] \notin {"none", "done", "dead"}
    /\ \/ /\ mk'[a] = mk[a]
          /\ pc'[a] \in Marking \cup {AfterMark(a), "dead"}
       \/ /\ pc'[a] = HandlerPlace(a)
          /\ mk'[a] = HandlerMark(a)

LEMMA ActorStep ==
    ASSUME TypeOK, NEW a \in Actors,
           \/ HsetTask(a) \/ HsetError(a) \/ Hincrby(a) \/ Hgetall(a)
           \/ HsetStatus(a) \/ Unreachable(a) \/ Crash(a)
    PROVE GoesOn(a) /\ \A b \in Actors \ {a} : pc'[b] = pc[b] /\ mk'[b] = mk[b]
<1> USE DEF Marking
<1>0. pc \in [Actors -> Places] /\ mk \in [Actors -> Statuses]
  BY DEF TypeOK
<1>1. CASE HsetTask(a) \/ HsetError(a) \/ Hincrby(a)
  <2>1. PICK next \in {"hset_error", "hincrby", "hgetall"} : Await(a, next)
    BY <1>1 DEF HsetTask, HsetError, Hincrby
  <2>2. next \in Places /\ pc[a] \in Marking
    BY <1>1, <2>1 DEF Places, HsetTask, HsetError, Hincrby
  <2> QED
    BY <2>1, <2>2, AwaitStep DEF GoesOn
<1>2. CASE Hgetall(a) \/ HsetStatus(a)
  <2>1. PICK next \in {"finalize", AfterMark(a)} : Await(a, next)
    BY <1>2 DEF Hgetall, HsetStatus
  <2>2. next \in Places /\ pc[a] \in Marking
    BY <1>2, <2>1, MarkKeyType DEF Places, Hgetall, HsetStatus
  <2> QED
    BY <2>1, <2>2, AwaitStep DEF GoesOn
<1>3. CASE Unreachable(a)
  BY <1>3, RaiseStep DEF Unreachable, GoesOn
<1>4. CASE Crash(a)
  BY <1>0, <1>4 DEF Crash, GoesOn
<1> QED
  BY <1>1, <1>2, <1>3, <1>4

LEMMA HandedStep ==
    ASSUME TypeOK, Handed, [Next]_vars
    PROVE Handed'
<1> SUFFICES ASSUME NEW u \in Uploads
             PROVE  /\ pc'[<<u, 0>>] \in {"none", "insert", "kiq"} => mk'[<<u, 0>>] = "queued"
                    /\ pc'[<<u, 1>>] # "none" =>
                          pc'[<<u, 0>>] \in {"done", "dead"} \/ mk'[<<u, 0>>] = "failed"
  BY DEF Handed
<1>0. /\ pc \in [Actors -> Places] /\ mk \in [Actors -> Statuses]
      /\ <<u, 0>> \in Actors /\ <<u, 1>> \in Actors
      /\ <<u, 0>>[2] = 0 /\ <<u, 1>>[2] = 1
      /\ <<u, 0>> # <<u, 1>>
  BY ActorFacts DEF TypeOK
<1>h. /\ pc[<<u, 0>>] \in {"none", "insert", "kiq"} => mk[<<u, 0>>] = "queued"
      /\ pc[<<u, 1>>] # "none" =>
            pc[<<u, 0>>] \in {"done", "dead"} \/ mk[<<u, 0>>] = "failed"
  BY DEF Handed
<1>1. CASE CreateHset \/ CreateExpireAny \/ CrashApi \/ ExpireJob \/ Read \/ UNCHANGED vars
  <2>1. UNCHANGED <<pc, mk>>
    BY <1>1 DEF CreateHset, CreateExpireAny, CreateExpire, AwaitInCreate, CrashApi,
         ExpireJob, Read, Poll, PollTasks, PollErrors, PollAgain, control, vars
  <2> QED
    BY <1>h, <2>1
<1>2. ASSUME NEW a \in Actors, GoesOn(a),
             \A b \in Actors \ {a} : pc'[b] = pc[b] /\ mk'[b] = mk[b]
      PROVE  /\ pc'[<<u, 0>>] \in {"none", "insert", "kiq"} => mk'[<<u, 0>>] = "queued"
             /\ pc'[<<u, 1>>] # "none" =>
                   pc'[<<u, 0>>] \in {"done", "dead"} \/ mk'[<<u, 0>>] = "failed"
  <2>1. CASE a = <<u, 0>>
    <3>1. pc'[<<u, 1>>] = pc[<<u, 1>>]
      BY <1>0, <1>2, <2>1
    <3>2. mk[<<u, 0>>] = "failed" => mk'[<<u, 0>>] = "failed"
      BY <1>0, <1>2, <2>1 DEF GoesOn, HandlerMark, CaughtByLoop
    <3>3. pc'[<<u, 0>>] \in {"none", "insert", "kiq"} => mk'[<<u, 0>>] = "queued"
      BY <1>0, <1>2, <2>1 DEF GoesOn, Marking, AfterMark, HandlerPlace, HandlerMark
    <3>4. pc[<<u, 0>>] \notin {"done", "dead"}
      BY <1>2, <2>1 DEF GoesOn
    <3> QED
      BY <1>h, <3>1, <3>2, <3>3, <3>4
  <2>2. CASE a # <<u, 0>>
    <3>1. pc'[<<u, 0>>] = pc[<<u, 0>>] /\ mk'[<<u, 0>>] = mk[<<u, 0>>]
      BY <1>0, <1>2, <2>2
    <3>2. pc'[<<u, 1>>] # "none" => pc[<<u, 1>>] # "none"
      BY <1>0, <1>2 DEF GoesOn
    <3> QED
      BY <1>h, <3>1, <3>2
  <2> QED
    BY <2>1, <2>2
<1>3. ASSUME NEW v \in Uploads, NextUpload(v) \/ Kiq(v) \/ KiqUnacknowledged(v)
      PROVE  /\ pc'[<<u, 0>>] \in {"none", "insert", "kiq"} => mk'[<<u, 0>>] = "queued"
             /\ pc'[<<u, 1>>] # "none" =>
                   pc'[<<u, 0>>] \in {"done", "dead"} \/ mk'[<<u, 0>>] = "failed"
  <2>0. <<v, 0>> \in Actors /\ <<v, 1>> \in Actors /\ <<v, 0>>[2] = 0
    BY ActorFacts
  <2>1. CASE NextUpload(v)
    BY <1>0, <1>h, <2>0, <2>1 DEF NextUpload
  <2>2. CASE Kiq(v)
    BY <1>0, <1>h, <2>0, <2>2 DEF Kiq
  <2>3. CASE KiqUnacknowledged(v)
    <3>1. CASE v = u
      <4>1. mk[<<u, 0>>] = "queued"
        BY <1>h, <2>3, <3>1 DEF KiqUnacknowledged
      <4>2. \/ pc'[<<u, 0>>] = "dead"
            \/ pc'[<<u, 0>>] = "hset_task" /\ mk'[<<u, 0>>] = "failed"
        BY <1>0, <2>3, <3>1, <4>1
           DEF KiqUnacknowledged, HandlerPlace, HandlerMark, CaughtByLoop
      <4> QED
        BY <4>2
    <3>2. CASE v # u
      BY <1>0, <1>h, <2>0, <2>3, <3>2 DEF KiqUnacknowledged
    <3> QED
      BY <3>1, <3>2
  <2> QED
    BY <1>3, <2>1, <2>2, <2>3
<1>4. ASSUME NEW v \in Uploads, Insert(v)
      PROVE  /\ pc'[<<u, 0>>] \in {"none", "insert", "kiq"} => mk'[<<u, 0>>] = "queued"
             /\ pc'[<<u, 1>>] # "none" =>
                   pc'[<<u, 0>>] \in {"done", "dead"} \/ mk'[<<u, 0>>] = "failed"
  <2>1. /\ <<v, 0>> \in Actors /\ "hset_task" \in Places
        /\ Await(<<v, 0>>, "hset_task") /\ pc[<<v, 0>>] = "insert"
    BY <1>4, ActorFacts DEF Insert, Places
  <2>2. /\ \A b \in Actors \ {<<v, 0>>} : pc'[b] = pc[b] /\ mk'[b] = mk[b]
        /\ \/ pc'[<<v, 0>>] = "hset_task" /\ mk'[<<v, 0>>] = mk[<<v, 0>>]
           \/ /\ pc'[<<v, 0>>] = HandlerPlace(<<v, 0>>)
              /\ mk'[<<v, 0>>] = HandlerMark(<<v, 0>>)
    BY <2>1, AwaitStep
  <2>3. GoesOn(<<v, 0>>)
    BY <2>1, <2>2 DEF GoesOn, Marking
  <2> QED
    BY <1>2, <2>1, <2>2, <2>3
<1>5. ASSUME NEW e \in Executions, Receive(e) \/ Body(e) \/ Persist(e)
      PROVE  /\ pc'[<<u, 0>>] \in {"none", "insert", "kiq"} => mk'[<<u, 0>>] = "queued"
             /\ pc'[<<u, 1>>] # "none" =>
                   pc'[<<u, 0>>] \in {"done", "dead"} \/ mk'[<<u, 0>>] = "failed"
  <2>1. e \in Actors /\ e # <<u, 0>>
    BY ActorFacts
  <2>2. pc'[<<u, 0>>] = pc[<<u, 0>>] /\ mk'[<<u, 0>>] = mk[<<u, 0>>]
    BY <1>0, <1>5, <2>1 DEF Receive, Body, Persist
  <2>3. pc'[<<u, 1>>] # "none" => pc[<<u, 1>>] # "none"
    BY <1>0, <1>5, <2>1 DEF Receive, Body, Persist
  <2> QED
    BY <1>h, <2>2, <2>3
<1>6. ASSUME NEW v \in Uploads, NEW d \in 1..MaxRedeliveries, Redeliver(v, d)
      PROVE  /\ pc'[<<u, 0>>] \in {"none", "insert", "kiq"} => mk'[<<u, 0>>] = "queued"
             /\ pc'[<<u, 1>>] # "none" =>
                   pc'[<<u, 0>>] \in {"done", "dead"} \/ mk'[<<u, 0>>] = "failed"
  <2>1. <<u, 0>> # <<v, d + 1>> /\ <<u, 1>> # <<v, d + 1>>
    BY BoundsAssumption
  <2> QED
    BY <1>0, <1>h, <1>6, <2>1 DEF Redeliver
<1> QED
  BY <1>1, <1>2, <1>3, <1>4, <1>5, <1>6, ActorStep, StepCases

Finalizing(a) == pc[a] \in {"hgetall", "finalize"}

\* Without a fault an actor stops finalizing only by setting the status, or
\* because it read that outcomes are missing.
LEMMA FinalizingStays ==
    ASSUME TypeOK, Handed, [Next]_vars, faults' = faults,
           NEW a \in Actors, Finalizing(a), AllDone
    PROVE Finalizing(a)' \/ HsetStatus(a)
<1>0. /\ pc \in [Actors -> Places] /\ mk \in [Actors -> Statuses]
      /\ faults \in Nat
  BY BoundsAssumption DEF TypeOK
<1>1. CASE CreateHset \/ CreateExpireAny \/ CrashApi \/ ExpireJob \/ Read \/ UNCHANGED vars
  BY <1>1 DEF CreateHset, CreateExpireAny, CreateExpire, AwaitInCreate, CrashApi,
       ExpireJob, Read, Poll, PollTasks, PollErrors, PollAgain, control, vars, Finalizing
<1>2. ASSUME NEW b \in Actors, NEW next \in Places, Await(b, next), b # a
      PROVE  Finalizing(a)'
  BY <1>2, AwaitStep DEF Finalizing
<1>3. ASSUME NEW b \in Actors, HsetTask(b) \/ HsetError(b) \/ Hincrby(b)
      PROVE  Finalizing(a)'
  <2>1. PICK next \in Places : Await(b, next)
    <3>1. {"hset_error", "hincrby", "hgetall"} \subseteq Places
      BY DEF Places
    <3> QED
      BY <1>3, <3>1 DEF HsetTask, HsetError, Hincrby
  <2>2. b # a
    BY <1>3 DEF HsetTask, HsetError, Hincrby, Finalizing
  <2> QED
    BY <1>2, <2>1, <2>2
<1>4. ASSUME NEW b \in Actors, Hgetall(b) PROVE Finalizing(a)'
  <2>1. Await(b, "finalize") /\ "finalize" \in Places
    BY <1>4 DEF Hgetall, Places
  <2>2. CASE b = a
    <3>1. pc'[a] = "finalize" \/ faults' = faults + 1
      BY <2>1, <2>2, AwaitStep
    <3> QED
      BY <1>0, <3>1 DEF Finalizing
  <2> QED
    BY <1>2, <2>1, <2>2
<1>5. ASSUME NEW b \in Actors, HsetStatus(b) PROVE Finalizing(a)' \/ HsetStatus(a)
  <2>1. Await(b, AfterMark(b)) /\ AfterMark(b) \in Places
    BY <1>5, MarkKeyType DEF HsetStatus
  <2> QED
    BY <1>2, <1>5, <2>1
<1>6. ASSUME NEW b \in Actors, Unreachable(b) \/ Crash(b) PROVE FALSE
  BY <1>0, <1>6 DEF Unreachable, Crash, Raise, Fault
<1>7. ASSUME NEW u \in Uploads,
             NextUpload(u) \/ Insert(u) \/ Kiq(u) \/ KiqUnacknowledged(u)
      PROVE  Finalizing(a)'
  <2>1. CASE Insert(u)
    <3>1. <<u, 0>> \in Actors /\ "hset_task" \in Places /\ <<u, 0>> # a
      BY <2>1, ActorFacts DEF Insert, Places, Finalizing
    <3> QED
      BY <1>2, <2>1, <3>1 DEF Insert
  <2>2. CASE NextUpload(u)
    BY <1>0, <2>2 DEF NextUpload, Finalizing
  <2>3. CASE Kiq(u)
    <3>1. pc[<<u, 0>>] = "kiq" /\ pc[<<u, 1>>] = "none"
      BY <2>3 DEF Kiq, Handed
    <3>2. a # <<u, 0>> /\ a # <<u, 1>>
      BY <3>1 DEF Finalizing
    <3> QED
      BY <1>0, <2>3, <3>2 DEF Kiq, Finalizing
  <2>4. CASE KiqUnacknowledged(u)
    <3>1. pc[<<u, 0>>] = "kiq" /\ pc[<<u, 1>>] = "none"
      BY <2>4 DEF KiqUnacknowledged, Handed
    <3>2. a # <<u, 0>> /\ a # <<u, 1>>
      BY <3>1 DEF Finalizing
    <3> QED
      BY <1>0, <2>4, <3>2 DEF KiqUnacknowledged, Finalizing
  <2> QED
    BY <1>7, <2>1, <2>2, <2>3, <2>4
<1>8. ASSUME NEW e \in Executions, Receive(e) \/ Body(e) \/ Persist(e)
      PROVE  Finalizing(a)'
  BY <1>0, <1>8 DEF Receive, Body, Persist, Finalizing
<1>9. ASSUME NEW u \in Uploads, NEW d \in 1..MaxRedeliveries, Redeliver(u, d)
      PROVE  Finalizing(a)'
  BY <1>0, <1>9 DEF Redeliver, Finalizing
<1> QED
  BY <1>1, <1>3, <1>4, <1>5, <1>6, <1>7, <1>8, <1>9, StepCases

LEMMA FaultsGrow ==
    ASSUME TypeOK, [Next]_vars
    PROVE faults \in Nat /\ faults' \in Nat /\ faults' >= faults
<1>0. faults \in Nat
  BY BoundsAssumption DEF TypeOK
<1>1. CASE CrashApi \/ ExpireJob \/ Read \/ UNCHANGED vars
  <2>1. CASE CrashApi
    BY <1>0, <2>1 DEF Fault, CrashApi
  <2>2. CASE ExpireJob \/ Read \/ UNCHANGED vars
    <3>1. faults' = faults
      BY <2>2 DEF ExpireJob, Read, Poll, PollTasks, PollErrors, PollAgain, control, vars
    <3> QED
      BY <1>0, <3>1
  <2> QED
    BY <1>1, <2>1, <2>2
<1>7. CASE Create
  <2>1. \E next : AwaitInCreate(next)
    BY <1>7 DEF Create, CreateHset, CreateExpire
  <2> QED
    BY <1>0, <2>1 DEF AwaitInCreate, Fault
<1>2. ASSUME NEW a, NEW next, Await(a, next)
      PROVE  faults' \in Nat /\ faults' >= faults
  BY <1>0, <1>2 DEF Await, Return, Raise, Fault
<1>3. ASSUME NEW a, Mark(a)
      PROVE  faults' \in Nat /\ faults' >= faults
  BY <1>2, <1>3 DEF Mark, HsetTask, HsetError, Hincrby, Hgetall, HsetStatus
<1>4. ASSUME NEW u \in Uploads, Iterate(u)
      PROVE  faults' \in Nat /\ faults' >= faults
  BY <1>0, <1>2, <1>3, <1>4 DEF Iterate, NextUpload, Insert, Kiq, KiqUnacknowledged
<1>5. ASSUME NEW e \in Executions, Execute(e)
      PROVE  faults' \in Nat /\ faults' >= faults
  BY <1>0, <1>3, <1>5 DEF Execute, Receive, Body, Persist
<1>6. CASE Environment
  <2>1. ASSUME NEW a \in Actors, Unreachable(a) \/ Crash(a)
        PROVE  faults' \in Nat /\ faults' >= faults
    BY <1>0, <2>1 DEF Unreachable, Raise, Crash, Fault
  <2>2. ASSUME NEW u \in Uploads, NEW d \in 1..MaxRedeliveries, Redeliver(u, d)
        PROVE  faults' \in Nat /\ faults' >= faults
    BY <1>0, <2>2 DEF Redeliver
  <2> QED
    BY <1>0, <1>1, <1>6, <2>1, <2>2 DEF Environment
<1>8. \/ CrashApi \/ ExpireJob \/ Read \/ UNCHANGED vars \/ Create \/ Environment
      \/ (\E u \in Uploads : Iterate(u)) \/ (\E e \in Executions : Execute(e))
  BY DEF Next, System
<1> QED
  BY <1>0, <1>1, <1>4, <1>5, <1>6, <1>7, <1>8

LEMMA LastMarkStep ==
    ASSUME TypeOK, Handed, LastMarkFinalizes, [Next]_vars
    PROVE LastMarkFinalizes'
<1>0. TypeOK' /\ job \in JobType
  BY TypeStep DEF TypeOK
<1> SUFFICES ASSUME faults' = 0, AllDone'
             PROVE  job'.status = "completed" \/ \E a \in Actors : Finalizing(a)'
  BY DEF LastMarkFinalizes, Finalizing
<1>1. faults = 0 /\ faults' = faults
  BY <1>0, FaultsGrow
<1>2. CASE UNCHANGED <<job, counted>>
  <2>1. AllDone
    BY <1>2 DEF AllDone
  <2>2. CASE job.status = "completed"
    BY <1>2, <2>2
  <2>3. ASSUME NEW a \in Actors, Finalizing(a)
        PROVE  job'.status = "completed" \/ Finalizing(a)'
    <3>1. CASE HsetStatus(a)
      BY <1>0, <3>1 DEF HsetStatus, JobType
    <3> QED
      BY <1>0, <1>1, <2>1, <2>3, <3>1, FinalizingStays
  <2> QED
    BY <1>1, <2>1, <2>2, <2>3 DEF LastMarkFinalizes, Finalizing
<1>3. CASE CreateHset
  <2>1. job'.total = Cardinality(Uploads) /\ job'.completed = 0 /\ job'.failed = 0
    BY <1>3 DEF CreateHset
  <2> QED
    BY <1>0, <2>1, FiniteBatch DEF AllDone
<1>4. ASSUME NEW a \in Actors, Hincrby(a)
      PROVE  Finalizing(a)'
  <2>1. Await(a, "hgetall") /\ "hgetall" \in Places
    BY <1>4 DEF Hincrby, Places
  <2>2. pc'[a] = "hgetall" \/ faults' = faults + 1
    BY <1>0, <2>1, AwaitStep
  <2> QED
    BY <1>1, <2>2 DEF Finalizing
<1>5. ASSUME NEW a \in Actors, HsetStatus(a)
      PROVE  job'.status = "completed"
  BY <1>0, <1>5 DEF HsetStatus, JobType
<1>6. CASE ExpireJob
  BY <1>6 DEF ExpireJob, NoJob, AllDone
<1> QED
  BY <1>0, <1>2, <1>3, <1>4, <1>5, <1>6, JobStep

\* Without faults a batch with all outcomes counted reads "completed", or some
\* actor is about to make it so, however often its messages are delivered.
THEOREM LastMarkAlwaysFinalizes == Spec => []LastMarkFinalizes
<1>1. Init => Handed /\ LastMarkFinalizes
  BY ActorFacts DEF Init, NoJob, AllDone, LastMarkFinalizes, Handed
<1>2. TypeOK /\ Handed /\ LastMarkFinalizes /\ [Next]_vars => Handed' /\ LastMarkFinalizes'
  BY HandedStep, LastMarkStep
<1> QED
  BY <1>1, <1>2, TypeCorrect, PTL DEF Spec
----------------------------------------------------------------------------
(***************************************************************************)
(* Entries of the tasks hash move forward.                                  *)
(***************************************************************************)
\* The marks at the places where an upload is handed from the request to its task.
MarksInTurn ==
    \A u \in Uploads :
        /\ pc[<<u, 1>>] # "none" => mk[<<u, 0>>] = "queued"
        /\ pc[<<u, 0>>] = "kiq" => mk[<<u, 0>>] = "queued"
        /\ pc[<<u, 1>>] \in {"none", "sent", "body"} => mk[<<u, 1>>] = "processing"

\* How far the entry of an upload can be, given what is still to be marked.
EntriesInOrder ==
    /\ \A u \in Uploads :
          /\ pc[<<u, 0>>] \in {"none", "insert"}
                \/ (pc[<<u, 0>>] = "hset_task" /\ mk[<<u, 0>>] = "queued")
             => tasks[u] = "absent"
          /\ pc[<<u, 1>>] \in {"none", "sent"}
                \/ (pc[<<u, 1>>] = "hset_task" /\ mk[<<u, 1>>] = "processing")
             => tasks[u] \in {"absent", "queued"}
          /\ mk[<<u, 1>>] = "processing" \/ pc[<<u, 1>>] = "hset_task"
             => tasks[u] \notin Terminal
    /\ \A f \in FileNames : tasks[f] \in {"absent", "failed"}

LEMMA MarksInTurnStep ==
    ASSUME TypeOK, AtMostOnce, Control, MarksInTurn, [Next]_vars
    PROVE MarksInTurn'
<1> SUFFICES ASSUME NEW u \in Uploads
             PROVE  /\ pc'[<<u, 1>>] # "none" => mk'[<<u, 0>>] = "queued"
                    /\ pc'[<<u, 0>>] = "kiq" => mk'[<<u, 0>>] = "queued"
                    /\ pc'[<<u, 1>>] \in {"none", "sent", "body"} => mk'[<<u, 1>>] = "processing"
  BY DEF MarksInTurn
<1> DEFINE a == <<u, 0>>
           b == <<u, 1>>
<1>1. /\ a \in Actors /\ a[1] = u /\ a[2] = 0
      /\ b \in Actors /\ b[1] = u /\ b[2] = 1
  BY ActorFacts
<1>2. Moves(a) /\ Moves(b)
  BY <1>1, StepMoves DEF Control
<1>3. /\ pc[b] # "none" => mk[a] = "queued" /\ pc[a] \in {"done", "dead"}
      /\ pc[a] = "kiq" => mk[a] = "queued"
      /\ pc[b] \in {"none", "sent", "body"} => mk[b] = "processing"
      /\ mk[a] \in {"queued", "failed"}
  BY <1>1 DEF MarksInTurn, Control, MarksOK, PublishedOnce
<1>4. pc[a] \in Places /\ pc[b] \in Places
  BY <1>1 DEF TypeOK
<1> HIDE DEF a, b
<1>5. pc'[a] = "kiq" => mk'[a] = "queued"
  BY <1>1, <1>2, <1>3 DEF Moves, Marking, HandlerPlace, HandlerMark, AfterMark
<1>6. pc'[b] \in {"none", "sent", "body"} => mk'[b] = "processing"
  BY <1>1, <1>2, <1>3, <1>4 DEF Moves, Marking, HandlerPlace, HandlerMark, AfterMark
<1>7. pc'[b] # "none" => mk'[a] = "queued"
  <2>1. CASE pc[b] # "none"
    BY <1>2, <1>3, <2>1, <1>1 DEF Moves, Marking
  <2>2. CASE pc[b] = "none" /\ pc'[b] # "none"
    <3>1. pc[a] = "kiq" /\ pc'[a] = "done"
      BY <1>1, <1>2, <2>2 DEF Moves, Marking, a, b
    <3> QED
      BY <1>1, <1>2, <1>3, <3>1 DEF Moves, Marking, HandlerPlace
  <2> QED
    BY <2>1, <2>2
<1> QED
  BY <1>5, <1>6, <1>7 DEF a, b

\* The one command that writes an entry, and where it leaves its actor.
LEMMA WriteStep ==
    ASSUME TypeOK, NEW a \in Actors, HsetTask(a)
    PROVE /\ pc[a] = "hset_task" /\ MarkKey(a) \in Keys
          /\ tasks' = [tasks EXCEPT ![MarkKey(a)] = mk[a]]
          /\ \A k \in Keys : tasks'[k] = IF k = MarkKey(a) THEN mk[a] ELSE tasks[k]
          /\ UNCHANGED <<errors, counted>>
          /\ \/ /\ mk'[a] = mk[a]
                /\ pc'[a] = CASE mk[a] = "failed" -> "hset_error"
                              [] mk[a] = "completed" -> "hincrby"
                              [] OTHER -> "hgetall"
             \/ pc'[a] = HandlerPlace(a) /\ mk'[a] = HandlerMark(a)
<1> DEFINE next == CASE mk[a] = "failed" -> "hset_error"
                     [] mk[a] = "completed" -> "hincrby"
                     [] OTHER -> "hgetall"
<1>1. next \in Places /\ Await(a, next) /\ pc[a] = "hset_task" /\ UNCHANGED <<errors, counted>>
  BY DEF HsetTask, Places
<1>2. \/ pc'[a] = next /\ mk'[a] = mk[a]
      \/ pc'[a] = HandlerPlace(a) /\ mk'[a] = HandlerMark(a)
  <2> HIDE DEF next
  <2> QED
    BY <1>1, AwaitStep
<1>3. tasks' = [tasks EXCEPT ![MarkKey(a)] = mk[a]] /\ MarkKey(a) \in Keys
  BY MarkKeyType DEF HsetTask
<1>4. tasks \in [Keys -> Statuses \cup {"absent"}]
  BY DEF TypeOK
<1> HIDE DEF next
<1>5. \A k \in Keys : tasks'[k] = IF k = MarkKey(a) THEN mk[a] ELSE tasks[k]
  BY <1>3, <1>4
<1> QED
  BY <1>1, <1>2, <1>3, <1>5 DEF next

LEMMA EntriesInOrderStep ==
    ASSUME TypeOK, AtMostOnce, Control, MarksInTurn, EntriesInOrder, [Next]_vars
    PROVE EntriesInOrder'
<1>1. ASSUME NEW u \in Uploads
      PROVE  /\ pc'[<<u, 0>>] \in {"none", "insert"}
                   \/ (pc'[<<u, 0>>] = "hset_task" /\ mk'[<<u, 0>>] = "queued")
                => tasks'[u] = "absent"
             /\ pc'[<<u, 1>>] \in {"none", "sent"}
                   \/ (pc'[<<u, 1>>] = "hset_task" /\ mk'[<<u, 1>>] = "processing")
                => tasks'[u] \in {"absent", "queued"}
             /\ mk'[<<u, 1>>] = "processing" \/ pc'[<<u, 1>>] = "hset_task"
                => tasks'[u] \notin Terminal
  <2> DEFINE a == <<u, 0>>
             b == <<u, 1>>
  <2>1. /\ a \in Actors /\ a[1] = u /\ a[2] = 0
        /\ b \in Actors /\ b[1] = u /\ b[2] = 1
    BY ActorFacts
  <2>2. Moves(a) /\ Moves(b)
    BY <2>1, StepMoves DEF Control
  <2>3. /\ pc[b] # "none" => mk[a] = "queued" /\ pc[a] \in {"done", "dead"}
        /\ pc[b] \in {"none", "sent", "body"} => mk[b] = "processing"
        /\ mk[a] \in {"queued", "failed"} /\ mk[b] \in {"processing", "completed", "failed"}
    BY <2>1 DEF MarksInTurn, Control, MarksOK, PublishedOnce
  <2>4. /\ pc[a] \in {"none", "insert"} \/ (pc[a] = "hset_task" /\ mk[a] = "queued")
              => tasks[u] = "absent"
        /\ pc[b] \in {"none", "sent"} \/ (pc[b] = "hset_task" /\ mk[b] = "processing")
              => tasks[u] \in {"absent", "queued"}
        /\ mk[b] = "processing" \/ pc[b] = "hset_task" => tasks[u] \notin Terminal
    BY DEF EntriesInOrder
  <2>5. pc[a] \in Places /\ pc[b] \in Places /\ u \in Keys
    BY <2>1 DEF TypeOK, Keys
  <2> HIDE DEF a, b
  <2>6. /\ pc'[a] \in {"none", "insert"} \/ (pc'[a] = "hset_task" /\ mk'[a] = "queued")
              => pc[a] \in {"none", "insert"} \/ (pc[a] = "hset_task" /\ mk[a] = "queued")
        /\ pc'[b] \in {"none", "sent"} \/ (pc'[b] = "hset_task" /\ mk'[b] = "processing")
              => pc[b] \in {"none", "sent"} \/ (pc[b] = "hset_task" /\ mk[b] = "processing")
        /\ mk'[b] = "processing" \/ pc'[b] = "hset_task"
              => mk[b] = "processing" \/ pc[b] = "hset_task"
    BY <2>1, <2>2, <2>3, <2>5 DEF Moves, Marking, HandlerPlace, HandlerMark, AfterMark,
         CaughtByLoop, Terminal
  <2>7. CASE tasks'[u] = tasks[u]
    BY <2>4, <2>6, <2>7 DEF a, b
  <2>8. ASSUME NEW c \in Actors, HsetTask(c), MarkKey(c) = u
        PROVE  \/ (c = a /\ mk[a] = "queued") \/ c = b
    BY <2>8, KeyFacts, <2>1 DEF a, b
  <2>9. CASE HsetTask(a) /\ mk[a] = "queued" /\ MarkKey(a) = u
    <3>1. pc[a] = "hset_task" /\ tasks'[u] = "queued" /\ pc[b] = "none"
      BY <2>1, <2>3, <2>5, <2>9, WriteStep
    <3>2. ~(pc'[a] \in {"none", "insert"} \/ (pc'[a] = "hset_task" /\ mk'[a] = "queued"))
      BY <2>1, <2>9, WriteStep DEF HandlerPlace, HandlerMark
    <3> QED
      BY <3>1, <3>2 DEF a, b, Terminal
  <2>10. CASE HsetTask(b) /\ MarkKey(b) = u
    <3>1. pc[b] = "hset_task" /\ tasks'[u] = mk[b] /\ pc[a] \in {"done", "dead"}
      BY <2>1, <2>3, <2>5, <2>10, WriteStep
    <3>2. pc'[b] \notin {"none", "sent", "hset_task"} /\ mk'[b] = mk[b]
      BY <2>1, <2>10, WriteStep DEF HandlerPlace, HandlerMark
    <3>3. ~(pc[a] \in {"none", "insert"} \/ (pc[a] = "hset_task" /\ mk[a] = "queued"))
      BY <3>1
    <3> QED
      BY <2>6, <3>1, <3>2, <3>3 DEF a, b, Terminal
  <2>11. ASSUME NEW c \in Actors, HsetTask(c), MarkKey(c) # u PROVE tasks'[u] = tasks[u]
    BY <2>5, <2>11, WriteStep
  <2> QED
    BY <2>7, <2>8, <2>9, <2>10, <2>11, EntryStep
<1>2. ASSUME NEW f \in FileNames PROVE tasks'[f] \in {"absent", "failed"}
  <2>1. tasks[f] \in {"absent", "failed"} /\ f \in Keys
    BY DEF EntriesInOrder, Keys
  <2>2. ASSUME NEW c \in Actors, HsetTask(c), MarkKey(c) = f PROVE mk[c] = "failed"
    BY <2>2, KeyFacts, BatchAssumption
  <2> QED
    BY <2>1, <2>2, WriteStep, EntryStep
<1> QED
  BY <1>1, <1>2 DEF EntriesInOrder

LEMMA ForwardStep ==
    ASSUME TypeOK, AtMostOnce, Control, MarksInTurn, EntriesInOrder, [Next]_vars,
           NEW k \in Keys
    PROVE Stage(tasks[k]) < Stage(tasks'[k]) \/ tasks[k] = tasks'[k]
<1>1. SUFFICES ASSUME NEW c \in Actors, HsetTask(c), MarkKey(c) = k
               PROVE  Stage(tasks[k]) < Stage(tasks'[k]) \/ tasks[k] = tasks'[k]
  BY EntryStep, WriteStep
<1>2. tasks'[k] = mk[c] /\ pc[c] = "hset_task"
  BY <1>1, WriteStep
<1>3. tasks[k] \in Statuses \cup {"absent"} /\ mk[c] \in Statuses
  BY DEF TypeOK
<1>4. CASE c = <<c[1], 0>> /\ mk[c] = "failed"
  <2>1. k \in FileNames
    BY <1>1, <1>4, KeyFacts
  <2> QED
    BY <1>2, <1>4, <2>1 DEF EntriesInOrder, Stage
<1>5. CASE c = <<c[1], 0>> /\ mk[c] # "failed"
  <2>1. k = c[1] /\ mk[c] = "queued" /\ k \in Uploads
    BY <1>1, <1>5, KeyFacts
  <2>2. tasks[k] = "absent"
    BY <1>2, <1>5, <2>1 DEF EntriesInOrder
  <2> QED
    BY <1>2, <2>1, <2>2 DEF Stage
<1>6. CASE c = <<c[1], 1>>
  <2>1. k = c[1] /\ k \in Uploads
    BY <1>1, <1>6, KeyFacts
  <2>2. mk[c] \in {"processing", "completed", "failed"}
    BY <1>6 DEF Control, MarksOK
  <2>3. mk[c] = "processing" => tasks[k] \in {"absent", "queued"}
    BY <1>2, <1>6, <2>1 DEF EntriesInOrder
  <2>4. tasks[k] \notin Terminal
    BY <1>2, <1>6, <2>1 DEF EntriesInOrder
  <2> QED
    BY <1>2, <1>3, <2>2, <2>3, <2>4 DEF Stage, Terminal, Statuses
<1> QED
  BY <1>4, <1>5, <1>6, KeyFacts

InOrder == IInv /\ MarksInTurn /\ EntriesInOrder

LEMMA InOrderInductive == AtMostOnce /\ Spec => []InOrder
<1> SUFFICES ASSUME AtMostOnce PROVE Spec => []InOrder
  OBVIOUS
<1>1. Init => MarksInTurn /\ EntriesInOrder
  BY ActorFacts DEF Init, MarksInTurn, EntriesInOrder, Keys, Terminal
<1>2. InOrder /\ [Next]_vars => InOrder'
  BY IInvStep, MarksInTurnStep, EntriesInOrderStep DEF InOrder, IInv
<1> QED
  BY <1>1, <1>2, IInvInit, PTL DEF Spec, InOrder

\* An entry of the tasks hash only moves forward and an outcome is final, whatever
\* raises and whatever stops, for any batch.
THEOREM EntriesNeverGoBack == AtMostOnce /\ Spec => EntriesMoveForward
<1> SUFFICES ASSUME AtMostOnce PROVE Spec => EntriesMoveForward
  OBVIOUS
<1> DEFINE Forward == \A k \in Keys : \/ Stage(tasks[k]) < Stage(tasks'[k])
                                      \/ tasks[k] = tasks'[k]
<1>1. InOrder /\ [Next]_vars => [Forward]_vars
  BY ForwardStep DEF InOrder, IInv
<1>2. Spec => []InOrder
  BY InOrderInductive
<1> HIDE DEF Forward
<1>3. Spec => [][Forward]_vars
  BY <1>1, <1>2, PTL DEF Spec
<1> QED
  BY <1>3 DEF EntriesMoveForward, Forward
----------------------------------------------------------------------------
(***************************************************************************)
(* An answer lists an error for every failure.                              *)
(***************************************************************************)
\* A failure is written to the errors hash before it is counted; one that is not
\* there yet belongs to an upload that is not counted.
ErrorsListed ==
    /\ \A a \in Actors : pc[a] = "hincrby" /\ mk[a] = "failed" => MarkKey(a) \in errors
    /\ \A k \in Keys \ errors : tasks[k] = "failed" =>
          \E a \in Actors :
              MarkKey(a) = k /\ mk[a] = "failed" /\ a[1] \notin counted /\ pc[a] # "hincrby"

\* What a reader of a completed batch has read so far.
ReadInOrder ==
    reader.status = "completed" /\ reader.at # "idle" =>
        /\ counted = Uploads
        /\ reader.at # "tasks" =>
              /\ \A u \in Uploads : Settled(reader.tasks, u)
              /\ \A k \in Keys : reader.tasks[k] = "failed" => k \in errors
        /\ reader.at = "answered" =>
              \A k \in Keys : reader.tasks[k] = "failed" => k \in reader.errors

\* The command between recording an error and counting the failure.
LEMMA ErrorFirst ==
    ASSUME TypeOK, [Next]_vars, NEW a \in Actors, pc[a] = "hset_error", pc'[a] = "hincrby"
    PROVE HsetError(a)
<1>0. pc \in [Actors -> Places] /\ mk \in [Actors -> Statuses]
  BY DEF TypeOK
<1>1. CASE CreateHset \/ CreateExpireAny \/ CrashApi \/ ExpireJob \/ Read \/ UNCHANGED vars
  BY <1>1 DEF CreateHset, CreateExpireAny, CreateExpire, AwaitInCreate, CrashApi,
       ExpireJob, Read, Poll, PollTasks, PollErrors, PollAgain, control, vars
<1>2. ASSUME NEW b \in Actors, NEW next \in Places, Await(b, next) PROVE b = a
  BY <1>2, AwaitStep
<1>3. ASSUME NEW b \in Actors, HsetTask(b) PROVE FALSE
  <2> DEFINE next == CASE mk[b] = "failed" -> "hset_error"
                       [] mk[b] = "completed" -> "hincrby"
                       [] OTHER -> "hgetall"
  <2>1. next \in Places /\ Await(b, next) /\ pc[b] = "hset_task"
    BY <1>3 DEF HsetTask, Places
  <2> HIDE DEF next
  <2> QED
    BY <1>2, <2>1
<1>4. ASSUME NEW b \in Actors, HsetError(b) PROVE b = a
  <2>1. "hincrby" \in Places /\ Await(b, "hincrby")
    BY <1>4 DEF HsetError, Places
  <2> QED
    BY <1>2, <2>1
<1>5. ASSUME NEW b \in Actors, Hincrby(b) \/ Hgetall(b) \/ HsetStatus(b) PROVE FALSE
  <2>1. PICK next \in {"hgetall", "finalize", AfterMark(b)} : Await(b, next)
    BY <1>5 DEF Hincrby, Hgetall, HsetStatus
  <2>2. next \in Places /\ pc[b] # "hset_error"
    BY <1>5, MarkKeyType DEF Places, Hincrby, Hgetall, HsetStatus
  <2> QED
    BY <1>2, <2>1, <2>2
<1>6. ASSUME NEW b \in Actors, Unreachable(b) \/ Crash(b) PROVE FALSE
  <2>1. CASE Unreachable(b)
    BY <2>1, RaiseStep DEF Unreachable, HandlerPlace
  <2>2. CASE Crash(b)
    BY <1>0, <2>2 DEF Crash
  <2> QED
    BY <1>6, <2>1, <2>2
<1>7. ASSUME NEW u \in Uploads, NextUpload(u) \/ Kiq(u) \/ KiqUnacknowledged(u) PROVE FALSE
  BY <1>0, <1>7, ActorFacts DEF NextUpload, Kiq, KiqUnacknowledged, HandlerPlace, HandlerMark
<1>8. ASSUME NEW u \in Uploads, Insert(u) PROVE FALSE
  <2>1. <<u, 0>> \in Actors /\ "hset_task" \in Places
    BY ActorFacts DEF Places
  <2> QED
    BY <1>2, <1>8, <2>1 DEF Insert
<1>9. ASSUME NEW e \in Executions, Receive(e) \/ Body(e) \/ Persist(e) PROVE FALSE
  BY <1>0, <1>9, ActorFacts DEF Receive, Body, Persist
<1>10. ASSUME NEW u \in Uploads, NEW d \in 1..MaxRedeliveries, Redeliver(u, d) PROVE FALSE
  BY <1>0, <1>10 DEF Redeliver
<1> QED
  BY <1>1, <1>3, <1>4, <1>5, <1>6, <1>7, <1>8, <1>9, <1>10, StepCases

LEMMA ErrorsGrow ==
    ASSUME TypeOK, [Next]_vars
    PROVE /\ errors' = errors \/ \E a \in Actors : HsetError(a)
          /\ errors \subseteq errors'
<1>1. CASE CreateHset \/ CreateExpireAny \/ CrashApi \/ ExpireJob \/ Read \/ UNCHANGED vars
  BY <1>1 DEF CreateHset, CreateExpireAny, CreateExpire, AwaitInCreate, CrashApi,
       ExpireJob, Read, Poll, PollTasks, PollErrors, PollAgain, hashes, vars
<1>2. ASSUME NEW a \in Actors,
             HsetTask(a) \/ HsetError(a) \/ Hincrby(a) \/ Hgetall(a)
             \/ HsetStatus(a) \/ Unreachable(a) \/ Crash(a)
      PROVE  (errors' = errors \/ HsetError(a)) /\ errors \subseteq errors'
  BY <1>2 DEF HsetTask, HsetError, Hincrby, Hgetall, HsetStatus, Unreachable, Crash, hashes
<1>3. ASSUME NEW u \in Uploads,
             NextUpload(u) \/ Insert(u) \/ Kiq(u) \/ KiqUnacknowledged(u)
      PROVE  errors' = errors
  BY <1>3 DEF NextUpload, Insert, Kiq, KiqUnacknowledged, hashes
<1>4. ASSUME NEW e \in Executions, Receive(e) \/ Body(e) \/ Persist(e)
      PROVE  errors' = errors
  BY <1>4 DEF Receive, Body, Persist, hashes
<1>5. ASSUME NEW u \in Uploads, NEW d \in 1..MaxRedeliveries, Redeliver(u, d)
      PROVE  errors' = errors
  BY <1>5 DEF Redeliver, hashes
<1> QED
  BY <1>1, <1>2, <1>3, <1>4, <1>5, StepCases

LEMMA ErrorsListedStep ==
    ASSUME IInv, AtMostOnce, MarksInTurn, ErrorsListed, [Next]_vars
    PROVE ErrorsListed'
<1>0. TypeOK /\ Control /\ CountedOnce
  BY DEF IInv
<1>1. ASSUME NEW a \in Actors PROVE Moves(a)
  BY <1>0, StepMoves DEF Control
<1>2. ASSUME NEW a \in Actors, pc'[a] = "hincrby", mk'[a] = "failed"
      PROVE  MarkKey(a)' \in errors'
  <2>1. mk[a] = "failed" /\ pc[a] \in {"hincrby", "hset_error"}
    BY <1>1, <1>2 DEF Moves, Marking, HandlerPlace, HandlerMark, AfterMark
  <2>2. MarkKey(a)' = MarkKey(a)
    BY <1>2, <2>1 DEF MarkKey
  <2>3. CASE pc[a] = "hincrby"
    BY <1>0, <2>1, <2>2, <2>3, ErrorsGrow DEF ErrorsListed
  <2>4. CASE pc[a] = "hset_error"
    <3>1. HsetError(a)
      BY <1>0, <1>2, <2>4, ErrorFirst
    <3> QED
      BY <2>2, <3>1 DEF HsetError
  <2> QED
    BY <2>1, <2>3, <2>4
<1>3. ASSUME NEW k \in Keys \ errors', tasks'[k] = "failed"
      PROVE  \E a \in Actors :
                MarkKey(a)' = k /\ mk'[a] = "failed" /\ a[1] \notin counted' /\ pc'[a] # "hincrby"
  <2>1. k \in Keys \ errors
    BY <1>0, ErrorsGrow
  <2>2. CASE tasks[k] = "failed"
    <3>1. PICK a \in Actors :
              MarkKey(a) = k /\ mk[a] = "failed" /\ a[1] \notin counted /\ pc[a] # "hincrby"
      BY <2>1, <2>2 DEF ErrorsListed
    <3>2. a = <<a[1], 0>> \/ a = <<a[1], 1>>
      BY <1>0, KeyFacts
    <3>3. a[1] \in Uploads /\ <<a[1], 0>>[2] = 0 /\ <<a[1], 1>>[2] = 1
      BY ActorFacts
    <3>4. mk'[a] = "failed"
      <4>1. pc[a] = "body" /\ a[2] > 0 => mk[a] = "processing"
        <5>1. CASE a = <<a[1], 0>>
          <6>1. a[2] = 0
            BY <5>1
          <6> QED
            BY <6>1
        <5>2. CASE a = <<a[1], 1>>
          <6>1. pc[<<a[1], 1>>] = "body" => mk[<<a[1], 1>>] = "processing"
            BY <3>3 DEF MarksInTurn
          <6> QED
            BY <5>2, <6>1
        <5> QED
          BY <3>2, <5>1, <5>2
      <4>2. mk'[a] = mk[a] \/ (a[2] > 0 /\ pc[a] = "body") \/ mk'[a] = HandlerMark(a)
        BY <1>1 DEF Moves
      <4>3. HandlerMark(a) = "failed"
        BY <3>1 DEF HandlerMark
      <4> QED
        BY <3>1, <4>1, <4>2, <4>3
    <3>5. MarkKey(a)' = k
      BY <3>1, <3>4 DEF MarkKey
    <3>6. a[1] \notin counted'
      <4>1. ASSUME NEW b \in Actors, Hincrby(b), b[1] = a[1] PROVE FALSE
        <5>1. pc[b] = "hincrby" /\ b # a
          BY <3>1, <4>1 DEF Hincrby
        <5>2. b = <<a[1], 0>> \/ b = <<a[1], 1>>
          BY <1>0, <4>1, KeyFacts
        <5>3. CASE a = <<a[1], 0>> /\ b = <<a[1], 1>>
          BY <3>1, <3>3, <5>1, <5>3 DEF MarksInTurn
        <5>4. CASE a = <<a[1], 1>> /\ b = <<a[1], 0>>
          <6>1. pc[a] = "none"
            BY <1>0, <3>3, <5>1, <5>4 DEF Control, PublishedOnce
          <6> QED
            BY <3>1, <3>3, <5>4, <6>1 DEF MarksInTurn
        <5> QED
          BY <3>2, <5>1, <5>2, <5>3, <5>4
      <4> QED
        BY <1>0, <3>1, <4>1, CountStep
    <3>7. pc'[a] # "hincrby"
      BY <1>2, <1>3, <3>4, <3>5
    <3> QED
      BY <3>4, <3>5, <3>6, <3>7
  <2>3. CASE tasks[k] # "failed"
    <3>1. PICK b \in Actors : HsetTask(b) /\ MarkKey(b) = k
      BY <1>0, <1>3, <2>1, <2>3, EntryStep, WriteStep
    <3>2. pc[b] = "hset_task" /\ mk[b] = "failed" /\ counted' = counted
      BY <1>0, <1>3, <2>1, <3>1, WriteStep
    <3>3. mk'[b] = "failed" /\ pc'[b] # "hincrby"
      BY <1>0, <3>1, <3>2, WriteStep DEF HandlerPlace, HandlerMark
    <3>4. b[1] \notin counted
      <4>1. b = <<b[1], 0>> \/ b = <<b[1], 1>>
        BY <1>0, KeyFacts
      <4>2. ~Past(b) /\ pc[b] # "none"
        BY <3>2 DEF Past
      <4> QED
        BY <1>0, <4>1, <4>2 DEF CountedOnce
    <3>5. MarkKey(b)' = k
      BY <3>1, <3>2, <3>3 DEF MarkKey
    <3> QED
      BY <3>2, <3>3, <3>4, <3>5
  <2> QED
    BY <2>2, <2>3
<1> QED
  BY <1>2, <1>3 DEF ErrorsListed

LEMMA ReaderStep ==
    ASSUME [Next]_vars
    PROVE reader' = reader \/ (Read /\ UNCHANGED hashes)
<1>1. CASE CreateHset \/ CreateExpireAny \/ CrashApi \/ ExpireJob \/ UNCHANGED vars
  BY <1>1 DEF CreateHset, CreateExpireAny, CreateExpire, AwaitInCreate, CrashApi, ExpireJob, vars
<1>2. ASSUME NEW a \in Actors,
             HsetTask(a) \/ HsetError(a) \/ Hincrby(a) \/ Hgetall(a)
             \/ HsetStatus(a) \/ Unreachable(a) \/ Crash(a)
      PROVE  reader' = reader
  BY <1>2 DEF HsetTask, HsetError, Hincrby, Hgetall, HsetStatus, Await, Unreachable, Crash
<1>3. ASSUME NEW u \in Uploads,
             NextUpload(u) \/ Insert(u) \/ Kiq(u) \/ KiqUnacknowledged(u)
      PROVE  reader' = reader
  BY <1>3 DEF NextUpload, Insert, Await, Kiq, KiqUnacknowledged
<1>4. ASSUME NEW e \in Executions, Receive(e) \/ Body(e) \/ Persist(e)
      PROVE  reader' = reader
  BY <1>4 DEF Receive, Body, Persist
<1>5. ASSUME NEW u \in Uploads, NEW d \in 1..MaxRedeliveries, Redeliver(u, d)
      PROVE  reader' = reader
  BY <1>5 DEF Redeliver
<1>6. CASE Read
  BY <1>6 DEF Read, Poll, PollTasks, PollErrors, PollAgain
<1> QED
  BY <1>1, <1>2, <1>3, <1>4, <1>5, <1>6, StepCases

LEMMA ReadInOrderStep ==
    ASSUME IInv, AtMostOnce, ErrorsListed, ReadInOrder, [Next]_vars
    PROVE ReadInOrder'
<1>0. TypeOK /\ reader \in ReaderType
  BY DEF IInv, TypeOK
<1>1. CASE reader' = reader
  <2>1. counted' \in SUBSET Uploads
    BY TypeStep DEF IInv, TypeOK
  <2>2. counted \subseteq counted' /\ errors \subseteq errors'
    BY <1>0, CountStep, ErrorsGrow
  <2> QED
    BY <1>1, <2>1, <2>2 DEF ReadInOrder
<1>2. ASSUME NEW user \in Users, Poll(user) PROVE ReadInOrder'
  <2>1. /\ reader' = [reader EXCEPT !.at = "tasks", !.user = user, !.status = job.status]
        /\ UNCHANGED hashes
    BY <1>2 DEF Poll
  <2>2. reader'.at = "tasks" /\ reader'.status = job.status
    BY <1>0, <2>1 DEF ReaderType
  <2> QED
    BY <2>1, <2>2 DEF ReadInOrder, hashes, IInv, Counters
<1>3. CASE PollTasks
  <2>1. /\ reader.at = "tasks" /\ reader'.at = "errors" /\ reader'.tasks = tasks
        /\ reader'.status = reader.status /\ UNCHANGED hashes
    BY <1>0, <1>3 DEF PollTasks, ReaderType
  <2>2. ASSUME counted = Uploads, NEW k \in Keys, tasks[k] = "failed" PROVE k \in errors
    BY <2>2, ActorFacts DEF ErrorsListed
  <2>3. ASSUME counted = Uploads, NEW u \in Uploads PROVE Settled(tasks, u)
    BY <2>3 DEF IInv, OnRecord
  <2> QED
    BY <2>1, <2>2, <2>3 DEF ReadInOrder, hashes
<1>4. CASE PollErrors
  <2>1. /\ reader.at = "errors" /\ reader'.at = "answered" /\ reader'.errors = errors
        /\ reader'.tasks = reader.tasks /\ reader'.status = reader.status /\ UNCHANGED hashes
    BY <1>0, <1>4 DEF PollErrors, ReaderType
  <2> QED
    BY <2>1 DEF ReadInOrder, hashes
<1>5. CASE PollAgain
  BY <1>5 DEF PollAgain, IdleReader, ReadInOrder
<1> QED
  BY <1>1, <1>2, <1>3, <1>4, <1>5, ReaderStep DEF Read

\* An answer that says "completed" lists an outcome for every upload and an error
\* for every failure, however the reads and the tasks interleave, for any batch.
THEOREM SnapshotsAreComplete == AtMostOnce /\ Spec => []CompleteSnapshot
<1> SUFFICES ASSUME AtMostOnce PROVE Spec => []CompleteSnapshot
  OBVIOUS
<1> DEFINE Listed == ErrorsListed /\ ReadInOrder
<1>1. Init => Listed
  BY ActorFacts DEF Init, ErrorsListed, ReadInOrder, IdleReader
<1>2. InOrder /\ Listed /\ [Next]_vars => Listed'
  BY ErrorsListedStep, ReadInOrderStep DEF InOrder
<1>3. Listed => CompleteSnapshot
  BY DEF ReadInOrder, CompleteSnapshot
<1>4. Spec => []InOrder
  BY InOrderInductive
<1> QED
  BY <1>1, <1>2, <1>3, <1>4, PTL DEF Spec
=============================================================================
