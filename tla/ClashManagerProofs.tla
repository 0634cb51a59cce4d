------------------------ MODULE ClashManagerProofs ------------------------
(***************************************************************************)
(* Proofs about ClashManager for every set of ports, URLs and sections and *)
(* every bound on the queue.  IInv, the conjunction of TypeOK and the five *)
(* parts named beside it in ClashManager, is shown inductive part by part. *)
(***************************************************************************)
EXTENDS ClashManager, TLAPS

USE DEF world, channels, sockets, timers, store, running

-----------------------------------------------------------------------------
(* The queue.                                                              *)

LEMMA Enqueued ==
  ASSUME QueueOK, NEW op \in Operations, queue' = Append(queue, op)
  PROVE  /\ QueueOK'
         /\ Len(queue) \in Nat /\ Len(queue') = Len(queue) + 1
         /\ DOMAIN queue = 1 .. Len(queue) /\ DOMAIN queue' = 1 .. Len(queue')
         /\ \A i \in DOMAIN queue : queue'[i] = queue[i]
         /\ queue'[Len(queue')] = op
         /\ \A i \in DOMAIN queue' :
               \/ i \in DOMAIN queue /\ queue'[i] = queue[i]
               \/ queue'[i] = op /\ (i = 1 => 1 \notin DOMAIN queue)
         /\ DOMAIN queue \subseteq DOMAIN queue'
         /\ Len(queue') # 0 /\ Len(queue') \in DOMAIN queue'
<1>1. /\ QueueOK'
      /\ Len(queue) \in Nat /\ Len(queue') = Len(queue) + 1
      /\ DOMAIN queue = 1 .. Len(queue) /\ DOMAIN queue' = 1 .. Len(queue')
      /\ \A i \in DOMAIN queue : queue'[i] = queue[i]
      /\ queue'[Len(queue')] = op
  BY DEF QueueOK
<1> QED
  BY <1>1

LEMMA Dequeued ==
  ASSUME QueueOK, 1 \in DOMAIN queue, queue' = Tail(queue)
  PROVE  /\ QueueOK'
         /\ Len(queue') \in Nat /\ Len(queue') = Len(queue) - 1
         /\ DOMAIN queue = 1 .. Len(queue) /\ DOMAIN queue' = 1 .. Len(queue')
         /\ \A i \in DOMAIN queue' : queue'[i] = queue[i + 1]
  BY DEF QueueOK

\* The operation that begins is the first of the queue.
LEMMA First ==
  ASSUME QueueOK, NEW ops, Running(ops)
  PROVE  1 \in DOMAIN queue /\ queue[1] \in ops /\ pc = "idle"
  BY DEF QueueOK, Running

\* Every request appends one operation that is not an inner stop.
LEMMA RequestEnqueues ==
  ASSUME Queues
  PROVE  \E op \in {"stop", "restart", "update"} : Enqueue(op)
  BY DEF Queues, ApiRestart, ApiUpdate, TimerUpdate, Dispose, SetRuntimeEnabled,
     Reconcile

\* Only four kinds of step touch the queue.
LEMMA QueueSteps ==
  ASSUME [Next]_vars
  PROVE  \/ Queues \/ RestartToStop \/ FinishOp
         \/ UNCHANGED queue
  BY DEF Next, Op, Load, Core, vars, StartRefused, UpdateRefused, EndStop, BeginStop,
     Start, Restart, Update, UpdateToCore, KeepSubscription, LoadFromUrl,
     LoadFromUrlFails, LoadFromCache, NoCachedCopy, CachedCopyUnparsable,
     RestoreEnvironment, NoSubscription, CreateServer, ListenAndInject,
     ListenFails, CatchRestores, Wire, WireFails, Environment, PostRuntime, BodyFails

-----------------------------------------------------------------------------
(* Type correctness.                                                       *)

LEMMA InitTypeOK == Init => TypeOK
<1>1. Init => FlagsOK
  BY DEF Init, FlagsOK
<1>2. Init => ValuesOK
  BY DEF Init, ValuesOK, States, Awaits
<1>3. Init => QueueOK
  BY DEF Init, QueueOK, Operations
<1>4. Init => BodiesOK
  BY BoundAssumption DEF Init, BodiesOK
<1> QED
  BY <1>1, <1>2, <1>3, <1>4 DEF TypeOK

\* Only a request that waits for its body, and the body, move the count.
LEMMA NextBodiesOK ==
  ASSUME BodiesOK, [Next]_vars
  PROVE  BodiesOK'
<1> USE BoundAssumption DEF BodiesOK
<1>1. CASE \/ PostRuntime \/ BodyFails \/ \E on \in BOOLEAN : SetRuntimeEnabled(on)
  BY <1>1 DEF PostRuntime, BodyFails, SetRuntimeEnabled
<1>2. CASE ~(\/ PostRuntime \/ BodyFails \/ \E on \in BOOLEAN : SetRuntimeEnabled(on))
  <2>1. UNCHANGED bodies
    BY <1>2 DEF Next, Op, Load, Core, vars, StartRefused, UpdateRefused, EndStop, BeginStop,
       Start, Restart, RestartToStop, FinishOp, Update, UpdateToCore, KeepSubscription,
       LoadFromUrl, LoadFromUrlFails, LoadFromCache, NoCachedCopy, CachedCopyUnparsable,
       RestoreEnvironment, NoSubscription, CreateServer, ListenAndInject, ListenFails,
       CatchRestores, Wire, WireFails, Environment, Queues, ApiRestart, ApiUpdate,
       TimerUpdate, Dispose, Reconcile
  <2> QED
    BY <2>1
<1> QED
  BY <1>1, <1>2

LEMMA NextQueueOK ==
  ASSUME QueueOK, QueueShape, [Next]_vars
  PROVE  QueueOK'
<1>1. CASE Queues
  <2>1. PICK op \in {"stop", "restart", "update"} : Enqueue(op)
    BY <1>1, RequestEnqueues
  <2>2. op \in Operations
    BY DEF Operations
  <2> QED
    BY <2>1, <2>2, Enqueued DEF Enqueue
<1>2. CASE RestartToStop
  <2>1. "inner stop" \in Operations
    BY DEF Operations
  <2> QED
    BY <1>2, <2>1, Enqueued DEF RestartToStop
<1>3. CASE FinishOp
  BY <1>3, Dequeued DEF FinishOp, QueueShape
<1>4. CASE UNCHANGED queue
  BY <1>4 DEF QueueOK
<1> QED
  BY <1>1, <1>2, <1>3, <1>4, QueueSteps

LEMMA NextFlagsOK ==
  ASSUME FlagsOK, ValuesOK, QueueShape, [Next]_vars
  PROVE  FlagsOK'
<1> USE ConfigsAssumption DEF FlagsOK
<1>1. CASE Environment
  BY <1>1 DEF Environment, Queues, ApiRestart, ApiUpdate, TimerUpdate, Dispose,
     PostRuntime, BodyFails, SetRuntimeEnabled, Reconcile, Enqueue
<1>2. CASE Wire \/ WireFails
  <2>1. section.auto \in BOOLEAN /\ section.urlTest \in BOOLEAN
    BY <1>2 DEF Wire, WireFails, QueueShape, Section
  <2> QED
    BY <1>2, <2>1 DEF Wire, WireFails
<1>3. CASE BeginStop \/ Start \/ Restart \/ Update \/ UpdateToCore \/ FinishOp
  BY <1>3 DEF BeginStop, Start, Restart, Update, UpdateToCore, FinishOp, BeginCore
<1>4. CASE Load
  BY <1>4 DEF Load, KeepSubscription, LoadFromUrl, LoadFromUrlFails, LoadFromCache,
     NoCachedCopy, CachedCopyUnparsable
<1>5. CASE \/ StartRefused \/ UpdateRefused \/ RestartToStop \/ EndStop
           \/ RestoreEnvironment \/ NoSubscription \/ CreateServer \/ ListenAndInject
           \/ ListenFails \/ CatchRestores \/ UNCHANGED vars
  BY <1>5 DEF StartRefused, UpdateRefused, RestartToStop, EndStop,
     RestoreEnvironment, NoSubscription, CreateServer, ListenAndInject,
     ListenFails, CatchRestores, vars
<1> QED
  BY <1>1, <1>2, <1>3, <1>4, <1>5 DEF Next, Op, Core

LEMMA NextValuesOK ==
  ASSUME ValuesOK, QueueShape, AtAwaits, [Next]_vars
  PROVE  ValuesOK'
<1> USE DEF ValuesOK, States, Awaits
<1>1. CASE Environment
  BY <1>1 DEF Environment, Queues, ApiRestart, ApiUpdate, TimerUpdate, Dispose,
     PostRuntime, BodyFails, SetRuntimeEnabled, Reconcile, Enqueue
<1>2. CASE \/ StartRefused \/ UpdateRefused \/ RestartToStop \/ FinishOp \/ EndStop \/ BeginStop
  BY <1>2 DEF StartRefused, UpdateRefused, RestartToStop, FinishOp, EndStop, BeginStop,
     UndoDispatcher, UndoEnv, CloseServer
<1>3. CASE Start \/ Restart \/ Update \/ UpdateToCore
  BY <1>3 DEF Start, Restart, Update, UpdateToCore, BeginCore, QueueShape, UndoDispatcher
<1>4. CASE Load
  <2>1. section.url \in Urls \cup {None}
    BY <1>4, ConfigsAssumption DEF Load, KeepSubscription, LoadFromUrl, LoadFromUrlFails,
       LoadFromCache, NoCachedCopy, CachedCopyUnparsable, MustLoad, QueueShape, Section
  <2>2. CASE LoadFromUrlFails \/ CachedCopyUnparsable
    BY <2>1, <2>2 DEF LoadFromUrlFails, CachedCopyUnparsable, LoadThrows, Catch,
       UndoDispatcher, CloseServer
  <2>3. CASE KeepSubscription \/ LoadFromUrl \/ LoadFromCache \/ NoCachedCopy
    BY <2>1, <2>3 DEF KeepSubscription, LoadFromUrl, LoadFromCache, NoCachedCopy
  <2> QED
    BY <1>4, <2>2, <2>3 DEF Load
<1>5. CASE \/ RestoreEnvironment \/ NoSubscription \/ CreateServer \/ ListenAndInject
           \/ ListenFails \/ CatchRestores
  BY <1>5 DEF RestoreEnvironment, NoSubscription, CreateServer, ListenAndInject,
     ListenFails, CatchRestores, Catch, UndoDispatcher, UndoEnv, CloseServer
<1>6. CASE Wire \/ WireFails
  BY <1>6, DistinctAssumption DEF Wire, WireFails, Catch, AtAwaits, UndoDispatcher, CloseServer
<1>7. CASE UNCHANGED vars
  BY <1>7 DEF vars
<1> QED
  BY <1>1, <1>2, <1>3, <1>4, <1>5, <1>6, <1>7 DEF Next, Op, Core

-----------------------------------------------------------------------------
(* What is injected, and where, at each await.                             *)

LEMMA InitAttached == Init => SnapshotsAreOriginal /\ AtAwaits
  BY DEF Init, SnapshotsAreOriginal, AtAwaits, Settled, Attached, Clean, NothingInjected

LEMMA NextSnapshots ==
  ASSUME ValuesOK, SnapshotsAreOriginal, AtAwaits, [Next]_vars
  PROVE  SnapshotsAreOriginal'
<1> USE DistinctAssumption DEF SnapshotsAreOriginal
<1>1. CASE Environment
  BY <1>1 DEF Environment, Queues, ApiRestart, ApiUpdate, TimerUpdate, Dispose,
     PostRuntime, BodyFails, SetRuntimeEnabled, Reconcile, Enqueue
<1>2. CASE \/ StartRefused \/ UpdateRefused \/ RestartToStop \/ FinishOp \/ Update
           \/ NoSubscription \/ CreateServer \/ UNCHANGED vars
  BY <1>2 DEF StartRefused, UpdateRefused, RestartToStop, FinishOp, Update,
     NoSubscription, CreateServer, vars
<1>3. CASE Start \/ Restart \/ UpdateToCore \/ BeginStop
  BY <1>3 DEF Start, Restart, UpdateToCore, BeginStop, BeginCore, UndoDispatcher
<1>4. CASE EndStop \/ RestoreEnvironment \/ CatchRestores
  BY <1>4 DEF EndStop, RestoreEnvironment, CatchRestores, UndoEnv
<1>5. CASE Load
  BY <1>5 DEF Load, KeepSubscription, LoadFromUrl, LoadFromUrlFails, LoadFromCache,
     NoCachedCopy, CachedCopyUnparsable, LoadThrows, Catch, UndoDispatcher
<1>6. CASE ListenAndInject
  <2>1. env = Ambient /\ undoEnv' = Ambient /\ env' \in Ports
    BY <1>6 DEF ListenAndInject, AtAwaits, NothingInjected
  <2> QED
    BY <1>6, <2>1 DEF ListenAndInject
<1>7. CASE Wire
  <2>1. fetch = Native /\ env \in Ports
    BY <1>7 DEF Wire, AtAwaits, ValuesOK
  <2> QED
    BY <1>7, <2>1 DEF Wire
<1>8. CASE ListenFails \/ WireFails
  BY <1>8 DEF ListenFails, WireFails, Catch, UndoDispatcher
<1> QED
  BY <1>1, <1>2, <1>3, <1>4, <1>5, <1>6, <1>7, <1>8 DEF Next, Op, Core

LEMMA NextAtAwaits ==
  ASSUME TypeOK, SnapshotsAreOriginal, AtAwaits, QueueShape, [Next]_vars
  PROVE  AtAwaits'
<1> USE DistinctAssumption DEF AtAwaits, Settled, Attached, Clean, NothingInjected
<1>1. CASE Environment
  BY <1>1 DEF Environment, Queues, ApiRestart, ApiUpdate, TimerUpdate, Dispose,
     PostRuntime, BodyFails, SetRuntimeEnabled, Reconcile, Enqueue
<1>2. CASE StartRefused
  <2>1. pc = "idle" /\ 1 \in DOMAIN queue /\ queue[1] = "start"
    BY <1>2, First DEF StartRefused, TypeOK
  <2>2. Clean
    BY <2>1 DEF QueueShape
  <2> QED
    BY <1>2, <2>1, <2>2 DEF StartRefused
<1>3. CASE UpdateRefused
  BY <1>3 DEF UpdateRefused, Running
<1>3a. CASE RestartToStop
  BY <1>3a DEF RestartToStop, Running
<1>3b. CASE FinishOp
  BY <1>3b DEF FinishOp
<1>4. CASE Start \/ Restart
  BY <1>4 DEF Start, Restart, Running, BeginCore, UndoDispatcher, SnapshotsAreOriginal
<1>5. CASE Update
  BY <1>5 DEF Update, Running
<1>6. CASE UpdateToCore
  BY <1>6 DEF UpdateToCore, BeginCore, UndoDispatcher, SnapshotsAreOriginal
<1>7. CASE Load
  <2>1. CASE KeepSubscription \/ LoadFromUrl \/ LoadFromCache \/ NoCachedCopy
    BY <1>7, <2>1 DEF KeepSubscription, LoadFromUrl, LoadFromCache, NoCachedCopy, MustLoad
  <2>2. CASE LoadFromUrlFails \/ CachedCopyUnparsable
    <3>1. CASE forced
      <4>1. /\ pc = "loading" /\ pc' = "done"
            /\ UNCHANGED <<state, subscription, server, listening, env, fetch, timers>>
        BY <2>2, <3>1 DEF LoadFromUrlFails, CachedCopyUnparsable, MustLoad, LoadThrows
      <4> QED
        BY <3>1, <4>1
    <3>2. CASE ~forced
      <4>1. pc = "loading" /\ Catch
        BY <2>2, <3>2 DEF LoadFromUrlFails, CachedCopyUnparsable, MustLoad, LoadThrows
      <4> QED
        BY <4>1 DEF Catch, CloseServer, UndoDispatcher, SnapshotsAreOriginal
    <3> QED
      BY <3>1, <3>2
  <2> QED
    BY <1>7, <2>1, <2>2 DEF Load
<1>8. CASE RestoreEnvironment
  <2>1. env' = Ambient /\ fetch' = Native
    BY <1>8 DEF RestoreEnvironment, UndoEnv, SnapshotsAreOriginal
  <2>2. pc' = "loading" /\ state' = "starting" /\ ~forced'
    BY <1>8 DEF RestoreEnvironment
  <2> QED
    BY <2>1, <2>2
<1>9. CASE NoSubscription \/ CreateServer
  BY <1>9 DEF NoSubscription, CreateServer
<1>10. CASE ListenAndInject
  BY <1>10 DEF ListenAndInject
<1>11. CASE Wire
  BY <1>11 DEF Wire
<1>12. CASE ListenFails \/ WireFails
  <2>1. pc \in {"listening", "wiring"} /\ Catch
    BY <1>12 DEF ListenFails, WireFails
  <2> QED
    BY <2>1 DEF Catch, CloseServer, UndoDispatcher, SnapshotsAreOriginal
<1>13. CASE CatchRestores
  BY <1>13 DEF CatchRestores, UndoEnv, SnapshotsAreOriginal
<1>14. CASE BeginStop
  BY <1>14 DEF BeginStop, Running, UndoDispatcher, SnapshotsAreOriginal
<1>15. CASE EndStop
  BY <1>15 DEF EndStop, UndoEnv, CloseServer, SnapshotsAreOriginal
<1>16. CASE UNCHANGED vars
  BY <1>16 DEF vars
<1> QED
  BY <1>1, <1>2, <1>3, <1>4, <1>5, <1>6, <1>7, <1>8, <1>9, <1>10, <1>11, <1>12,
     <1>13, <1>14, <1>15, <1>16, <1>3a, <1>3b DEF Next, Op, Core

-----------------------------------------------------------------------------
(* The queue's shape, and the stop to come.                                *)

LEMMA InitQueue == Init => QueueShape /\ StopComes /\ LastIsStop
<1> SUFFICES ASSUME Init PROVE QueueShape /\ StopComes /\ LastIsStop
  OBVIOUS
<1>1. DOMAIN queue = {1} /\ queue[1] = "start"
  BY DEF Init
<1>2. pc = "idle" /\ Clean /\ applied = None /\ ~disposed
  BY DEF Init, Clean, NothingInjected
<1> QED
  BY <1>1, <1>2 DEF QueueShape, StopComes, LastIsStop

\* The segments between the first and the last are at awaits of their own and
\* keep the captured section.
LEMMA InnerSteps ==
  ASSUME Load \/ Core
  PROVE  pc \notin {"idle", "done", "stopping"} /\ pc' # "idle" /\ UNCHANGED section
<1>1. CASE KeepSubscription \/ LoadFromUrl \/ LoadFromCache \/ NoCachedCopy
  BY <1>1 DEF KeepSubscription, LoadFromUrl, LoadFromCache, NoCachedCopy, MustLoad
<1>2. CASE LoadFromUrlFails \/ CachedCopyUnparsable
  BY <1>2 DEF LoadFromUrlFails, CachedCopyUnparsable, MustLoad, LoadThrows, Catch
<1>3. CASE \/ RestoreEnvironment \/ UpdateToCore \/ NoSubscription \/ CreateServer
           \/ ListenAndInject \/ Wire
  BY <1>3 DEF RestoreEnvironment, UpdateToCore, NoSubscription, CreateServer,
     ListenAndInject, Wire, BeginCore
<1>4. CASE ListenFails \/ WireFails \/ CatchRestores
  BY <1>4 DEF ListenFails, WireFails, CatchRestores, Catch
<1> QED
  BY <1>1, <1>2, <1>3, <1>4 DEF Load, Core

\* Within an operation the queue does not change, and only EndStop ends a stop.
LEMMA NextQueueShape ==
  ASSUME TypeOK, SnapshotsAreOriginal, AtAwaits, QueueShape, [Next]_vars
  PROVE  QueueShape'
<1> USE DEF TypeOK
<1>1. CASE Queues
  <2>1. PICK op \in {"stop", "restart", "update"} : Enqueue(op)
    BY <1>1, RequestEnqueues
  <2>2. op \in Operations /\ op # "start" /\ op # "inner stop"
    BY DEF Operations
  <2>3. /\ UNCHANGED <<pc, section, env, fetch, server>>
        /\ autoTimer' => autoTimer
        /\ latencyTimer' => latencyTimer
    BY <1>1 DEF Queues, ApiRestart, ApiUpdate, TimerUpdate, Dispose,
       SetRuntimeEnabled, Reconcile, Enqueue
  <2>4. Clean => Clean'
    BY <2>3 DEF Clean, NothingInjected
  <2>5. queue' = Append(queue, op)
    BY <2>1 DEF Enqueue
  <2>6. /\ DOMAIN queue \subseteq DOMAIN queue'
        /\ \A i \in DOMAIN queue' :
              \/ i \in DOMAIN queue /\ queue'[i] = queue[i]
              \/ queue'[i] = op /\ (i = 1 => 1 \notin DOMAIN queue)
    BY <2>2, <2>5, Enqueued
  <2> QED
    BY <2>2, <2>3, <2>4, <2>6 DEF QueueShape
<1>2. CASE RestartToStop
  <2>1. queue' = Append(queue, "inner stop") /\ "inner stop" \in Operations
    BY <1>2 DEF RestartToStop, Operations
  <2>2. pc' = "done" /\ queue[1] = "restart" /\ 1 \in DOMAIN queue
    <3>1. Running({"restart"}) /\ pc' = "done"
      BY <1>2 DEF RestartToStop
    <3> QED
      BY <3>1, First
  <2>3. /\ DOMAIN queue \subseteq DOMAIN queue'
        /\ \A i \in DOMAIN queue' :
              \/ i \in DOMAIN queue /\ queue'[i] = queue[i]
              \/ queue'[i] = "inner stop" /\ (i = 1 => 1 \notin DOMAIN queue)
    BY <2>1, Enqueued
  <2> QED
    BY <2>2, <2>3 DEF QueueShape
<1>3. CASE FinishOp
  <2>1. 1 \in DOMAIN queue /\ queue' = Tail(queue) /\ pc' = "idle"
    BY <1>3 DEF FinishOp, QueueShape
  <2>2. \A i \in DOMAIN queue' :
          i + 1 \in DOMAIN queue /\ queue'[i] = queue[i + 1] /\ i \in Nat /\ i + 1 # 1
    BY <2>1, Dequeued
  <2>3. \A i \in DOMAIN queue : queue[i] # "inner stop"
    BY <1>3 DEF FinishOp, SelfBlocked
  <2>4. \A i \in DOMAIN queue' : queue'[i] # "start" /\ queue'[i] # "inner stop"
    BY <2>2, <2>3 DEF QueueShape
  <2> QED
    BY <2>1, <2>4 DEF QueueShape
<1>4. CASE StartRefused
  <2>1. 1 \in DOMAIN queue /\ queue[1] = "start" /\ pc = "idle"
    BY <1>4, First DEF StartRefused
  <2>2. pc' = "done" /\ UNCHANGED queue
    BY <1>4 DEF StartRefused
  <2> QED
    BY <2>1, <2>2 DEF QueueShape
<1>5. CASE UpdateRefused
  <2>1. 1 \in DOMAIN queue /\ queue[1] = "update" /\ pc = "idle"
    BY <1>5, First DEF UpdateRefused
  <2>2. pc' = "done" /\ UNCHANGED queue
    BY <1>5 DEF UpdateRefused
  <2> QED
    BY <2>1, <2>2 DEF QueueShape
<1>6. CASE Start \/ Restart \/ Update
  <2>1. 1 \in DOMAIN queue /\ queue[1] \in {"start", "restart", "update"} /\ pc = "idle"
    BY <1>6, First DEF Start, Restart, Update
  <2>2. pc' \in {"restoring", "loading"} /\ section' = config /\ UNCHANGED queue
    BY <1>6 DEF Start, Restart, Update, BeginCore
  <2> QED
    BY <2>1, <2>2 DEF QueueShape, ValuesOK
<1>7. CASE Load \/ Core
  <2>1. pc \notin {"idle", "done", "stopping"} /\ pc' # "idle" /\ UNCHANGED section
    BY <1>7, InnerSteps
  <2>2. UNCHANGED queue
    BY <1>7 DEF Load, Core, KeepSubscription, LoadFromUrl, LoadFromUrlFails,
       LoadFromCache, NoCachedCopy, CachedCopyUnparsable, RestoreEnvironment,
       UpdateToCore, NoSubscription, CreateServer, ListenAndInject, ListenFails, Wire,
       WireFails, CatchRestores
  <2> QED
    BY <2>1, <2>2 DEF QueueShape
<1>8. CASE BeginStop
  <2>1. /\ pc = "idle" /\ pc' = "stopping" /\ UNCHANGED queue
        /\ 1 \in DOMAIN queue /\ queue[1] \in {"stop", "inner stop"}
    BY <1>8, First DEF BeginStop
  <2> QED
    BY <2>1 DEF QueueShape
<1>9. CASE EndStop
  <2>1. pc = "stopping" /\ pc' = "done" /\ UNCHANGED queue
    BY <1>9 DEF EndStop
  <2>2. Clean'
    BY <1>9, DistinctAssumption DEF EndStop, UndoEnv, CloseServer, AtAwaits, Clean,
       NothingInjected, SnapshotsAreOriginal
  <2> QED
    BY <2>1, <2>2 DEF QueueShape
<1>10. CASE PostRuntime \/ BodyFails \/ UNCHANGED vars
  <2>1. UNCHANGED <<pc, queue, section>> /\ (Clean => Clean')
    BY <1>10 DEF PostRuntime, BodyFails, vars, Clean, NothingInjected
  <2> QED
    BY <2>1 DEF QueueShape
<1> QED
  BY <1>1, <1>2, <1>3, <1>4, <1>5, <1>6, <1>7, <1>8, <1>9, <1>10 DEF Next, Op, Environment

\* The stop that a disabled plugin waits for keeps its place or moves up.
LEMMA NextStopComes ==
  ASSUME TypeOK, SnapshotsAreOriginal, AtAwaits, QueueShape, StopComes, [Next]_vars
  PROVE  StopComes'
<1> USE DEF TypeOK
<1> SUFFICES ASSUME ~config'.enabled, applied' # None
             PROVE  StopPending' \/ pc' = "stopping" \/ (Clean' /\ pc' \in {"idle", "done"})
  BY DEF StopComes
<1>1. CASE \E next \in Configs : Reconcile(next)
  <2>1. queue' = Append(queue, "stop") /\ "stop" \in Operations /\ UNCHANGED pc
    BY <1>1 DEF Reconcile, Enqueue, Operations
  <2>2. Len(queue') \in DOMAIN queue' /\ queue'[Len(queue')] = "stop"
    BY <2>1, Enqueued
  <2>3. Len(queue') = 1 => pc = "idle"
    <3>1. Len(queue') = 1 => 1 \notin DOMAIN queue
      BY <2>1, Enqueued
    <3> QED
      BY <3>1 DEF QueueShape
  <2> QED
    BY <2>1, <2>2, <2>3 DEF StopPending
<1>2. CASE ~(\E next \in Configs : Reconcile(next))
  <2>1. UNCHANGED <<config, applied>>
    BY <1>2 DEF Next, Op, Load, Core, vars, StartRefused, UpdateRefused, EndStop, BeginStop,
       Start, Restart, RestartToStop, FinishOp, Update, UpdateToCore, KeepSubscription,
       LoadFromUrl, LoadFromUrlFails, LoadFromCache, NoCachedCopy, CachedCopyUnparsable,
       RestoreEnvironment, NoSubscription, CreateServer, ListenAndInject, ListenFails,
       CatchRestores, Wire, WireFails, Environment, Queues, ApiRestart, ApiUpdate, TimerUpdate,
       Dispose, PostRuntime, BodyFails, SetRuntimeEnabled
  <2>2. StopPending \/ pc = "stopping" \/ (Clean /\ pc \in {"idle", "done"})
    BY <2>1 DEF StopComes
  <2>3. ~config.enabled
    BY <2>1
  <2>4. CASE Queues
    <3>1. PICK op \in {"stop", "restart", "update"} : Enqueue(op)
      BY <2>4, RequestEnqueues
    <3>2. op \in Operations
      BY DEF Operations
    <3>3. UNCHANGED pc /\ (Clean => Clean')
      BY <2>4 DEF Queues, ApiRestart, ApiUpdate, TimerUpdate, Dispose,
         SetRuntimeEnabled, Reconcile, Enqueue, Clean, NothingInjected
    <3>4. DOMAIN queue \subseteq DOMAIN queue' /\ \A i \in DOMAIN queue : queue'[i] = queue[i]
      BY <3>1, <3>2, Enqueued DEF Enqueue
    <3> QED
      BY <2>2, <3>3, <3>4 DEF StopPending
  <2>5. CASE StartRefused \/ UpdateRefused \/ RestartToStop
    <3>1. /\ pc = "idle" /\ pc' = "done"
          /\ 1 \in DOMAIN queue /\ queue[1] # "stop" /\ UNCHANGED <<channels, sockets, timers>>
      <4>1. Running({"start"}) \/ Running({"update"}) \/ Running({"restart"})
        BY <2>5 DEF StartRefused, UpdateRefused, RestartToStop
      <4>2. pc' = "done" /\ UNCHANGED <<channels, sockets, timers>>
        BY <2>5 DEF StartRefused, UpdateRefused, RestartToStop
      <4> QED
        BY <4>1, <4>2, First
    <3>2. Clean => Clean'
      BY <3>1 DEF Clean, NothingInjected
    <3>3. queue' = queue \/ queue' = Append(queue, "inner stop")
      BY <2>5 DEF StartRefused, UpdateRefused, RestartToStop
    <3>4. DOMAIN queue \subseteq DOMAIN queue' /\ \A i \in DOMAIN queue : queue'[i] = queue[i]
      <4>1. "inner stop" \in Operations
        BY DEF Operations
      <4> QED
        BY <3>3, <4>1, Enqueued
    <3> QED
      BY <2>2, <3>1, <3>2, <3>4 DEF StopPending
  <2>6. CASE Start \/ Restart \/ Update
    <3>1. config.enabled
      BY <2>6 DEF Start, Restart, Update
    <3> QED
      BY <2>3, <3>1
  <2>7. CASE Load \/ Core
    <3>1. pc \notin {"idle", "done", "stopping"} /\ pc' # "idle"
      BY <2>7, InnerSteps
    <3>2. UNCHANGED queue
      BY <2>7 DEF Load, Core, KeepSubscription, LoadFromUrl, LoadFromUrlFails,
         LoadFromCache, NoCachedCopy, CachedCopyUnparsable, RestoreEnvironment,
         UpdateToCore, NoSubscription, CreateServer, ListenAndInject, ListenFails, Wire,
         WireFails, CatchRestores
    <3>3. PICK i \in DOMAIN queue : queue[i] = "stop" /\ i # 1
      BY <2>2, <3>1 DEF StopPending
    <3> QED
      BY <3>2, <3>3 DEF StopPending
  <2>8. CASE BeginStop
    BY <2>8 DEF BeginStop
  <2>9. CASE EndStop
    <3>1. Clean'
      BY <2>9, DistinctAssumption DEF EndStop, UndoEnv, CloseServer, AtAwaits, Clean,
         NothingInjected, SnapshotsAreOriginal
    <3> QED
      BY <2>9, <3>1 DEF EndStop
  <2>10. CASE FinishOp
    <3>1. 1 \in DOMAIN queue /\ queue' = Tail(queue) /\ pc = "done" /\ pc' = "idle"
      BY <2>10 DEF FinishOp, QueueShape
    <3>2. Clean => Clean'
      BY <2>10 DEF FinishOp, Clean, NothingInjected
    <3>3. CASE StopPending
      <4>1. PICK i \in DOMAIN queue : queue[i] = "stop" /\ i # 1
        BY <3>1, <3>3 DEF StopPending
      <4>2. i - 1 \in DOMAIN queue' /\ queue'[i - 1] = queue[i]
        BY <3>1, <4>1, Dequeued
      <4> QED
        BY <3>1, <4>1, <4>2 DEF StopPending
    <3> QED
      BY <2>2, <3>1, <3>2, <3>3
  <2>11. CASE PostRuntime \/ BodyFails \/ UNCHANGED vars
    <3>1. UNCHANGED <<pc, queue>> /\ (Clean => Clean')
      BY <2>11 DEF PostRuntime, BodyFails, vars, Clean, NothingInjected
    <3> QED
      BY <2>2, <3>1 DEF StopPending
  <2> QED
    BY <2>4, <2>5, <2>6, <2>7, <2>8, <2>9, <2>10, <2>11 DEF Next, Op, Environment
<1> QED
  BY <1>1, <1>2

\* What the manager heard last after its disposal is a stop, or it is revived:
\* the disposal's own stop, or that of a late body that says "off".
LEMMA NextLastIsStop ==
  ASSUME TypeOK, AtAwaits, QueueShape, LastIsStop, [Next]_vars
  PROVE  LastIsStop'
<1> USE DEF TypeOK
<1> SUFFICES ASSUME disposed', ~revived'
             PROVE  \/ SelfBlocked'
                    \/ Len(queue') = 0 /\ Clean'
                    \/ Len(queue') # 0 /\ queue'[Len(queue')] = "stop"
  BY DEF LastIsStop
<1>1. CASE Queues
  <2>1. queue' = Append(queue, "stop")
    <3>1. CASE Dispose
      BY <3>1 DEF Dispose, Enqueue
    <3>2. CASE ApiRestart \/ ApiUpdate \/ TimerUpdate \/ \E next \in Configs : Reconcile(next)
      <4>1. ~disposed /\ disposed' = disposed
        BY <3>2 DEF ApiRestart, ApiUpdate, TimerUpdate, Reconcile, Arrives
      <4> QED
        BY <4>1
    <3>3. ASSUME NEW on \in BOOLEAN, SetRuntimeEnabled(on)
          PROVE  queue' = Append(queue, "stop")
      <4>1. revived' = (disposed /\ on) /\ disposed' = disposed
        BY <3>3 DEF SetRuntimeEnabled
      <4>2. ~on
        BY <4>1
      <4> QED
        BY <3>3, <4>2 DEF SetRuntimeEnabled, Enqueue
    <3> QED
      BY <1>1, <3>1, <3>2, <3>3 DEF Queues
  <2>2. "stop" \in Operations
    BY DEF Operations
  <2> QED
    BY <2>1, <2>2, Enqueued
<1>2. CASE ~Queues
  <2>1. UNCHANGED <<disposed, revived>>
    BY <1>2 DEF Next, Op, Load, Core, vars, StartRefused, UpdateRefused, EndStop, BeginStop,
       Start, Restart, RestartToStop, FinishOp, Update, UpdateToCore, KeepSubscription,
       LoadFromUrl, LoadFromUrlFails, LoadFromCache, NoCachedCopy, CachedCopyUnparsable,
       RestoreEnvironment, NoSubscription, CreateServer, ListenAndInject, ListenFails,
       CatchRestores, Wire, WireFails, Environment, PostRuntime, BodyFails
  <2>2. \/ SelfBlocked
        \/ Len(queue) = 0 /\ Clean
        \/ Len(queue) # 0 /\ queue[Len(queue)] = "stop"
    BY <2>1 DEF LastIsStop
  <2>3. CASE RestartToStop
    <3>1. queue' = Append(queue, "inner stop") /\ "inner stop" \in Operations /\ pc' = "done"
      BY <2>3 DEF RestartToStop, Operations
    <3>2. Len(queue') \in DOMAIN queue' /\ queue'[Len(queue')] = "inner stop"
      BY <3>1, Enqueued
    <3> QED
      BY <3>1, <3>2 DEF SelfBlocked
  <2>4. CASE FinishOp
    <3>1. 1 \in DOMAIN queue /\ queue' = Tail(queue) /\ pc = "done" /\ ~SelfBlocked
      BY <2>4 DEF FinishOp, QueueShape
    <3>2. Len(queue) # 0 /\ queue[Len(queue)] = "stop"
      BY <2>2, <3>1, Dequeued
    <3>3. CASE Len(queue) = 1
      <4>1. Len(queue') = 0
        BY <3>1, <3>3, Dequeued
      <4>2. Clean
        BY <3>1, <3>2, <3>3 DEF QueueShape
      <4>3. Clean'
        BY <2>4, <4>2 DEF FinishOp, Clean, NothingInjected
      <4> QED
        BY <4>1, <4>3
    <3>4. CASE Len(queue) # 1
      <4>1. /\ Len(queue') # 0 /\ Len(queue') \in DOMAIN queue'
            /\ queue'[Len(queue')] = queue[Len(queue)]
        BY <3>1, <3>4, Dequeued
      <4> QED
        BY <3>2, <4>1
    <3> QED
      BY <3>3, <3>4
  <2>5. CASE ~RestartToStop /\ ~FinishOp
    <3>1. UNCHANGED queue
      BY <1>2, <2>5, QueueSteps
    <3>2. CASE PostRuntime \/ BodyFails \/ UNCHANGED vars
      <4>1. UNCHANGED <<queue, pc, channels, server, timers>>
        BY <3>2 DEF PostRuntime, BodyFails, vars
      <4>2. (SelfBlocked => SelfBlocked') /\ (Clean => Clean')
        BY <4>1 DEF Clean, NothingInjected, SelfBlocked
      <4> QED
        BY <2>2, <3>1, <4>2
    <3>3. CASE ~(PostRuntime \/ BodyFails \/ UNCHANGED vars)
      <4>1. 1 \in DOMAIN queue /\ pc # "done"
        <5>1. CASE StartRefused \/ UpdateRefused \/ Start \/ Restart \/ Update \/ BeginStop
          BY <5>1, First DEF StartRefused, UpdateRefused, Start, Restart, Update, BeginStop
        <5>2. CASE Load \/ Core \/ EndStop
          BY <5>2, InnerSteps DEF EndStop, QueueShape
        <5> QED
          BY <1>2, <2>5, <3>3, <5>1, <5>2 DEF Next, Op, Environment
      <4>2. Len(queue) # 0 /\ ~SelfBlocked
        <5>1. Len(queue) # 0
          BY <4>1 DEF QueueOK
        <5> QED
          BY <4>1, <5>1 DEF SelfBlocked
      <4> QED
        BY <2>2, <3>1, <4>2
    <3> QED
      BY <3>2, <3>3
  <2> QED
    BY <2>3, <2>4, <2>5
<1> QED
  BY <1>1, <1>2

-----------------------------------------------------------------------------
(* The theorems.                                                           *)

\* IInv holds in every reachable state.
THEOREM Invariance == Spec => []IInv
<1>1. Init => IInv
  BY InitTypeOK, InitAttached, InitQueue DEF IInv
<1>2. IInv /\ [Next]_vars => IInv'
  <2> SUFFICES ASSUME IInv, [Next]_vars PROVE IInv'
    OBVIOUS
  <2>1. TypeOK'
    BY NextQueueOK, NextFlagsOK, NextValuesOK, NextBodiesOK DEF IInv, TypeOK
  <2>2. SnapshotsAreOriginal' /\ AtAwaits'
    BY NextSnapshots, NextAtAwaits DEF IInv, TypeOK
  <2>3. QueueShape' /\ StopComes' /\ LastIsStop'
    BY NextQueueShape, NextStopComes, NextLastIsStop DEF IInv
  <2> QED
    BY <2>1, <2>2, <2>3 DEF IInv
<1> QED
  BY <1>1, <1>2, PTL DEF Spec

\* Every variable keeps its type: no undo runs without a snapshot, and no port
\* variable ever holds a value that is not a port.
THEOREM TypeCorrect == Spec => []TypeOK
<1>1. IInv => TypeOK
  BY DEF IInv
<1> QED
  BY <1>1, Invariance, PTL

\* inject.js restores exactly what it found: no snapshot is of an injection.
THEOREM SnapshotsCorrect == Spec => []SnapshotsAreOriginal
<1>1. IInv => SnapshotsAreOriginal
  BY DEF IInv
<1> QED
  BY <1>1, Invariance, PTL

\* Neither channel points at a port nobody listens on, whatever operations
\* follow each other and wherever they fail (but for the catch block's window).
THEOREM ChannelsCorrect == Spec => []ChannelsLive
<1>1. ASSUME IInv PROVE ChannelsLive
  <2>1. AtAwaits /\ pc \in Awaits
    BY <1>1 DEF IInv, TypeOK, ValuesOK
  <2>2. env # Ambient /\ pc # "catching" => env = server /\ server \in listening
    BY <2>1 DEF AtAwaits, Attached
  <2>3. ASSUME fetch # Native PROVE fetch = env
    <3>1. pc \in {"idle", "done", "loading", "loaded"}
      BY <2>1, <2>3 DEF AtAwaits, Awaits, NothingInjected
    <3> QED
      BY <2>1, <2>3, <3>1 DEF AtAwaits, Settled, NothingInjected
  <2> QED
    BY <2>2, <2>3 DEF ChannelsLive
<1> QED
  BY <1>1, Invariance, PTL

\* Between operations, #state says what the process holds.
THEOREM SettledCorrect == Spec => []SettledStates
<1>1. IInv => SettledStates
  BY DEF IInv, AtAwaits, SettledStates
<1> QED
  BY <1>1, Invariance, PTL

\* A disabled plugin whose queue has drained has left nothing behind.
THEOREM DisabledCorrect == Spec => []DisabledIsClean
<1>1. ASSUME IInv PROVE DisabledIsClean
  <2>1. queue = <<>> => ~StopPending
    BY DEF StopPending
  <2> QED
    BY <1>1, <2>1 DEF IInv, StopComes, DisabledIsClean
<1> QED
  BY <1>1, Invariance, PTL

\* A disposed plugin whose queue has drained has left nothing behind, unless a
\* runtime-enabled body that came after the disposal switched it on again.
THEOREM DisposedCorrect == Spec => []DisposedIsClean
<1>1. ASSUME IInv PROVE DisposedIsClean
  <2>1. queue = <<>> => ~SelfBlocked /\ Len(queue) = 0
    BY DEF SelfBlocked
  <2> QED
    BY <1>1, <2>1 DEF IInv, LastIsStop, DisposedIsClean
<1> QED
  BY <1>1, Invariance, PTL

-----------------------------------------------------------------------------
(* The manager implements ScopedInjection.                                 *)

\* An undone dispatcher leaves the native fetch, whatever was installed.
LEMMA UndoneFetch ==
  ASSUME SnapshotsAreOriginal, UndoDispatcher
  PROVE  fetch' = Native
  BY DistinctAssumption DEF SnapshotsAreOriginal, UndoDispatcher

\* An undone environment is the ambient one.
LEMMA UndoneEnv ==
  ASSUME SnapshotsAreOriginal, UndoEnv
  PROVE  env' = Ambient
  BY DistinctAssumption DEF SnapshotsAreOriginal, UndoEnv

\* Each step of the manager is a step of the scoped injection, or leaves the
\* port set and both channels alone.
LEMMA StepScoped ==
  ASSUME IInv, [Next]_vars
  PROVE  [Scoped!Next]_(Scoped!vars)
<1> USE DEF Scoped!Next, Scoped!vars
<1>1. SnapshotsAreOriginal /\ AtAwaits /\ ValuesOK
  BY DEF IInv, TypeOK
<1>2. CASE Start \/ Restart \/ UpdateToCore \/ BeginStop
  <2>1. UndoDispatcher /\ UNCHANGED <<listening, env>>
    BY <1>2 DEF Start, Restart, UpdateToCore, BeginStop, BeginCore
  <2>2. fetch' = Native
    BY <1>1, <2>1, UndoneFetch
  <2> QED
    BY <2>1, <2>2 DEF Scoped!Unwrap
<1>3. CASE RestoreEnvironment \/ CatchRestores
  <2>1. UndoEnv /\ UNCHANGED <<listening, fetch>> /\ pc \in {"restoring", "catching"}
    BY <1>3 DEF RestoreEnvironment, CatchRestores
  <2>2. env' = Ambient /\ fetch = Native
    BY <1>1, <2>1, UndoneEnv DEF AtAwaits
  <2> QED
    BY <2>1, <2>2 DEF Scoped!Restore
<1>4. CASE EndStop
  <2>1. UndoEnv /\ CloseServer /\ UNCHANGED fetch /\ pc = "stopping"
    BY <1>4 DEF EndStop
  <2>2. env' = Ambient /\ fetch = Native /\ Attached
    BY <1>1, <2>1, UndoneEnv DEF AtAwaits
  <2>3. listening' = listening \ {server}
    BY <2>1 DEF CloseServer
  <2>4. CASE env # Ambient
    BY <2>1, <2>2, <2>3, <2>4 DEF Scoped!Restore, Attached
  <2>5. CASE env = Ambient
    BY <1>1, <2>1, <2>2, <2>3, <2>5, DistinctAssumption DEF Scoped!Close, ValuesOK
  <2> QED
    BY <2>4, <2>5
<1>5. CASE ListenFails \/ WireFails \/ (~forced /\ (LoadFromUrlFails \/ CachedCopyUnparsable))
  <2>1. Catch /\ UNCHANGED env
    BY <1>5 DEF ListenFails, WireFails, LoadFromUrlFails, CachedCopyUnparsable, LoadThrows
  <2>2. fetch = Native
    <3>1. pc \in {"listening", "wiring"} \/ (pc = "loading" /\ ~forced)
      BY <1>5 DEF ListenFails, WireFails, LoadFromUrlFails, CachedCopyUnparsable, MustLoad
    <3> QED
      BY <1>1, <3>1 DEF AtAwaits, NothingInjected
  <2>3. fetch' = Native /\ listening' = listening \ {server}
    BY <1>1, <2>1, UndoneFetch DEF Catch, CloseServer
  <2> QED
    BY <1>1, <2>1, <2>2, <2>3, DistinctAssumption DEF Scoped!Close, ValuesOK
<1>6. CASE ListenAndInject
  <2>1. PICK p \in Ports \ listening : listening' = listening \cup {p} /\ env' = p
    BY <1>6 DEF ListenAndInject
  <2>2. env = Ambient /\ fetch = Native /\ UNCHANGED fetch
    BY <1>1, <1>6 DEF ListenAndInject, AtAwaits, NothingInjected
  <2> QED
    BY <2>1, <2>2 DEF Scoped!Inject
<1>7. CASE Wire
  <2>1. fetch = Native /\ env \in listening
    BY <1>1, <1>7 DEF Wire, AtAwaits
  <2> QED
    BY <1>7, <2>1 DEF Wire, Scoped!Wrap
<1>8. CASE \/ StartRefused \/ UpdateRefused \/ RestartToStop \/ FinishOp \/ Update
           \/ NoSubscription \/ CreateServer \/ UNCHANGED vars
  <2>1. UNCHANGED <<listening, env, fetch>>
    BY <1>8 DEF StartRefused, UpdateRefused, RestartToStop, FinishOp, Update,
       NoSubscription, CreateServer, vars
  <2> QED
    BY <2>1
<1>9. CASE \/ KeepSubscription \/ LoadFromUrl \/ LoadFromCache \/ NoCachedCopy
           \/ (forced /\ (LoadFromUrlFails \/ CachedCopyUnparsable))
  <2>1. UNCHANGED <<listening, env, fetch>>
    BY <1>9 DEF KeepSubscription, LoadFromUrl, LoadFromCache, NoCachedCopy,
       LoadFromUrlFails, CachedCopyUnparsable, LoadThrows
  <2> QED
    BY <2>1
<1>10. CASE Environment
  <2>1. UNCHANGED <<listening, env, fetch>>
    BY <1>10 DEF Environment, Queues, ApiRestart, ApiUpdate, TimerUpdate, Dispose,
       PostRuntime, BodyFails, SetRuntimeEnabled, Reconcile, Enqueue
  <2> QED
    BY <2>1
<1> QED
  BY <1>2, <1>3, <1>4, <1>5, <1>6, <1>7, <1>8, <1>9, <1>10 DEF Next, Op, Load, Core

\* The two channels are opened and closed in order, onto live ports only, and
\* given back as they were found: the safety half of ScopedInjection.
THEOREM Implements == Spec => ImplementsScopedInjection
<1>1. Init => Scoped!Init
  BY DEF Init, Scoped!Init
<1> QED
  BY <1>1, StepScoped, Invariance, PTL DEF Spec, ImplementsScopedInjection, Scoped!Spec

=============================================================================
