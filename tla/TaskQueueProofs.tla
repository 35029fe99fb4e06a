--------------------------- MODULE TaskQueueProofs ---------------------------
(***************************************************************************)
(* Proofs about TaskQueue, for any set of keys and of producers.           *)
(***************************************************************************)
EXTENDS TaskQueue, SharedLemmas

-----------------------------------------------------------------------------
(* The inductive invariant. *)

\* The worker holds exactly the key that the work queue has handed out.
WorkerHolds == /\ q.processing = IF pc \in Busy THEN {cur} ELSE {}
               /\ IF pc \in Busy THEN cur \in Keys ELSE cur = NoKey

\* A producer inside Enqueue has a key.
ProducersHold == \A p \in Producers : ppc[p] # "idle" => pkey[p] \in Keys

\* workerDone is closed only by a worker that has drained a closed queue, and
\* then nothing is queued or processed any more.
DrainedWhenDone == /\ shutdown = "no" => ~q.shuttingDown
                   /\ shutdown = "returned" => workerDone
                   /\ pc = "until" => workerDone
                   /\ workerDone => q.shuttingDown /\ q.queue = <<>> /\ pc \notin Busy

IInv == /\ TypeOK /\ QueueConsistent /\ WorkerHolds /\ ProducersHold
        /\ DrainedWhenDone /\ NoLostUpdate

\* The initial queue satisfies the inductive invariant (NewTaskQueue).
LEMMA InitIInv == Init => IInv
<1> SUFFICES ASSUME Init PROVE IInv
  OBVIOUS
<1>1. q.queue = <<>> /\ q.dirty = {} /\ q.processing = {} /\ q.shuttingDown = FALSE
  BY Zenon DEF Init, EmptyQueue
<1>2. TypeOK
  <2>1. <<>> \in Seq(Keys)
    OBVIOUS
  <2>2. q \in QueueType(Keys)
    BY Zenon, <2>1 DEF Init, EmptyQueue, QueueType
  <2> QED BY Zenon, <2>2 DEF Init, TypeOK, Busy
<1>3. QueueConsistent
  BY SMTT(30), <1>1 DEF QueueConsistent, Consistent
<1>4. WorkerHolds /\ ProducersHold /\ DrainedWhenDone /\ NoLostUpdate
  BY Zenon, <1>1 DEF Init, WorkerHolds, ProducersHold, DrainedWhenDone, NoLostUpdate, Busy
<1> QED BY Zenon, <1>2, <1>3, <1>4 DEF IInv

\* What the end of Enqueue does to the work queue.
LEMMA EnqueueAddQueue ==
  ASSUME IInv, NEW p \in Producers, EnqueueAdd(p)
  PROVE  /\ pkey[p] \in Keys
         /\ q' \in QueueType(Keys) /\ Consistent(q')
         /\ ~q.shuttingDown => q'.dirty = q.dirty \cup {pkey[p]}
         /\ q'.processing = q.processing
         /\ q'.shuttingDown = q.shuttingDown
         /\ q.shuttingDown => q' = q
<1>1. pkey[p] \in Keys
  BY Zenon DEF IInv, EnqueueAdd, ProducersHold
<1>2. q \in QueueType(Keys) /\ Consistent(q) /\ q' = Add(q, pkey[p])
  BY Zenon DEF IInv, EnqueueAdd, TypeOK, QueueConsistent
<1> QED BY SMTT(30), <1>1, <1>2, AddLemma

\* What Requeue does to the work queue.
LEMMA RequeueQueue ==
  ASSUME IInv, Requeue
  PROVE  /\ cur \in Keys
         /\ q' \in QueueType(Keys) /\ Consistent(q')
         /\ ~q.shuttingDown => q'.dirty = q.dirty \cup {cur}
         /\ q'.processing = q.processing
         /\ q'.shuttingDown = q.shuttingDown
         /\ q.shuttingDown => q' = q
<1>1. cur \in Keys
  BY Zenon DEF IInv, Requeue, WorkerHolds, Busy
<1>2. q \in QueueType(Keys) /\ Consistent(q) /\ q' = Add(q, cur)
  BY Zenon DEF IInv, Requeue, TypeOK, QueueConsistent
<1> QED BY SMTT(30), <1>1, <1>2, AddLemma

\* A producer's step keeps the inductive invariant.
LEMMA ProducerIInv ==
  ASSUME IInv, NEW p \in Producers, Producer(p) \/ \E k \in Keys : Change(p, k)
  PROVE  IInv'
<1> USE DEF IInv
<1>1. ASSUME NEW k \in Keys, Change(p, k) PROVE IInv'
  <2>1. TypeOK'
    BY Zenon, <1>1 DEF Change, TypeOK
  <2>2. QueueConsistent' /\ WorkerHolds' /\ DrainedWhenDone'
    BY Zenon, <1>1 DEF Change, QueueConsistent, WorkerHolds, DrainedWhenDone
  <2>3. ProducersHold'
    BY Zenon, <1>1 DEF Change, ProducersHold, TypeOK
  <2>4. NoLostUpdate'
    BY SMTT(30), <1>1 DEF Change, NoLostUpdate, SyncAhead, TypeOK
  <2> QED BY Zenon, <2>1, <2>2, <2>3, <2>4
<1>2. CASE EnqueueCheck(p)
  <2>1. TypeOK'
    BY Zenon, <1>2 DEF EnqueueCheck, TypeOK
  <2>2. QueueConsistent' /\ WorkerHolds' /\ DrainedWhenDone'
    BY Zenon, <1>2 DEF EnqueueCheck, QueueConsistent, WorkerHolds, DrainedWhenDone
  <2>3. ProducersHold'
    BY Zenon, <1>2 DEF EnqueueCheck, ProducersHold, TypeOK
  <2>4. NoLostUpdate'
    BY ZenonT(60), <1>2 DEF EnqueueCheck, NoLostUpdate, SyncAhead, TypeOK
  <2> QED BY Zenon, <2>1, <2>2, <2>3, <2>4
<1>3. CASE EnqueueAdd(p)
  <2>1. /\ q' \in QueueType(Keys) /\ Consistent(q')
        /\ ~q.shuttingDown => q'.dirty = q.dirty \cup {pkey[p]}
        /\ q'.processing = q.processing
        /\ q'.shuttingDown = q.shuttingDown
        /\ q.shuttingDown => q' = q
    BY Zenon, <1>3, EnqueueAddQueue
  <2>2. TypeOK'
    BY Zenon, <1>3, <2>1 DEF EnqueueAdd, TypeOK
  <2>3. QueueConsistent' /\ WorkerHolds' /\ DrainedWhenDone'
    BY Zenon, <1>3, <2>1 DEF EnqueueAdd, QueueConsistent, WorkerHolds, DrainedWhenDone
  <2>4. ProducersHold'
    BY Zenon, <1>3 DEF EnqueueAdd, ProducersHold, TypeOK
  <2>5. NoLostUpdate'
    BY ZenonT(60), <1>3, <2>1 DEF EnqueueAdd, NoLostUpdate, SyncAhead, TypeOK
  <2> QED BY Zenon, <2>2, <2>3, <2>4, <2>5
<1> QED BY Zenon, <1>1, <1>2, <1>3 DEF Producer

\* A step of the worker keeps the inductive invariant.
LEMMA WorkerIInv ==
  ASSUME IInv, Worker
  PROVE  IInv'
<1> USE DEF IInv
<1>1. CASE WorkerGet
  <2>1. /\ q' \in QueueType(Keys) /\ Consistent(q')
        /\ cur' \in q.dirty
        /\ q'.dirty = q.dirty \ {cur'}
        /\ q'.processing = q.processing \cup {cur'}
        /\ q'.shuttingDown = q.shuttingDown
    BY Zenon, <1>1, GetLemma DEF WorkerGet, TypeOK, QueueConsistent
  <2>2. cur' \in Keys
    BY Zenon, <2>1 DEF TypeOK, QueueType
  <2>3. TypeOK'
    BY Zenon, <1>1, <2>1, <2>2 DEF WorkerGet, TypeOK, Busy
  <2>4. QueueConsistent' /\ WorkerHolds' /\ ProducersHold'
    BY Zenon, <1>1, <2>1, <2>2 DEF WorkerGet, QueueConsistent, WorkerHolds, ProducersHold, Busy
  <2>5. DrainedWhenDone'
    BY Zenon, <1>1, <2>1 DEF WorkerGet, DrainedWhenDone, HasItem
  <2>6. NoLostUpdate'
    BY Zenon, <1>1, <2>1 DEF WorkerGet, NoLostUpdate, SyncAhead
  <2> QED BY Zenon, <2>3, <2>4, <2>5, <2>6
<1>2. CASE WorkerQuit
  <2>1. q.shuttingDown /\ q.queue = <<>> /\ q' = q
    BY Zenon, <1>2 DEF WorkerQuit, Drained
  <2>2. TypeOK'
    BY Zenon, <1>2 DEF WorkerQuit, TypeOK
  <2>3. QueueConsistent' /\ WorkerHolds' /\ ProducersHold' /\ DrainedWhenDone' /\ NoLostUpdate'
    BY Zenon, <1>2, <2>1 DEF WorkerQuit, QueueConsistent, WorkerHolds, ProducersHold, DrainedWhenDone,
                      NoLostUpdate, Busy
  <2> QED BY Zenon, <2>2, <2>3
<1>3. CASE UntilPeriod
  <2>1. TypeOK' /\ QueueConsistent' /\ WorkerHolds' /\ ProducersHold' /\ DrainedWhenDone'
    BY Zenon, <1>3 DEF UntilPeriod, TypeOK, QueueConsistent, WorkerHolds, ProducersHold,
                DrainedWhenDone, Busy
  <2>2. NoLostUpdate'
    BY Zenon, <1>3 DEF UntilPeriod, NoLostUpdate, DrainedWhenDone
  <2> QED BY Zenon, <2>1, <2>2
<1>4. CASE SyncRead
  <2>1. TypeOK'
    BY Zenon, <1>4 DEF SyncRead, TypeOK, Busy, QueueType
  <2>2. QueueConsistent' /\ WorkerHolds' /\ ProducersHold' /\ DrainedWhenDone'
    BY Zenon, <1>4 DEF SyncRead, QueueConsistent, WorkerHolds, ProducersHold, DrainedWhenDone, Busy
  <2>3. NoLostUpdate'
    BY Zenon, <1>4 DEF SyncRead, NoLostUpdate, SyncAhead
  <2> QED BY Zenon, <2>1, <2>2, <2>3
<1>5. CASE SyncApply
  <2>1. TypeOK'
    BY Zenon, <1>5 DEF SyncApply, TypeOK, Busy
  <2>2. QueueConsistent' /\ WorkerHolds' /\ ProducersHold' /\ DrainedWhenDone'
    BY Zenon, <1>5 DEF SyncApply, QueueConsistent, WorkerHolds, ProducersHold, DrainedWhenDone, Busy
  <2>3. NoLostUpdate'
    BY Zenon, <1>5 DEF SyncApply, NoLostUpdate, SyncAhead
  <2> QED BY Zenon, <2>1, <2>2, <2>3
<1>6. CASE SyncError
  <2>1. TypeOK'
    BY Zenon, <1>6 DEF SyncError, TypeOK, Busy
  <2>2. QueueConsistent' /\ WorkerHolds' /\ ProducersHold' /\ DrainedWhenDone'
    BY Zenon, <1>6 DEF SyncError, QueueConsistent, WorkerHolds, ProducersHold, DrainedWhenDone, Busy
  <2>3. NoLostUpdate'
    BY Zenon, <1>6 DEF SyncError, NoLostUpdate, SyncAhead
  <2> QED BY Zenon, <2>1, <2>2, <2>3
<1>7. CASE Requeue
  <2>1. /\ q' \in QueueType(Keys) /\ Consistent(q')
        /\ ~q.shuttingDown => q'.dirty = q.dirty \cup {cur}
        /\ q'.processing = q.processing
        /\ q'.shuttingDown = q.shuttingDown
        /\ q.shuttingDown => q' = q
    BY Zenon, <1>7, RequeueQueue
  <2>2. TypeOK'
    BY Zenon, <1>7, <2>1 DEF Requeue, TypeOK, Busy
  <2>3. QueueConsistent' /\ WorkerHolds' /\ ProducersHold' /\ DrainedWhenDone'
    BY Zenon, <1>7, <2>1 DEF Requeue, QueueConsistent, WorkerHolds, ProducersHold, DrainedWhenDone, Busy
  <2>4. NoLostUpdate'
    BY Zenon, <1>7, <2>1 DEF Requeue, NoLostUpdate, SyncAhead
  <2> QED BY Zenon, <2>2, <2>3, <2>4
<1>8. CASE WorkerDone
  <2>1. /\ q' \in QueueType(Keys) /\ Consistent(q')
        /\ q'.dirty = q.dirty
        /\ q'.processing = {}
        /\ q'.shuttingDown = q.shuttingDown
    <3>1. cur \in Keys /\ q.processing = {cur}
      BY Zenon, <1>8 DEF WorkerDone, WorkerHolds, Busy
    <3> QED BY SMTT(30), <1>8, <3>1, DoneLemma DEF WorkerDone, TypeOK, QueueConsistent
  <2>2. TypeOK'
    BY Zenon, <1>8, <2>1 DEF WorkerDone, TypeOK, Busy
  <2>3. QueueConsistent' /\ WorkerHolds' /\ ProducersHold' /\ DrainedWhenDone'
    BY Zenon, <1>8, <2>1 DEF WorkerDone, QueueConsistent, WorkerHolds, ProducersHold,
                      DrainedWhenDone, Busy
  <2>4. NoLostUpdate'
    BY Zenon, <1>8, <2>1 DEF WorkerDone, NoLostUpdate, SyncAhead
  <2> QED BY Zenon, <2>2, <2>3, <2>4
<1> QED BY Zenon, <1>1, <1>2, <1>3, <1>4, <1>5, <1>6, <1>7, <1>8 DEF Worker

\* The steps of Shutdown keep the inductive invariant.
LEMMA ShutdownIInv ==
  ASSUME IInv, ShutdownCall \/ ShutdownReturn
  PROVE  IInv'
<1> USE DEF IInv
<1>1. CASE ShutdownCall
  <2>1. /\ q' \in QueueType(Keys)
        /\ q'.queue = q.queue /\ q'.dirty = q.dirty
        /\ q'.processing = q.processing /\ q'.shuttingDown = TRUE
    BY Zenon, <1>1 DEF ShutdownCall, ShutDown, TypeOK, QueueType
  <2>2. TypeOK'
    BY Zenon, <1>1, <2>1 DEF ShutdownCall, TypeOK
  <2>3. QueueConsistent'
    BY ZenonT(60), <2>1 DEF QueueConsistent, Consistent
  <2>4. WorkerHolds' /\ ProducersHold' /\ DrainedWhenDone' /\ NoLostUpdate'
    BY Zenon, <1>1, <2>1 DEF ShutdownCall, WorkerHolds, ProducersHold, DrainedWhenDone, NoLostUpdate
  <2> QED BY Zenon, <2>2, <2>3, <2>4
<1>2. CASE ShutdownReturn
  BY Zenon, <1>2 DEF ShutdownReturn, TypeOK, QueueConsistent, WorkerHolds, ProducersHold,
              DrainedWhenDone, NoLostUpdate, SyncAhead
<1> QED BY Zenon, <1>1, <1>2

\* Every step, and every stuttering step, keeps the inductive invariant.
LEMMA NextIInv == IInv /\ [Next]_vars => IInv'
<1> SUFFICES ASSUME IInv, [Next]_vars PROVE IInv'
  OBVIOUS
<1>1. CASE Next
  BY Zenon, <1>1, ProducerIInv, WorkerIInv, ShutdownIInv DEF Next
<1>2. CASE UNCHANGED vars
  BY ZenonT(60), <1>2 DEF vars, IInv, TypeOK, QueueConsistent, WorkerHolds, ProducersHold, DrainedWhenDone,
              NoLostUpdate, SyncAhead
<1> QED BY Zenon, <1>1, <1>2

\* The inductive invariant holds of every behaviour of the task queue.
LEMMA IInvHolds == Safety => []IInv
BY InitIInv, NextIInv, PTL DEF Safety

-----------------------------------------------------------------------------
(* The theorems. *)

\* The variables of the task queue keep their types.
THEOREM TypeCorrect == Safety => []TypeOK
<1>1. IInv => TypeOK
  BY Zenon DEF IInv
<1> QED BY <1>1, IInvHolds, PTL

\* The fields of the work queue keep the relation queue.go's comments state,
\* under the concurrent use the task queue makes of them.
THEOREM QueueStaysConsistent == Safety => []QueueConsistent
<1>1. IInv => QueueConsistent
  BY Zenon DEF IInv
<1> QED BY <1>1, IInvHolds, PTL

\* No update is lost: a key whose applied value is out of date always has a
\* sync ahead of it, for any number of keys and producers.
THEOREM NoUpdateIsLost == Safety => []NoLostUpdate
<1>1. IInv => NoLostUpdate
  BY Zenon DEF IInv
<1> QED BY <1>1, IInvHolds, PTL

\* Once Shutdown has returned, the worker is in no sync.
THEOREM ShutdownIsQuiet == Safety => []ShutdownStopsSync
<1>1. IInv => ShutdownStopsSync
  BY Zenon DEF IInv, DrainedWhenDone, ShutdownStopsSync
<1> QED BY <1>1, IInvHolds, PTL

\* The task queue implements the safety part of the set of pending keys:
\* marking, taking one key at a time, finishing and closing.
THEOREM RefinesPendingSet == Safety => Pending!Safety
<1>1. Init => Pending!Init
  BY SMTT(30) DEF Init, EmptyQueue, Pending!Init
<1>2. IInv /\ [Next]_vars => [Pending!Next]_(Pending!psVars)
  <2> SUFFICES ASSUME IInv, [Next]_vars PROVE [Pending!Next]_(Pending!psVars)
    OBVIOUS
  <2> USE DEF Pending!psVars
  <2>1. ASSUME NEW p \in Producers, EnqueueAdd(p) PROVE [Pending!Next]_(Pending!psVars)
    <3>1. /\ pkey[p] \in Keys
          /\ ~q.shuttingDown => q'.dirty = q.dirty \cup {pkey[p]}
          /\ q'.shuttingDown = q.shuttingDown
          /\ q.shuttingDown => q' = q
      BY Zenon, <2>1, EnqueueAddQueue
    <3> QED BY Zenon, <2>1, <3>1 DEF EnqueueAdd, Pending!Next, Pending!Mark
  <2>2. CASE Requeue
    <3>1. /\ cur \in Keys
          /\ ~q.shuttingDown => q'.dirty = q.dirty \cup {cur}
          /\ q'.shuttingDown = q.shuttingDown
          /\ q.shuttingDown => q' = q
      BY Zenon, <2>2, RequeueQueue
    <3> QED BY Zenon, <2>2, <3>1 DEF Requeue, Pending!Next, Pending!Mark
  <2>3. CASE WorkerGet
    <3>1. /\ cur' \in q.dirty
          /\ q'.dirty = q.dirty \ {cur'}
          /\ q'.shuttingDown = q.shuttingDown
      BY Zenon, <2>3, GetLemma DEF IInv, WorkerGet, TypeOK, QueueConsistent
    <3>2. cur = NoKey /\ cur' \in Keys
      BY Zenon, <2>3, <3>1 DEF IInv, WorkerGet, WorkerHolds, Busy, TypeOK, QueueType
    <3> QED BY Zenon, <3>1, <3>2 DEF Pending!Next, Pending!Take
  <2>4. CASE WorkerDone
    <3>1. cur \in Keys /\ q.processing = {cur}
      BY Zenon, <2>4 DEF IInv, WorkerDone, WorkerHolds, Busy
    <3>2. q'.dirty = q.dirty /\ q'.shuttingDown = q.shuttingDown
      BY SMTT(30), <2>4, <3>1, DoneLemma DEF IInv, WorkerDone, TypeOK, QueueConsistent
    <3> QED BY Zenon, <2>4, <3>1, <3>2, NoKeyAssumption DEF WorkerDone, Pending!Next, Pending!Finish
  <2>5. CASE ShutdownCall
    BY Zenon, <2>5 DEF IInv, ShutdownCall, ShutDown, TypeOK, QueueType, Pending!Next, Pending!Close
  <2>6. ASSUME NEW p \in Producers, EnqueueCheck(p) \/ \E k \in Keys : Change(p, k)
        PROVE  [Pending!Next]_(Pending!psVars)
    BY Zenon, <2>6 DEF EnqueueCheck, Change
  <2>7. CASE WorkerQuit \/ UntilPeriod \/ SyncRead \/ SyncApply \/ SyncError \/ ShutdownReturn
    BY Zenon, <2>7 DEF WorkerQuit, UntilPeriod, SyncRead, SyncApply, SyncError, ShutdownReturn
  <2>8. CASE UNCHANGED vars
    BY Zenon, <2>8 DEF vars
  <2> QED BY Zenon, <2>1, <2>2, <2>3, <2>4, <2>5, <2>6, <2>7, <2>8 DEF Next, Producer, Worker
<1> QED BY <1>1, <1>2, IInvHolds, PTL DEF Safety, Pending!Safety
=============================================================================
