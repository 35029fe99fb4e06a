------------------------------ MODULE TaskQueue ------------------------------
(***************************************************************************)
(* task_queue.go: a work queue and the one worker that feeds its keys to a *)
(* sync function.  Producers are the goroutines that call Enqueue (informer*)
(* event handlers and the workers of other queues): each changes an object *)
(* in a store and then enqueues the object's key.  The sync function reads *)
(* the object of its key from the store and applies it.                    *)
(*                                                                         *)
(* The values of the objects do not matter to the queue, only whether what *)
(* was last applied for a key is still what the store holds:               *)
(*   outdated   the keys whose last applied value is not the stored one    *)
(*   fresh      the value the running sync has read is still the stored one*)
(***************************************************************************)
EXTENDS WorkQueue

CONSTANTS Keys,        \* the ns/name keys of the objects
          Producers,   \* the goroutines that call Enqueue
          NoKey        \* no key at all

ASSUME NoKeyAssumption == NoKey \notin Keys

VARIABLES q,           \* t.queue
          ppc, pkey,   \* where each producer is in Enqueue, and with which key
          pc, cur,     \* where the worker is, and the key it holds
          fresh, outdated,
          workerDone,  \* t.workerDone is closed
          shutdown,    \* where the caller of Shutdown is
          panicked     \* the process died of a panic

vars == <<q, ppc, pkey, pc, cur, fresh, outdated, workerDone, shutdown, panicked>>

(* NewTaskQueue, and Run started in its goroutine. *)
Init == /\ q = EmptyQueue
        /\ ppc = [p \in Producers |-> "idle"]
        /\ pkey = [p \in Producers |-> NoKey]
        /\ pc = "get" /\ cur = NoKey /\ fresh = FALSE
        /\ outdated = {}
        /\ workerDone = FALSE
        /\ shutdown = "no"
        /\ panicked = FALSE

-----------------------------------------------------------------------------
(* Producers *)

\* The object of key k changes in the store; its event handler calls Enqueue.
Change(p, k) ==
  /\ ppc[p] = "idle"
  /\ ppc' = [ppc EXCEPT ![p] = "check"]
  /\ pkey' = [pkey EXCEPT ![p] = k]
  /\ outdated' = outdated \cup {k}
  /\ fresh' = (fresh /\ cur # k)
  /\ UNCHANGED <<q, pc, cur, workerDone, shutdown, panicked>>

\* Enqueue up to IsShuttingDown: a queue that is shutting down takes nothing.
EnqueueCheck(p) ==
  /\ ppc[p] = "check"
  /\ ppc' = [ppc EXCEPT ![p] = IF q.shuttingDown THEN "idle" ELSE "add"]
  /\ pkey' = [pkey EXCEPT ![p] = IF q.shuttingDown THEN NoKey ELSE pkey[p]]
  /\ UNCHANGED <<q, pc, cur, fresh, outdated, workerDone, shutdown, panicked>>

\* A bug: Enqueue goes on with an empty key when keyFunc fails.
EnqueueAdd_EmptyKey(p) ==
  /\ ppc[p] = "add"
  /\ ppc' = [ppc EXCEPT ![p] = "idle"]
  /\ pkey' = [pkey EXCEPT ![p] = NoKey]
  /\ \E key \in {pkey[p], NoKey} : q' = Add(q, key)
  /\ UNCHANGED <<pc, cur, fresh, outdated, workerDone, shutdown, panicked>>

\* The rest of Enqueue.
EnqueueAdd(p) ==
  /\ ppc[p] = "add"
  /\ ppc' = [ppc EXCEPT ![p] = "idle"]
  /\ pkey' = [pkey EXCEPT ![p] = NoKey]
  /\ q' = Add(q, pkey[p])
  /\ UNCHANGED <<pc, cur, fresh, outdated, workerDone, shutdown, panicked>>

-----------------------------------------------------------------------------
(* The worker *)

WorkerGet ==
  /\ pc = "get" /\ HasItem(q)
  /\ q' = Get(q)
  /\ cur' = Head(q.queue)
  /\ pc' = "sync"
  /\ UNCHANGED <<ppc, pkey, fresh, outdated, workerDone, shutdown, panicked>>

\* A bug: the worker leaves without closing workerDone.
WorkerQuit_NoClose ==
  /\ pc = "get" /\ Drained(q)
  /\ pc' = "until"
  /\ UNCHANGED <<q, ppc, pkey, cur, fresh, outdated, workerDone, shutdown, panicked>>

\* Get reports the shutdown: close(t.workerDone), which panics on a channel
\* that is closed already, and return to wait.Until.
WorkerQuit ==
  /\ pc = "get" /\ Drained(q)
  /\ workerDone' = TRUE
  /\ panicked' = workerDone
  /\ pc' = "until"
  /\ UNCHANGED <<q, ppc, pkey, cur, fresh, outdated, shutdown>>

\* wait.Until calls the worker again after its period; lbex never closes stopCh.
UntilPeriod ==
  /\ pc = "until"
  /\ pc' = "get"
  /\ UNCHANGED <<q, ppc, pkey, cur, fresh, outdated, workerDone, shutdown, panicked>>

\* A sync function starts: it gives up on a queue that is shutting down,
\* otherwise it reads the object of its key.
SyncRead ==
  /\ pc = "sync"
  /\ pc' = IF q.shuttingDown THEN "done" ELSE "apply"
  /\ fresh' = ~q.shuttingDown
  /\ UNCHANGED <<q, ppc, pkey, cur, outdated, workerDone, shutdown, panicked>>

\* ... applies it and returns nil,
SyncApply ==
  /\ pc = "apply"
  /\ outdated' = IF fresh THEN outdated \ {cur} ELSE outdated
  /\ fresh' = FALSE
  /\ pc' = "done"
  /\ UNCHANGED <<q, ppc, pkey, cur, workerDone, shutdown, panicked>>

\* ... or returns an error.
SyncError ==
  /\ pc = "apply"
  /\ fresh' = FALSE
  /\ pc' = "requeue"
  /\ UNCHANGED <<q, ppc, pkey, cur, outdated, workerDone, shutdown, panicked>>

Requeue ==
  /\ pc = "requeue"
  /\ q' = Add(q, cur)
  /\ pc' = "done"
  /\ UNCHANGED <<ppc, pkey, cur, fresh, outdated, workerDone, shutdown, panicked>>

WorkerDone ==
  /\ pc = "done"
  /\ q' = Done(q, cur)
  /\ cur' = NoKey
  /\ pc' = "get"
  /\ UNCHANGED <<ppc, pkey, fresh, outdated, workerDone, shutdown, panicked>>

-----------------------------------------------------------------------------
(* Shutdown *)

ShutdownCall ==
  /\ shutdown = "no"
  /\ q' = ShutDown(q)
  /\ shutdown' = "waiting"
  /\ UNCHANGED <<ppc, pkey, pc, cur, fresh, outdated, workerDone, panicked>>

\* A bug: Shutdown does not wait for the worker.
ShutdownReturn_NoWait ==
  /\ shutdown = "waiting"
  /\ shutdown' = "returned"
  /\ UNCHANGED <<q, ppc, pkey, pc, cur, fresh, outdated, workerDone, panicked>>

ShutdownReturn ==
  /\ shutdown = "waiting" /\ workerDone
  /\ shutdown' = "returned"
  /\ UNCHANGED <<q, ppc, pkey, pc, cur, fresh, outdated, workerDone, panicked>>

-----------------------------------------------------------------------------
Producer(p) == EnqueueCheck(p) \/ EnqueueAdd(p)

Worker == \/ WorkerGet \/ WorkerQuit \/ UntilPeriod
          \/ SyncRead \/ SyncApply \/ SyncError \/ Requeue \/ WorkerDone

Next == /\ ~panicked
        /\ \/ \E p \in Producers : Producer(p) \/ \E k \in Keys : Change(p, k)
           \/ Worker
           \/ ShutdownCall \/ ShutdownReturn

(* Goroutines that can run do run.  Objects need not change and Shutdown   *)
(* need not be called.  A sync that is retried does not fail for ever.     *)
Fairness == /\ WF_vars(Worker /\ ~panicked)
            /\ SF_vars(SyncApply /\ ~panicked)
            /\ \A p \in Producers : WF_vars(Producer(p) /\ ~panicked)
            /\ WF_vars(ShutdownReturn /\ ~panicked)

Safety == Init /\ [][Next]_vars
Spec == Safety /\ Fairness

-----------------------------------------------------------------------------
Busy == {"sync", "apply", "requeue", "done"}

TypeOK ==
  /\ q \in QueueType(Keys)
  /\ ppc \in [Producers -> {"idle", "check", "add"}]
  /\ pkey \in [Producers -> Keys \cup {NoKey}]
  /\ pc \in Busy \cup {"get", "until"}
  /\ cur \in Keys \cup {NoKey}
  /\ fresh \in BOOLEAN /\ outdated \in SUBSET Keys
  /\ workerDone \in BOOLEAN /\ panicked \in BOOLEAN
  /\ shutdown \in {"no", "waiting", "returned"}

\* What the comments of queue.go say of its fields: every element of queue is
\* in dirty and not in processing, no element is there twice, and a dirty key
\* that is not in queue is being processed.
QueueConsistent == Consistent(q)

\* A sync of k is still to read the store: k is marked, a producer is about to
\* mark it, the worker holds it and has not read yet, has read what is still
\* stored, or is about to requeue it.
SyncAhead(k) ==
  \/ k \in q.dirty
  \/ \E p \in Producers : ppc[p] \in {"check", "add"} /\ pkey[p] = k
  \/ cur = k /\ (pc \in {"sync", "requeue"} \/ (pc = "apply" /\ fresh))

\* No update is lost: until Shutdown, a key whose applied value is out of date
\* has a sync ahead of it, however changes, enqueues and the running sync
\* interleave (Enqueue during sync relies on dirty and Done).
NoLostUpdate == ~q.shuttingDown => \A k \in outdated : SyncAhead(k)

\* "Shutdown shuts down the work queue and waits for the worker to ACK": once
\* it has returned, no sync runs.
ShutdownStopsSync == shutdown = "returned" => pc \notin Busy

\* If objects stop changing, the applied state catches up with the stores and
\* stays so, unless the queue is shut down.
Settles == <>[](\A p \in Producers : ppc[p] = "idle") => <>[](outdated = {} \/ q.shuttingDown)

\* A call of Shutdown returns (or the process dies).
ShutdownReturns == shutdown = "waiting" ~> (shutdown = "returned" \/ panicked)

\* The queue is a set of pending keys, taken one at a time without starvation.
Pending == INSTANCE PendingSet WITH
             pending <- q.dirty,
             current <- cur,
             closed <- q.shuttingDown
ImplementsPendingSet == Pending!Spec
=============================================================================
