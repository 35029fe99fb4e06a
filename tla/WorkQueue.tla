------------------------------ MODULE WorkQueue ------------------------------
(***************************************************************************)
(* The Kubernetes work queue (pkg/util/workqueue, vendored) that every     *)
(* TaskQueue of lbex owns.  Each method runs under the queue's own lock,   *)
(* so each is one operator from the queue's state to its next state.       *)
(*   queue         the keys to process, in order                           *)
(*   dirty         the keys that need processing                           *)
(*   processing    the keys handed out by Get and not yet given to Done    *)
(***************************************************************************)
EXTENDS Naturals, Sequences

QueueType(K) == [queue : Seq(K), dirty : SUBSET K, processing : SUBSET K,
                 shuttingDown : BOOLEAN]

\* Every element of queue is in dirty and not in processing, none is there
\* twice, and a dirty key that is not in queue is being processed.
Consistent(q) ==
  /\ \A i \in 1..Len(q.queue) : q.queue[i] \in q.dirty /\ q.queue[i] \notin q.processing
  /\ \A i, j \in 1..Len(q.queue) : q.queue[i] = q.queue[j] => i = j
  /\ \A k \in q.dirty : k \in q.processing \/ \E i \in 1..Len(q.queue) : q.queue[i] = k

EmptyQueue == [queue |-> <<>>, dirty |-> {}, processing |-> {}, shuttingDown |-> FALSE]

\* A bug: Add forgets that an item being processed must wait for Done.
Add_IgnoresProcessing(q, k) ==
  IF q.shuttingDown \/ k \in q.dirty THEN q
  ELSE [q EXCEPT !.dirty = q.dirty \cup {k}, !.queue = Append(q.queue, k)]

\* A bug: Add drops a key that is being processed instead of marking it dirty.
Add_DropsProcessing(q, k) ==
  IF q.shuttingDown \/ k \in q.dirty \/ k \in q.processing THEN q
  ELSE [q EXCEPT !.dirty = q.dirty \cup {k}, !.queue = Append(q.queue, k)]

Add(q, k) ==
  IF q.shuttingDown \/ k \in q.dirty THEN q
  ELSE [q EXCEPT !.dirty = q.dirty \cup {k},
                 !.queue = IF k \in q.processing THEN q.queue ELSE Append(q.queue, k)]

\* Get blocks until one of these two holds.
HasItem(q) == q.queue # <<>>
Drained(q) == q.queue = <<>> /\ q.shuttingDown

\* What Get does with the item it returns.
Get(q) == [q EXCEPT !.queue = Tail(q.queue),
                    !.processing = q.processing \cup {Head(q.queue)},
                    !.dirty = q.dirty \ {Head(q.queue)}]

\* A bug: Done does not look at dirty.
Done_ForgetsDirty(q, k) == [q EXCEPT !.processing = q.processing \ {k}]

\* A bug: Done puts a dirty key before the keys that wait.
Done_ToFront(q, k) == [q EXCEPT !.processing = q.processing \ {k},
                                !.queue = IF k \in q.dirty THEN <<k>> \o q.queue ELSE q.queue]

Done(q, k) == [q EXCEPT !.processing = q.processing \ {k},
                        !.queue = IF k \in q.dirty THEN Append(q.queue, k) ELSE q.queue]

ShutDown(q) == [q EXCEPT !.shuttingDown = TRUE]
=============================================================================
