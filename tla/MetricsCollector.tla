-------------------------- MODULE MetricsCollector --------------------------
(***************************************************************************)
(* agent/collector.py: the metrics buffer of the Kubernetes agent, the     *)
(* thread that fills and flushes it (MetricsCollector.run), and the main   *)
(* thread that stops the collector and flushes it a last time (stop).      *)
(*                                                                         *)
(* Metrics are numbered in the order they are collected.  buffer_lock is   *)
(* held while a batch is posted, so a flush is two steps: the thread takes *)
(* the lock and a copy of the head of the buffer, and later the POST ends. *)
(* The backend endpoint /api/v1/metrics/batch is not part of the           *)
(* repository: it is modelled by what the agent can observe of it.         *)
(***************************************************************************)
EXTENDS Naturals, Sequences

CONSTANTS
    BatchSize,    \* BATCH_SIZE
    MaxPerCycle,  \* bound: metrics found by one collection cycle
    MaxMetrics    \* bound: metrics collected in a behaviour

ASSUME BatchSizeAssumption == BatchSize \in Nat \ {0}
ASSUME BoundsAssumption == MaxPerCycle \in Nat /\ MaxMetrics \in Nat

VARIABLES
    running,     \* self.running
    buffer,      \* self.metrics_buffer
    lock,        \* owner of self.buffer_lock
    pc,          \* where each thread is
    collected,   \* metrics collected so far
    cycle,       \* all_metrics: collected in this cycle, not yet buffered
    inflight,    \* metrics_to_send of the flush each thread is in
    accepted,    \* metrics the backend has stored
    backendUp    \* whether the backend answers

vars == <<running, buffer, lock, pc, collected, cycle, inflight, accepted,
          backendUp>>

Threads == {"collector", "main"}
Free == "free"
Metrics == 1 .. MaxMetrics
CollectorPCs == {"new", "loop", "collect", "add", "flush", "post", "done"}
MainPCs == {"monitor", "flush", "post", "stopped"}

Elements(s) == {s[i] : i \in DOMAIN s}

Init ==
    /\ running = FALSE
    /\ buffer = <<>>
    /\ lock = Free
    /\ pc = [t \in Threads |-> IF t = "collector" THEN "new" ELSE "monitor"]
    /\ collected = 0
    /\ cycle = <<>>
    /\ inflight = [t \in Threads |-> <<>>]
    /\ accepted = {}
    /\ backendUp \in BOOLEAN

\* Entering `with self.buffer_lock'.
LockFreeMutant == TRUE  \* mutant: no lock
LockFree == lock = Free

-----------------------------------------------------------------------------
\* MetricsCollector.run

\* The thread begins: run() sets the flag that its loop tests.
RunBegin ==
    /\ pc["collector"] = "new"
    /\ running' = TRUE
    /\ pc' = [pc EXCEPT !["collector"] = "loop"]
    /\ UNCHANGED <<buffer, lock, collected, cycle, inflight, accepted,
                   backendUp>>

\* The three collect_* calls: each returns what it found before an API error,
\* if any, so a cycle yields any number of metrics, none included.
Collect ==
    /\ pc["collector"] = "collect"
    /\ \E n \in 0 .. MaxPerCycle :
          /\ collected + n <= MaxMetrics
          /\ collected' = collected + n
          /\ cycle' = [i \in 1 .. n |-> collected + i]
    /\ pc' = [pc EXCEPT !["collector"] = "add"]
    /\ UNCHANGED <<running, buffer, lock, inflight, accepted, backendUp>>

AddToBuffer ==
    /\ pc["collector"] = "add"
    /\ LockFree
    /\ buffer' = buffer \o cycle
    /\ cycle' = <<>>
    /\ pc' = [pc EXCEPT !["collector"] = "flush"]
    /\ UNCHANGED <<running, lock, collected, inflight, accepted, backendUp>>

\* Mutant: `while True'.
LoopTestMutant ==
    /\ pc["collector"] = "loop"
    /\ pc' = [pc EXCEPT !["collector"] = "collect"]
    /\ UNCHANGED <<running, buffer, lock, collected, cycle, inflight,
                   accepted, backendUp>>

\* `while self.running', reached at once from RunBegin and after the sleep of
\* collection_interval that ends a cycle.
LoopTest ==
    /\ pc["collector"] = "loop"
    /\ pc' = [pc EXCEPT !["collector"] = IF running THEN "collect" ELSE "done"]
    /\ UNCHANGED <<running, buffer, lock, collected, cycle, inflight,
                   accepted, backendUp>>

-----------------------------------------------------------------------------
\* MetricsCollector.flush_buffer, called by either thread

AfterFlush(t) == IF t = "collector" THEN "loop" ELSE "stopped"

BatchLen == IF Len(buffer) < BatchSize THEN Len(buffer) ELSE BatchSize

HeadBatchMutant == buffer  \* mutant: posts the whole buffer, drops a batch
HeadBatch == SubSeq(buffer, 1, BatchLen)

RestAfterBatch == SubSeq(buffer, BatchLen + 1, Len(buffer))

FlushEmpty(t) ==
    /\ pc[t] = "flush"
    /\ LockFree
    /\ buffer = <<>>
    /\ pc' = [pc EXCEPT ![t] = AfterFlush(t)]
    /\ UNCHANGED <<running, buffer, lock, collected, cycle, inflight,
                   accepted, backendUp>>

FlushBegin(t) ==
    /\ pc[t] = "flush"
    /\ LockFree
    /\ buffer # <<>>
    /\ lock' = t
    /\ inflight' = [inflight EXCEPT ![t] = HeadBatch]
    /\ pc' = [pc EXCEPT ![t] = "post"]
    /\ UNCHANGED <<running, buffer, collected, cycle, accepted, backendUp>>

\* Mutant: the lock stays taken when the POST fails.
FlushEndMutant(t) ==
    /\ pc[t] = "post"
    /\ lock' = IF backendUp THEN Free ELSE lock
    /\ inflight' = [inflight EXCEPT ![t] = <<>>]
    /\ pc' = [pc EXCEPT ![t] = AfterFlush(t)]
    /\ UNCHANGED <<running, collected, cycle, backendUp>>

\* The end of the POST, on which the thread leaves flush_buffer and the lock.
FlushEnd(t) ==
    /\ pc[t] = "post"
    /\ lock' = Free
    /\ inflight' = [inflight EXCEPT ![t] = <<>>]
    /\ pc' = [pc EXCEPT ![t] = AfterFlush(t)]
    /\ UNCHANGED <<running, collected, cycle, backendUp>>

\* A 2xx answer: the first batch_size entries leave the buffer.
FlushOk(t) ==
    /\ FlushEnd(t)
    /\ backendUp
    /\ accepted' = accepted \cup Elements(inflight[t])
    /\ buffer' = RestAfterBatch

KeptOnFailure == buffer

\* A RequestException.  After a timeout the batch may have been stored.
FlushFailed(t) ==
    /\ FlushEnd(t)
    /\ ~backendUp
    /\ \/ UNCHANGED accepted
       \/ accepted' = accepted \cup Elements(inflight[t])
    /\ buffer' = KeptOnFailure

-----------------------------------------------------------------------------
\* MetricsCollector.stop, called by the main thread

Stop ==
    /\ pc["main"] = "monitor"
    /\ running' = FALSE
    /\ pc' = [pc EXCEPT !["main"] = "flush"]
    /\ UNCHANGED <<buffer, lock, collected, cycle, inflight, accepted,
                   backendUp>>

-----------------------------------------------------------------------------
\* The backend (external)

BackendToggle ==
    /\ backendUp' = ~backendUp
    /\ UNCHANGED <<running, buffer, lock, pc, collected, cycle, inflight,
                   accepted>>

Flush(t) == FlushEmpty(t) \/ FlushBegin(t) \/ FlushOk(t) \/ FlushFailed(t)

Collector ==
    RunBegin \/ Collect \/ AddToBuffer \/ LoopTest \/ Flush("collector")

Main == Stop \/ Flush("main")

Next == Collector \/ Main \/ BackendToggle

Spec == Init /\ [][Next]_vars

\* Both threads are scheduled, and a POST ends (its timeout is 30 s); nothing
\* obliges the main thread to stop the collector.
Fairness == WF_vars(Collector) /\ WF_vars(Flush("main"))

FairSpec == Spec /\ Fairness
-----------------------------------------------------------------------------
TypeOK ==
    /\ running \in BOOLEAN
    /\ buffer \in Seq(Metrics)
    /\ lock \in Threads \cup {Free}
    /\ pc \in [Threads -> CollectorPCs \cup MainPCs]
    /\ pc["collector"] \in CollectorPCs /\ pc["main"] \in MainPCs
    /\ collected \in 0 .. MaxMetrics
    /\ cycle \in Seq(Metrics)
    /\ inflight \in [Threads -> Seq(Metrics)]
    /\ accepted \subseteq Metrics
    /\ backendUp \in BOOLEAN

\* No metric is lost while the process lives: whatever was put in the buffer
\* is in the backend or still in the buffer (flush_buffer keeps a batch whose
\* POST failed, whichever of the two threads flushes).
NoMetricLost ==
    1 .. collected = accepted \cup Elements(buffer) \cup Elements(cycle)

\* The backend never holds a metric without all the earlier ones: the two
\* threads that flush cannot reorder batches.
AcceptedInOrder == \E k \in 0 .. MaxMetrics : accepted = 1 .. k

\* What the backend holds and the agent will post again, because the POST that
\* stored it looked failed, is never more than the next batch.
DuplicatesWithinNextBatch ==
    \A i \in DOMAIN buffer : buffer[i] \in accepted => i <= BatchSize

\* If the backend stays up and nobody stops the collector, every collected
\* metric is stored: a failed batch does not block the buffer forever.
EventuallyDelivered ==
    <>[](backendUp /\ pc["main"] = "monitor")
        => \A m \in Metrics : [](collected >= m => <>(m \in accepted))

\* Once stop() reaches a collector that is already in its loop, the thread
\* ends, whatever it was doing.
StopEndsLoop ==
    (pc["collector"] # "new" /\ ~running) ~> (pc["collector"] = "done")

\* Metrics put in the buffer so far, those that have left it, and the number
\* of metrics the backend stores.
Added == collected - Len(cycle)
Acked == Added - Len(buffer)
StoredCount == CHOOSE k \in 0 .. MaxMetrics : accepted = 1 .. k

Delivery ==
    INSTANCE MetricsDelivery WITH
        produced <- Added, stored <- StoredCount, acked <- Acked

\* The two threads, the buffer and the lock implement an in-order
\* at-least-once channel whose doubt is one batch wide.
ImplementsDelivery == Delivery!Spec
=============================================================================
