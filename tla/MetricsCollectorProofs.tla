----------------------- MODULE MetricsCollectorProofs -----------------------
(***************************************************************************)
(* Proofs about MetricsCollector for every batch size and every bound.     *)
(*                                                                         *)
(* None of the invariants the runs check is inductive: that no metric is   *)
(* lost when a batch is dropped needs to know that the batch on the wire   *)
(* is the head of the buffer, which needs the lock, and that the buffer    *)
(* holds consecutive metrics.  IInv adds those facts.                      *)
(***************************************************************************)
EXTENDS MetricsCollector, SequenceTheorems, TLAPS

\* The batch a thread has on the wire is the current head of the buffer, so
\* the slice dropped on success is the slice that was posted.
PostedIsHead ==
    \A t \in Threads :
        pc[t] = "post" =>
            /\ inflight[t] # <<>>
            /\ Len(inflight[t]) <= Len(buffer)
            /\ \A i \in 1 .. Len(inflight[t]) : inflight[t][i] = buffer[i]

Consecutive(s, base) == \A i \in 1 .. Len(s) : s[i] = base + i

CountsOK == Len(buffer) + Len(cycle) <= collected

BufferConsecutive == Consecutive(buffer, Acked)

CycleConsecutive == Consecutive(cycle, Added)

CycleOnlyWhileAdding == pc["collector"] # "add" => cycle = <<>>

LockHeldWhilePosting == \A t \in Threads : pc[t] = "post" <=> lock = t

InflightIsHeadBatch ==
    \A t \in Threads : pc[t] = "post" => buffer # <<>> /\ inflight[t] = HeadBatch

StoredUpTo(k) ==
    /\ accepted = 1 .. k
    /\ Acked <= k
    /\ k <= Added
    /\ k <= Acked + BatchSize

StoredIsPrefix == \E k \in 0 .. collected : StoredUpTo(k)

IInv ==
    /\ TypeOK
    /\ CountsOK
    /\ BufferConsecutive
    /\ CycleConsecutive
    /\ CycleOnlyWhileAdding
    /\ LockHeldWhilePosting
    /\ InflightIsHeadBatch
    /\ StoredIsPrefix
-----------------------------------------------------------------------------
\* What the slices of flush_buffer contain: the batch is the first BatchLen
\* entries of the buffer, the rest is everything after them.
LEMMA SliceFacts ==
    ASSUME TypeOK
    PROVE  /\ BatchLen \in Nat
           /\ BatchLen <= Len(buffer)
           /\ BatchLen <= BatchSize
           /\ buffer # <<>> => BatchLen > 0
           /\ HeadBatch \in Seq(Metrics)
           /\ Len(HeadBatch) = BatchLen
           /\ \A i \in 1 .. BatchLen : HeadBatch[i] = buffer[i]
           /\ RestAfterBatch \in Seq(Metrics)
           /\ Len(RestAfterBatch) = Len(buffer) - BatchLen
           /\ \A i \in 1 .. Len(RestAfterBatch) :
                 RestAfterBatch[i] = buffer[BatchLen + i]
<1>1. buffer \in Seq(Metrics) /\ Len(buffer) \in Nat
  BY DEF TypeOK
<1>2. /\ BatchLen \in Nat
      /\ BatchLen <= Len(buffer)
      /\ BatchLen <= BatchSize
      /\ buffer # <<>> => BatchLen > 0
  BY <1>1, BatchSizeAssumption DEF BatchLen
<1>3. \A i \in 1 .. Len(buffer) : buffer[i] \in Metrics
  BY <1>1
<1>4. /\ HeadBatch \in Seq(Metrics)
      /\ Len(HeadBatch) = BatchLen
      /\ \A i \in 1 .. BatchLen : HeadBatch[i] = buffer[i]
  BY <1>1, <1>2, <1>3 DEF HeadBatch
<1>5. /\ RestAfterBatch \in Seq(Metrics)
      /\ Len(RestAfterBatch) = Len(buffer) - BatchLen
      /\ \A i \in 1 .. Len(RestAfterBatch) :
            RestAfterBatch[i] = buffer[BatchLen + i]
  BY <1>1, <1>2, <1>3 DEF RestAfterBatch
<1>6. QED
  BY <1>2, <1>4, <1>5

\* The elements of a sequence of consecutive metrics form an interval.
LEMMA ConsecutiveElements ==
    ASSUME NEW s \in Seq(Metrics), NEW base \in Nat, Consecutive(s, base)
    PROVE  Elements(s) = base + 1 .. base + Len(s)
<1>1. DOMAIN s = 1 .. Len(s) /\ Len(s) \in Nat
  OBVIOUS
<1>2. ASSUME NEW m \in base + 1 .. base + Len(s)
      PROVE  m \in Elements(s)
  <2>1. m - base \in 1 .. Len(s) /\ s[m - base] = m
    BY <1>1, <1>2 DEF Consecutive
  <2>2. QED
    BY <1>1, <2>1 DEF Elements
<1>3. QED
  BY <1>1, <1>2 DEF Elements, Consecutive
-----------------------------------------------------------------------------
LEMMA InitIInv == Init => IInv
<1> SUFFICES ASSUME Init PROVE IInv
  OBVIOUS
<1>1. TypeOK
  <2>1. pc \in [Threads -> CollectorPCs \cup MainPCs]
    BY DEF Init, Threads, CollectorPCs, MainPCs
  <2>2. pc["collector"] \in CollectorPCs /\ pc["main"] \in MainPCs
    BY DEF Init, Threads, CollectorPCs, MainPCs
  <2>3. <<>> \in Seq(Metrics)
    OBVIOUS
  <2>4. inflight \in [Threads -> Seq(Metrics)]
    BY <2>3, Zenon DEF Init
  <2>5. /\ running \in BOOLEAN /\ lock \in Threads \cup {Free}
        /\ collected \in 0 .. MaxMetrics
        /\ accepted \subseteq Metrics /\ backendUp \in BOOLEAN
    <3>1. lock \in Threads \cup {Free}
      BY DEF Init
    <3>2. 0 \in 0 .. MaxMetrics
      BY BoundsAssumption
    <3>3. QED
      BY <3>1, <3>2 DEF Init
  <2>6. buffer \in Seq(Metrics) /\ cycle \in Seq(Metrics)
    BY <2>3 DEF Init
  <2>7. QED
    BY <2>1, <2>2, <2>4, <2>5, <2>6 DEF TypeOK
<1>2. /\ CountsOK
      /\ BufferConsecutive
      /\ CycleConsecutive
      /\ CycleOnlyWhileAdding
      /\ LockHeldWhilePosting
      /\ InflightIsHeadBatch
  BY DEF Init, CountsOK, BufferConsecutive, CycleConsecutive, Consecutive,
         CycleOnlyWhileAdding, LockHeldWhilePosting, InflightIsHeadBatch,
         Threads, Free
<1>3. StoredUpTo(0)
  BY BatchSizeAssumption DEF Init, StoredUpTo, Acked, Added
<1>4. StoredIsPrefix
  BY <1>3 DEF StoredIsPrefix, Init
<1>5. QED
  BY <1>1, <1>2, <1>4 DEF IInv

\* A step that leaves the counts, the buffer, the cycle, the copies on the
\* wire and the backend alone, and moves no thread into or out of a POST.
LEMMA QuietStep ==
    ASSUME IInv, TypeOK',
           UNCHANGED <<buffer, lock, collected, cycle, inflight, accepted>>,
           \A t \in Threads : pc'[t] = "post" <=> pc[t] = "post",
           pc'["collector"] # "add" => cycle = <<>>
    PROVE  IInv'
<1>1. (CountsOK /\ BufferConsecutive /\ CycleConsecutive)'
  BY DEF IInv, CountsOK, BufferConsecutive, CycleConsecutive, Consecutive,
         Acked, Added
<1>2. (CycleOnlyWhileAdding /\ LockHeldWhilePosting)'
  BY DEF IInv, CycleOnlyWhileAdding, LockHeldWhilePosting
<1>3. InflightIsHeadBatch'
  BY DEF IInv, InflightIsHeadBatch, HeadBatch, BatchLen
<1>4. StoredIsPrefix'
  BY DEF IInv, StoredIsPrefix, StoredUpTo, Acked, Added
<1>5. QED
  BY <1>1, <1>2, <1>3, <1>4 DEF IInv

LEMMA RunBeginStep == IInv /\ RunBegin => IInv'
<1> SUFFICES ASSUME IInv, RunBegin PROVE IInv'
  OBVIOUS
<1>1. TypeOK'
  BY DEF IInv, TypeOK, RunBegin, Threads, CollectorPCs, MainPCs
<1>2. QED
  BY <1>1, QuietStep DEF IInv, TypeOK, CycleOnlyWhileAdding, RunBegin, Threads

LEMMA LoopTestStep == IInv /\ LoopTest => IInv'
<1> SUFFICES ASSUME IInv, LoopTest PROVE IInv'
  OBVIOUS
<1>1. TypeOK'
  BY DEF IInv, TypeOK, LoopTest, Threads, CollectorPCs, MainPCs
<1>2. QED
  BY <1>1, QuietStep DEF IInv, TypeOK, CycleOnlyWhileAdding, LoopTest, Threads

LEMMA FlushEmptyStep ==
    ASSUME IInv, NEW t \in Threads, FlushEmpty(t) PROVE IInv'
<1>1. TypeOK'
  BY DEF IInv, TypeOK, FlushEmpty, AfterFlush, Threads, CollectorPCs, MainPCs
<1>2. QED
  BY <1>1, QuietStep
  DEF IInv, TypeOK, CycleOnlyWhileAdding, FlushEmpty, AfterFlush, Threads

LEMMA StopStep == IInv /\ Stop => IInv'
<1> SUFFICES ASSUME IInv, Stop PROVE IInv'
  OBVIOUS
<1>1. TypeOK'
  BY DEF IInv, TypeOK, Stop, Threads, CollectorPCs, MainPCs
<1>2. QED
  BY <1>1, QuietStep DEF IInv, TypeOK, CycleOnlyWhileAdding, Stop, Threads

LEMMA BackendToggleStep == IInv /\ BackendToggle => IInv'
<1> SUFFICES ASSUME IInv, BackendToggle PROVE IInv'
  OBVIOUS
<1>1. TypeOK'
  BY DEF IInv, TypeOK, BackendToggle
<1>2. QED
  BY <1>1, QuietStep DEF IInv, CycleOnlyWhileAdding, BackendToggle
LEMMA CollectStep == IInv /\ Collect => IInv'
<1> SUFFICES ASSUME IInv, Collect PROVE IInv'
  OBVIOUS
<1>1. cycle = <<>> /\ pc["collector"] = "collect" /\ TypeOK
  BY DEF IInv, CycleOnlyWhileAdding, Collect
<1>2. PICK n \in 0 .. MaxPerCycle :
         /\ collected + n <= MaxMetrics
         /\ collected' = collected + n
         /\ cycle' = [i \in 1 .. n |-> collected + i]
  BY DEF Collect
<1>3. n \in Nat /\ collected \in Nat /\ collected' \in 0 .. MaxMetrics
  BY <1>1, <1>2, BoundsAssumption DEF TypeOK
<1>4. cycle' \in Seq(Metrics) /\ Len(cycle') = n /\ Len(cycle) = 0
  <2>1. \A i \in 1 .. n : collected + i \in Metrics
    BY <1>2, <1>3, BoundsAssumption DEF Metrics
  <2>2. QED
    BY <1>1, <1>2, <1>3, <2>1
<1>5. TypeOK'
  BY <1>1, <1>3, <1>4 DEF TypeOK, Collect, Threads, CollectorPCs, MainPCs
<1>6. Len(buffer) \in Nat /\ buffer' = buffer
  BY <1>1 DEF TypeOK, Collect
<1>7. Added' = Added /\ Acked' = Acked /\ Added = collected
  BY <1>2, <1>3, <1>4, <1>6 DEF Added, Acked
<1>8. (CountsOK /\ BufferConsecutive /\ CycleConsecutive)'
  BY <1>2, <1>3, <1>4, <1>6, <1>7
  DEF IInv, CountsOK, BufferConsecutive, CycleConsecutive, Consecutive
<1>9. (CycleOnlyWhileAdding /\ LockHeldWhilePosting)'
  BY <1>1 DEF IInv, CycleOnlyWhileAdding, LockHeldWhilePosting, Collect,
              Threads, TypeOK
<1>10. InflightIsHeadBatch'
  BY <1>1 DEF IInv, InflightIsHeadBatch, HeadBatch, BatchLen, Collect, Threads,
              TypeOK
<1>11. StoredIsPrefix'
  BY <1>2, <1>3, <1>7 DEF IInv, StoredIsPrefix, StoredUpTo, Collect
<1>12. QED
  BY <1>5, <1>8, <1>9, <1>10, <1>11 DEF IInv

LEMMA AddToBufferStep == IInv /\ AddToBuffer => IInv'
<1> SUFFICES ASSUME IInv, AddToBuffer PROVE IInv'
  OBVIOUS
<1>1. /\ TypeOK
      /\ lock = Free
      /\ buffer' = buffer \o cycle
      /\ cycle' = <<>>
      /\ collected' = collected
  BY DEF IInv, AddToBuffer, LockFree
<1>2. /\ buffer \in Seq(Metrics) /\ Len(buffer) \in Nat
      /\ cycle \in Seq(Metrics) /\ Len(cycle) \in Nat
      /\ collected \in Nat
  BY <1>1, BoundsAssumption DEF TypeOK
<1>3. /\ buffer' \in Seq(Metrics)
      /\ Len(buffer') = Len(buffer) + Len(cycle)
      /\ cycle' \in Seq(Metrics) /\ Len(cycle') = 0
  BY <1>1, <1>2
<1>4. TypeOK'
  BY <1>1, <1>3 DEF TypeOK, AddToBuffer, Threads, CollectorPCs, MainPCs
<1>5. Added' = collected /\ Acked' = Acked /\ Added <= Added'
  BY <1>1, <1>2, <1>3 DEF Added, Acked
<1>6. CountsOK'
  BY <1>1, <1>2, <1>3 DEF IInv, CountsOK
<1>7. BufferConsecutive'
  <2>1. ASSUME NEW i \in 1 .. Len(buffer') PROVE buffer'[i] = Acked + i
    <3>1. CASE i <= Len(buffer)
      BY <1>1, <1>2, <1>3, <3>1 DEF IInv, BufferConsecutive, Consecutive
    <3>2. CASE i > Len(buffer)
      <4>1. i - Len(buffer) \in 1 .. Len(cycle)
        BY <1>2, <1>3, <3>2
      <4>2. buffer'[i] = cycle[i - Len(buffer)]
        BY <1>1, <1>2, <1>3, <3>2, <4>1
      <4>3. cycle[i - Len(buffer)] = Added + (i - Len(buffer))
        BY <4>1 DEF IInv, CycleConsecutive, Consecutive
      <4>4. QED
        BY <1>2, <4>2, <4>3 DEF Acked, Added
    <3>3. QED
      BY <1>2, <1>3, <3>1, <3>2
  <2>2. QED
    BY <1>5, <2>1 DEF BufferConsecutive, Consecutive
<1>8. CycleConsecutive'
  BY <1>3 DEF CycleConsecutive, Consecutive
<1>9. (CycleOnlyWhileAdding /\ LockHeldWhilePosting)'
  BY <1>1 DEF IInv, CycleOnlyWhileAdding, LockHeldWhilePosting, AddToBuffer,
              Threads, TypeOK
<1>10. InflightIsHeadBatch'
  BY <1>1 DEF IInv, InflightIsHeadBatch, LockHeldWhilePosting, AddToBuffer,
              Threads, TypeOK, Free
<1>11. StoredIsPrefix'
  BY <1>1, <1>2, <1>5 DEF IInv, StoredIsPrefix, StoredUpTo, AddToBuffer, Added
<1>12. QED
  BY <1>4, <1>6, <1>7, <1>8, <1>9, <1>10, <1>11 DEF IInv

LEMMA FlushBeginStep ==
    ASSUME IInv, NEW t \in Threads, FlushBegin(t) PROVE IInv'
<1>1. TypeOK /\ lock = Free /\ buffer # <<>> /\ lock' = t
  BY DEF IInv, FlushBegin, LockFree
<1>2. HeadBatch \in Seq(Metrics)
  BY <1>1, SliceFacts
<1>3. TypeOK'
  BY <1>1, <1>2 DEF TypeOK, FlushBegin, Threads, CollectorPCs, MainPCs
<1>4. (CountsOK /\ BufferConsecutive /\ CycleConsecutive /\ StoredIsPrefix)'
  BY DEF IInv, FlushBegin, CountsOK, BufferConsecutive, CycleConsecutive,
         Consecutive, StoredIsPrefix, StoredUpTo, Acked, Added
<1>5. (CycleOnlyWhileAdding /\ LockHeldWhilePosting)'
  BY <1>1 DEF IInv, CycleOnlyWhileAdding, LockHeldWhilePosting, FlushBegin,
              Threads, TypeOK, Free
<1>6. InflightIsHeadBatch'
  BY <1>1 DEF IInv, InflightIsHeadBatch, HeadBatch, BatchLen, FlushBegin,
              LockHeldWhilePosting, Threads, TypeOK, Free
<1>7. QED
  BY <1>3, <1>4, <1>5, <1>6 DEF IInv
\* What every end of a POST has in common.
LEMMA FlushEndFacts ==
    ASSUME IInv, NEW t \in Threads, FlushEnd(t)
    PROVE  /\ TypeOK /\ buffer # <<>> /\ inflight[t] = HeadBatch
           /\ HeadBatch \in Seq(Metrics)
           /\ Elements(HeadBatch) = Acked + 1 .. Acked + BatchLen
           /\ Acked \in Nat /\ Added \in Nat /\ Acked + Len(buffer) = Added
           /\ (CycleOnlyWhileAdding /\ LockHeldWhilePosting)'
           /\ InflightIsHeadBatch'
           /\ lock' \in Threads \cup {Free}
           /\ pc' \in [Threads -> CollectorPCs \cup MainPCs]
           /\ pc'["collector"] \in CollectorPCs /\ pc'["main"] \in MainPCs
           /\ inflight' \in [Threads -> Seq(Metrics)]
<1>1. TypeOK /\ pc[t] = "post" /\ lock = t /\ inflight[t] = HeadBatch
      /\ buffer # <<>>
  BY DEF IInv, FlushEnd, LockHeldWhilePosting, InflightIsHeadBatch
<1>2. /\ Len(buffer) \in Nat /\ Len(cycle) \in Nat /\ collected \in Nat
  BY <1>1, BoundsAssumption DEF TypeOK
<1>3. Acked \in Nat /\ Added \in Nat /\ Acked + Len(buffer) = Added
  BY <1>2 DEF IInv, CountsOK, Acked, Added
<1>4. Consecutive(HeadBatch, Acked)
  <2>1. \A i \in 1 .. Len(buffer) : buffer[i] = Acked + i
    BY DEF IInv, BufferConsecutive, Consecutive
  <2>2. /\ BatchLen \in Nat /\ BatchLen <= Len(buffer)
        /\ Len(HeadBatch) = BatchLen
        /\ \A i \in 1 .. BatchLen : HeadBatch[i] = buffer[i]
    BY <1>1, SliceFacts
  <2>3. ASSUME NEW i \in 1 .. BatchLen PROVE HeadBatch[i] = Acked + i
    <3>1. i \in 1 .. Len(buffer)
      BY <1>2, <2>2
    <3>2. QED
      BY <2>1, <2>2, <3>1
  <2>4. QED
    BY <2>2, <2>3 DEF Consecutive
<1>5. Elements(HeadBatch) = Acked + 1 .. Acked + BatchLen
  BY <1>1, <1>3, <1>4, SliceFacts, ConsecutiveElements
<1>6. (CycleOnlyWhileAdding /\ LockHeldWhilePosting)'
  BY <1>1 DEF IInv, CycleOnlyWhileAdding, LockHeldWhilePosting, FlushEnd,
              AfterFlush, Threads, TypeOK, Free
<1>7. InflightIsHeadBatch'
  BY <1>1 DEF IInv, InflightIsHeadBatch, LockHeldWhilePosting, FlushEnd,
              AfterFlush, Threads, TypeOK, Free
<1>8. /\ lock' \in Threads \cup {Free}
      /\ pc' \in [Threads -> CollectorPCs \cup MainPCs]
      /\ pc'["collector"] \in CollectorPCs /\ pc'["main"] \in MainPCs
      /\ inflight' \in [Threads -> Seq(Metrics)]
  BY <1>1 DEF FlushEnd, AfterFlush, Threads, TypeOK, CollectorPCs, MainPCs
<1>9. QED
  BY <1>1, <1>3, <1>5, <1>6, <1>7, <1>8, SliceFacts

LEMMA FlushOkStep ==
    ASSUME IInv, NEW t \in Threads, FlushOk(t) PROVE IInv'
<1>1. FlushEnd(t) /\ TypeOK /\ buffer' = RestAfterBatch
      /\ UNCHANGED <<collected, cycle>>
  BY DEF IInv, FlushOk, FlushEnd
<1>2. /\ Len(buffer) \in Nat /\ Len(cycle) \in Nat /\ collected \in Nat
      /\ BatchLen \in Nat /\ BatchLen <= Len(buffer) /\ BatchLen <= BatchSize
      /\ BatchSize \in Nat
  BY <1>1, SliceFacts, BoundsAssumption, BatchSizeAssumption DEF TypeOK
<1>3. Len(buffer') = Len(buffer) - BatchLen /\ buffer' \in Seq(Metrics)
  BY <1>1, SliceFacts
<1>4. Added' = Added /\ Acked' = Acked + BatchLen
  BY <1>1, <1>2, <1>3 DEF Added, Acked
<1>5. /\ Acked \in Nat /\ Added \in Nat /\ Acked + Len(buffer) = Added
      /\ Elements(inflight[t]) = Acked + 1 .. Acked + BatchLen
  BY <1>1, FlushEndFacts
<1>6. PICK k \in 0 .. collected : StoredUpTo(k)
  BY DEF IInv, StoredIsPrefix
<1>7. DEFINE top == IF k > Acked + BatchLen THEN k ELSE Acked + BatchLen
<1>8. accepted' = 1 .. top
  <2>1. accepted' = 1 .. k \cup Acked + 1 .. Acked + BatchLen
    BY <1>5, <1>6 DEF FlushOk, StoredUpTo
  <2>2. k \in Nat /\ Acked <= k
    BY <1>2, <1>6 DEF StoredUpTo
  <2>3. QED
    BY <1>2, <1>5, <2>1, <2>2
<1>9. /\ top \in 0 .. collected /\ Acked' <= top /\ top <= Added
      /\ top <= Acked' + BatchSize
  BY <1>2, <1>4, <1>5, <1>6 DEF StoredUpTo, Added
<1>10. StoredIsPrefix'
  BY <1>1, <1>4, <1>8, <1>9 DEF StoredIsPrefix, StoredUpTo
<1>11. accepted' \subseteq Metrics
  BY <1>1, <1>2, <1>8, <1>9, BoundsAssumption DEF TypeOK, Metrics
<1>12. TypeOK'
  BY <1>1, <1>3, <1>11, FlushEndFacts DEF TypeOK, FlushOk, FlushEnd
<1>13. CountsOK'
  BY <1>1, <1>2, <1>3 DEF IInv, CountsOK
<1>14. BufferConsecutive'
  <2>1. ASSUME NEW i \in 1 .. Len(buffer') PROVE buffer'[i] = Acked' + i
    <3>1. buffer'[i] = buffer[BatchLen + i]
      BY <1>1, SliceFacts
    <3>2. BatchLen + i \in 1 .. Len(buffer)
      BY <1>2, <1>3
    <3>3. QED
      BY <1>2, <1>4, <1>5, <3>1, <3>2 DEF IInv, BufferConsecutive, Consecutive
  <2>2. QED
    BY <2>1 DEF BufferConsecutive, Consecutive
<1>15. CycleConsecutive'
  BY <1>1, <1>4 DEF IInv, CycleConsecutive, Consecutive
<1>16. QED
  BY <1>1, <1>10, <1>12, <1>13, <1>14, <1>15, FlushEndFacts DEF IInv

LEMMA FlushFailedStep ==
    ASSUME IInv, NEW t \in Threads, FlushFailed(t) PROVE IInv'
<1>1. FlushEnd(t) /\ TypeOK /\ UNCHANGED <<buffer, collected, cycle>>
  BY DEF IInv, FlushFailed, FlushEnd, KeptOnFailure
<1>2. /\ Len(buffer) \in Nat /\ Len(cycle) \in Nat /\ collected \in Nat
      /\ BatchLen \in Nat /\ BatchLen <= Len(buffer) /\ BatchLen <= BatchSize
      /\ BatchSize \in Nat
  BY <1>1, SliceFacts, BoundsAssumption, BatchSizeAssumption DEF TypeOK
<1>3. Added' = Added /\ Acked' = Acked
  BY <1>1 DEF Added, Acked
<1>4. /\ Acked \in Nat /\ Added \in Nat /\ Acked + Len(buffer) = Added
      /\ Elements(inflight[t]) = Acked + 1 .. Acked + BatchLen
  BY <1>1, FlushEndFacts
<1>5. PICK k \in 0 .. collected : StoredUpTo(k)
  BY DEF IInv, StoredIsPrefix
<1>6. DEFINE top == IF k > Acked + BatchLen THEN k ELSE Acked + BatchLen
<1>7. accepted' = 1 .. k \/ accepted' = 1 .. top
  <2>1. CASE UNCHANGED accepted
    BY <1>5, <2>1 DEF StoredUpTo
  <2>2. CASE accepted' = accepted \cup Elements(inflight[t])
    <3>1. accepted' = 1 .. k \cup Acked + 1 .. Acked + BatchLen
      BY <1>4, <1>5, <2>2 DEF StoredUpTo
    <3>2. k \in Nat /\ Acked <= k
      BY <1>2, <1>5 DEF StoredUpTo
    <3>3. QED
      BY <1>2, <1>4, <3>1, <3>2
  <2>3. QED
    BY <2>1, <2>2 DEF FlushFailed
<1>8. /\ top \in 0 .. collected /\ Acked <= top /\ top <= Added
      /\ top <= Acked + BatchSize
  BY <1>2, <1>4, <1>5 DEF StoredUpTo, Added
<1>9. StoredIsPrefix'
  <2>1. CASE accepted' = 1 .. k
    BY <1>1, <1>3, <1>5, <2>1 DEF StoredIsPrefix, StoredUpTo
  <2>2. CASE accepted' = 1 .. top
    BY <1>1, <1>3, <1>8, <2>2 DEF StoredIsPrefix, StoredUpTo
  <2>3. QED
    BY <1>7, <2>1, <2>2
<1>10. accepted' \subseteq Metrics
  BY <1>1, <1>2, <1>5, <1>7, <1>8, BoundsAssumption DEF TypeOK, Metrics
<1>11. TypeOK'
  BY <1>1, <1>10, FlushEndFacts DEF TypeOK, FlushFailed, FlushEnd
<1>12. (CountsOK /\ BufferConsecutive /\ CycleConsecutive)'
  BY <1>1, <1>3
  DEF IInv, CountsOK, BufferConsecutive, CycleConsecutive, Consecutive
<1>13. QED
  BY <1>1, <1>9, <1>11, <1>12, FlushEndFacts DEF IInv
-----------------------------------------------------------------------------
\* IInv is inductive: one case per action of Next.
LEMMA NextIInv == IInv /\ [Next]_vars => IInv'
<1> SUFFICES ASSUME IInv, [Next]_vars PROVE IInv'
  OBVIOUS
<1>1. CASE RunBegin
  BY <1>1, RunBeginStep
<1>2. CASE Collect
  BY <1>2, CollectStep
<1>3. CASE AddToBuffer
  BY <1>3, AddToBufferStep
<1>4. CASE LoopTest
  BY <1>4, LoopTestStep
<1>5. ASSUME NEW t \in Threads, Flush(t) PROVE IInv'
  BY <1>5, FlushEmptyStep, FlushBeginStep, FlushOkStep, FlushFailedStep
  DEF Flush
<1>6. CASE Stop
  BY <1>6, StopStep
<1>7. CASE BackendToggle
  BY <1>7, BackendToggleStep
<1>8. CASE UNCHANGED vars
  <2>1. TypeOK'
    BY <1>8 DEF IInv, TypeOK, vars
  <2>2. QED
    BY <1>8, <2>1, QuietStep DEF vars, IInv, CycleOnlyWhileAdding
<1>9. QED
  BY <1>1, <1>2, <1>3, <1>4, <1>5, <1>6, <1>7, <1>8
  DEF Next, Collector, Main, Threads

LEMMA SpecIInv == Spec => []IInv
<1>1. QED
  BY InitIInv, NextIInv, PTL DEF Spec

\* Every variable of the collector has its type in every reachable state.
THEOREM TypeCorrect == Spec => []TypeOK
<1>1. IInv => TypeOK
  BY DEF IInv
<1>2. QED
  BY <1>1, SpecIInv, PTL

LEMMA IInvFacts ==
    ASSUME IInv
    PROVE  /\ Acked \in Nat /\ Added \in Nat
           /\ Acked + Len(buffer) = Added /\ Added + Len(cycle) = collected
           /\ Len(buffer) \in Nat /\ Len(cycle) \in Nat /\ collected \in Nat
           /\ Elements(buffer) = Acked + 1 .. Added
           /\ Elements(cycle) = Added + 1 .. collected
<1>1. /\ Len(buffer) \in Nat /\ Len(cycle) \in Nat /\ collected \in Nat
      /\ buffer \in Seq(Metrics) /\ cycle \in Seq(Metrics)
  BY BoundsAssumption DEF IInv, TypeOK
<1>2. /\ Acked \in Nat /\ Added \in Nat
      /\ Acked + Len(buffer) = Added /\ Added + Len(cycle) = collected
  BY <1>1 DEF IInv, CountsOK, Acked, Added
<1>3. Elements(buffer) = Acked + 1 .. Added
  BY <1>1, <1>2, ConsecutiveElements DEF IInv, BufferConsecutive
<1>4. Elements(cycle) = Added + 1 .. collected
  BY <1>1, <1>2, ConsecutiveElements DEF IInv, CycleConsecutive
<1>5. QED
  BY <1>1, <1>2, <1>3, <1>4

\* Whatever was collected is stored, buffered or about to be buffered: no
\* interleaving of stop(), the loop and a failing backend loses a metric.
THEOREM NothingLost == Spec => []NoMetricLost
<1>1. ASSUME IInv PROVE NoMetricLost
  <2>1. PICK k \in 0 .. collected : StoredUpTo(k)
    BY <1>1 DEF IInv, StoredIsPrefix
  <2>2. accepted = 1 .. k /\ Acked <= k /\ k <= Added
    BY <2>1 DEF StoredUpTo
  <2>3. 1 .. collected = (1 .. k \cup Acked + 1 .. Added) \cup Added + 1 .. collected
    BY <1>1, <2>2, IInvFacts
  <2>4. QED
    BY <1>1, <2>2, <2>3, IInvFacts DEF NoMetricLost
<1>2. QED
  BY <1>1, SpecIInv, PTL

\* The backend stores a prefix of what was collected.
THEOREM StoredInOrder == Spec => []AcceptedInOrder
<1>1. ASSUME IInv PROVE AcceptedInOrder
  <2>1. PICK k \in 0 .. collected : StoredUpTo(k)
    BY <1>1 DEF IInv, StoredIsPrefix
  <2>2. k \in 0 .. MaxMetrics
    BY <1>1, <2>1, BoundsAssumption DEF IInv, TypeOK
  <2>3. QED
    BY <2>1, <2>2 DEF StoredUpTo, AcceptedInOrder
<1>2. QED
  BY <1>1, SpecIInv, PTL

\* What may be stored twice is never more than the next batch.
THEOREM DoubtIsOneBatch == Spec => []DuplicatesWithinNextBatch
<1>1. ASSUME IInv PROVE DuplicatesWithinNextBatch
  <2>1. PICK k \in 0 .. collected : StoredUpTo(k)
    BY <1>1 DEF IInv, StoredIsPrefix
  <2>2. ASSUME NEW i \in 1 .. Len(buffer), buffer[i] \in accepted
        PROVE  i <= BatchSize
    <3>1. buffer[i] = Acked + i
      BY <1>1 DEF IInv, BufferConsecutive, Consecutive
    <3>2. Acked + i <= k /\ k <= Acked + BatchSize
      BY <2>1, <2>2, <3>1 DEF StoredUpTo
    <3>3. QED
      BY <1>1, <2>1, <3>2, IInvFacts, BatchSizeAssumption
  <2>3. DOMAIN buffer = 1 .. Len(buffer)
    BY <1>1 DEF IInv, TypeOK
  <2>4. QED
    BY <2>2, <2>3 DEF DuplicatesWithinNextBatch
<1>2. QED
  BY <1>1, SpecIInv, PTL

\* The slice on the wire is the head of the buffer for as long as the POST
\* lasts, so success drops what was posted and nothing else.
THEOREM HeadIsPosted == Spec => []PostedIsHead
<1>1. ASSUME IInv PROVE PostedIsHead
  <2>1. ASSUME NEW t \in Threads, pc[t] = "post"
        PROVE  /\ inflight[t] # <<>>
               /\ Len(inflight[t]) <= Len(buffer)
               /\ \A i \in 1 .. Len(inflight[t]) : inflight[t][i] = buffer[i]
    <3>1. inflight[t] = HeadBatch /\ buffer # <<>> /\ TypeOK
      BY <1>1, <2>1 DEF IInv, InflightIsHeadBatch
    <3>2. /\ Len(HeadBatch) = BatchLen /\ BatchLen > 0 /\ BatchLen <= Len(buffer)
          /\ \A i \in 1 .. BatchLen : HeadBatch[i] = buffer[i]
      BY <3>1, SliceFacts
    <3>3. QED
      BY <3>1, <3>2
  <2>2. QED
    BY <2>1 DEF PostedIsHead
<1>2. QED
  BY <1>1, SpecIInv, PTL
-----------------------------------------------------------------------------
\* The refinement of MetricsDelivery

LEMMA StoredCountIs ==
    ASSUME IInv, NEW k \in 0 .. collected, accepted = 1 .. k
    PROVE  StoredCount = k
<1>1. k \in 0 .. MaxMetrics
  BY BoundsAssumption DEF IInv, TypeOK
<1>2. ASSUME NEW j \in 0 .. MaxMetrics, accepted = 1 .. j
      PROVE  j = k
  <2>1. j \in Nat /\ k \in Nat
    BY <1>1, BoundsAssumption
  <2>2. CASE j < k
    BY <1>2, <2>1, <2>2, k \in 1 .. k, k \notin 1 .. j
  <2>3. CASE k < j
    BY <1>2, <2>1, <2>3, j \in 1 .. j, j \notin 1 .. k
  <2>4. QED
    BY <2>1, <2>2, <2>3
<1>3. QED
  BY <1>1, <1>2 DEF StoredCount

StoredCountOK ==
    /\ StoredCount \in 0 .. collected
    /\ accepted = 1 .. StoredCount
    /\ Acked <= StoredCount

LEMMA StoredCountFacts == IInv => StoredCountOK
<1> SUFFICES ASSUME IInv PROVE StoredCountOK
  OBVIOUS
<1>1. PICK k \in 0 .. collected : StoredUpTo(k)
  BY DEF IInv, StoredIsPrefix
<1>2. QED
  BY <1>1, StoredCountIs DEF StoredUpTo, StoredCountOK

LEMMA StoredCountFactsNext == IInv' => StoredCountOK'
  BY StoredCountFacts, PTL

LEMMA InitRefines == Init => Delivery!Init
<1> SUFFICES ASSUME Init PROVE Delivery!Init
  OBVIOUS
<1>1. IInv
  BY InitIInv
<1>2. collected = 0 /\ Len(cycle) = 0 /\ Len(buffer) = 0 /\ accepted = 1 .. 0
  BY DEF Init
<1>3. StoredCount = 0
  BY <1>1, <1>2, StoredCountIs
<1>4. QED
  BY <1>2, <1>3 DEF Delivery!Init, Added, Acked

\* The interval a batch adds to what is stored is the abstract Grown.
LEMMA GrownStored ==
    ASSUME IInv, IInv', collected' = collected,
           NEW top \in Nat, Acked < top, top <= Added,
           accepted' = accepted \cup Acked + 1 .. top
    PROVE  StoredCount' = Delivery!Grown(top)
<1>1. /\ StoredCount \in Nat /\ StoredCount <= collected
      /\ accepted = 1 .. StoredCount /\ Acked <= StoredCount
      /\ Acked \in Nat /\ Added \in Nat /\ Added <= collected
      /\ collected \in Nat
  BY StoredCountFacts, IInvFacts DEF StoredCountOK
<1>2. Delivery!Grown(top) \in 0 .. collected
  BY <1>1 DEF Delivery!Grown
<1>3. accepted' = 1 .. Delivery!Grown(top)
  BY <1>1 DEF Delivery!Grown
<1>4. StoredCount' \in 0 .. collected /\ accepted' = 1 .. StoredCount'
  BY StoredCountFactsNext DEF StoredCountOK
<1>5. \A i, j \in Nat : 1 .. i = 1 .. j => i = j
  <2>1. SUFFICES ASSUME NEW i \in Nat, NEW j \in Nat, i < j PROVE 1 .. i # 1 .. j
    OBVIOUS
  <2>2. j \in 1 .. j /\ j \notin 1 .. i
    BY <2>1
  <2>3. QED
    BY <2>2
<1>6. QED
  BY <1>1, <1>2, <1>3, <1>4, <1>5

LEMMA StepRefines == IInv /\ IInv' /\ [Next]_vars => [Delivery!Next]_(Delivery!vars)
<1> SUFFICES ASSUME IInv, IInv', [Next]_vars
             PROVE  [Delivery!Next]_(Delivery!vars)
  OBVIOUS
<1>1. ASSUME UNCHANGED <<buffer, collected, cycle, accepted>>
      PROVE  UNCHANGED Delivery!vars
  BY <1>1 DEF Delivery!vars, Added, Acked, StoredCount
<1>2. CASE Collect
  <2>1. Added' = Added /\ buffer' = buffer /\ accepted' = accepted
    BY <1>2, BoundsAssumption, IInvFacts
    DEF IInv, TypeOK, CycleOnlyWhileAdding, Collect, Added
  <2>2. QED
    BY <2>1 DEF Delivery!vars, Acked, StoredCount
<1>3. CASE AddToBuffer
  <2>1. /\ accepted' = accepted /\ collected' = collected
        /\ cycle' = <<>> /\ buffer' = buffer \o cycle
    BY <1>3 DEF AddToBuffer
  <2>2. /\ Added' \in Nat /\ Added' >= Added
        /\ Acked' = Acked
    BY <2>1, IInvFacts DEF Added, Acked, IInv, TypeOK
  <2>3. Delivery!Produce
    BY <2>1, <2>2 DEF Delivery!Produce, StoredCount
  <2>4. QED
    BY <2>3 DEF Delivery!Next
<1>4. ASSUME NEW t \in Threads, FlushEnd(t)
      PROVE  /\ Acked + BatchLen \in Nat /\ Acked < Acked + BatchLen
             /\ Acked + BatchLen <= Added
             /\ Acked + BatchLen \in Delivery!BatchEnds
             /\ Elements(inflight[t]) = Acked + 1 .. Acked + BatchLen
             /\ collected' = collected /\ Added' = Added
  <2>1. /\ TypeOK /\ BatchLen \in Nat /\ BatchLen <= Len(buffer)
        /\ BatchLen <= BatchSize /\ BatchLen > 0
        /\ Elements(inflight[t]) = Acked + 1 .. Acked + BatchLen
    BY <1>4, FlushEndFacts, SliceFacts
  <2>2. collected' = collected /\ Added' = Added
    BY <1>4 DEF FlushEnd, Added
  <2>3. QED
    BY <2>1, <2>2, IInvFacts, BatchSizeAssumption DEF Delivery!BatchEnds
<1>5. ASSUME NEW t \in Threads, FlushOk(t) PROVE Delivery!Next
  <2>1. FlushEnd(t) /\ accepted' = accepted \cup Elements(inflight[t])
        /\ buffer' = RestAfterBatch
    BY <1>5 DEF FlushOk
  <2>2. StoredCount' = Delivery!Grown(Acked + BatchLen)
    BY <1>4, <2>1, GrownStored
  <2>3. Acked' = Acked + BatchLen
    <3>1. /\ Len(buffer') = Len(buffer) - BatchLen
          /\ BatchLen \in Nat
      BY <2>1, SliceFacts DEF IInv
    <3>2. QED
      BY <1>4, <2>1, <3>1, IInvFacts DEF Acked
  <2>4. Delivery!StoreConfirmed
    BY <1>4, <2>1, <2>2, <2>3 DEF Delivery!StoreConfirmed
  <2>5. QED
    BY <2>4 DEF Delivery!Next
<1>6. ASSUME NEW t \in Threads, FlushFailed(t)
      PROVE  [Delivery!Next]_(Delivery!vars)
  <2>1. FlushEnd(t) /\ buffer' = buffer /\ UNCHANGED <<collected, cycle>>
    BY <1>6 DEF FlushFailed, FlushEnd, KeptOnFailure
  <2>2. CASE UNCHANGED accepted
    BY <1>1, <2>1, <2>2
  <2>3. CASE accepted' = accepted \cup Elements(inflight[t])
    <3>1. StoredCount' = Delivery!Grown(Acked + BatchLen)
      BY <1>4, <2>1, <2>3, GrownStored
    <3>2. Added' = Added /\ Acked' = Acked
      BY <2>1 DEF Added, Acked
    <3>3. Delivery!StoreUnconfirmed
      BY <1>4, <2>1, <3>1, <3>2 DEF Delivery!StoreUnconfirmed
    <3>4. QED
      BY <3>3 DEF Delivery!Next
  <2>4. QED
    BY <1>6, <2>2, <2>3 DEF FlushFailed
<1>7. ASSUME \/ RunBegin \/ LoopTest \/ Stop \/ BackendToggle
             \/ \E t \in Threads : FlushEmpty(t) \/ FlushBegin(t)
             \/ UNCHANGED vars
      PROVE  UNCHANGED Delivery!vars
  BY <1>1, <1>7 DEF RunBegin, LoopTest, Stop, BackendToggle, FlushEmpty,
                    FlushBegin, vars
<1>8. QED
  BY <1>2, <1>3, <1>5, <1>6, <1>7 DEF Next, Collector, Main, Flush, Threads

\* The collector implements the at-least-once channel of MetricsDelivery.
THEOREM CollectorImplementsDelivery == Spec => ImplementsDelivery
<1>1. QED
  BY InitRefines, InitIInv, NextIInv, StepRefines, PTL
  DEF Spec, ImplementsDelivery, Delivery!Spec
=============================================================================
