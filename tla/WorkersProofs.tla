--------------------------- MODULE WorkersProofs ----------------------------
(***************************************************************************)
(* Proofs about what runs beside the API and about the scripts:            *)
(* EventProcessor for any events, any finite set of workers and any number *)
(* of deliveries and expiries, RiskTracker for any pools and clients,      *)
(* AwsScripts for any commands, volumes and shells, PriceCollection and    *)
(* SpotAdvisor for any regions, pools, ratings and readers; and the tables *)
(* and selections of Recommendations, for any utilizations and pools.      *)
(***************************************************************************)
EXTENDS MCWorkers, FiniteSetTheorems, SequenceTheorems, WellFoundedInduction, TLAPS

-----------------------------------------------------------------------------
(***************************************************************************)
(* EventProcessor: a worker that has found no key and not yet written it   *)
(* ("mark") will handle the event whatever the others do: such workers are *)
(* counted with the handlings that have begun.                             *)
(***************************************************************************)
Handling == {"route", "alert", "trim", "log"}

EventTypes ==
    /\ taken \in [Workers -> [step : {"idle", "test", "mark"} \cup Handling,
                            event : Events \cup {None}]]
    /\ \A w \in Workers : taken[w].step # "idle" => taken[w].event \in Events
    /\ processed \subseteq Events /\ skipped \subseteq Events
    /\ handlings \in [Events -> Nat]
    /\ ends \in [Events -> SUBSET {"handled", "broken"}]

Markers(e) == {w \in Workers : taken[w].step = "mark" /\ taken[w].event = e}

\* No key, no handling since; the workers about to begin one are counted.
CountOK(e) ==
    /\ e \notin processed => handlings[e] = 0
    /\ handlings[e] + Cardinality(Markers(e)) <= Cardinality(Workers)

Taken(e) ==
    \/ ends[e] # {}
    \/ \E w \in Workers : taken[w].event = e /\ taken[w].step \in Handling

HandlingOK ==
    /\ \A e \in Events : CountOK(e)
    /\ \A e \in processed \cup skipped : Taken(e)

\* LogKeepsNewest with the types of the lists
LogOK ==
    /\ activity \in Seq(Events) /\ pushed \in Seq(Events) /\ untrimmed \in Nat
    /\ Len(activity) <= Keep + untrimmed
    /\ Len(activity) <= Len(pushed)
    /\ \A i \in 1 .. Len(activity) : activity[i] = pushed[i]
    /\ Len(activity) >= Len(pushed) \/ Len(activity) >= Keep

EventInv == EventTypes /\ HandlingOK /\ LogOK

-----------------------------------------------------------------------------
(***************************************************************************)
(* What the steps of a worker have in common                               *)
(***************************************************************************)

\* Another set of workers about to begin is no larger than all workers.
LEMMA MarkersBounded ==
    ASSUME NEW e
    PROVE  /\ IsFiniteSet(Markers(e)) /\ Cardinality(Markers(e)) \in Nat
           /\ Cardinality(Workers) \in Nat
           /\ Cardinality(Markers(e)) <= Cardinality(Workers)
<1>1. Markers(e) \subseteq Workers
  BY DEF Markers
<1> QED BY <1>1, FS_Subset, FS_CardinalityType, EventAssumption

\* A worker's step that neither comes to "mark" nor leaves it, and touches no
\* key, disturbs no count.
LEMMA CountsKept ==
    ASSUME HandlingOK, NEW w \in Workers, \A v \in Workers \ {w} : taken'[v] = taken[v],
           taken[w].step # "mark", taken'[w].step # "mark",
           handlings' = handlings, processed' = processed
    PROVE  \A e \in Events : CountOK(e)'
<1> TAKE e \in Events
<1>1. Markers(e)' = Markers(e)
  BY DEF Markers
<1> QED BY <1>1 DEF HandlingOK, CountOK

\* Neither does a step that keeps a handling going, or no event was skipped
\* over, change that events were taken.
LEMMA TakenKept ==
    ASSUME EventTypes, HandlingOK, NEW w \in Workers,
           \A v \in Workers \ {w} : taken'[v] = taken[v],
           taken[w].step \in Handling =>
               \/ taken'[w].step \in Handling /\ taken'[w].event = taken[w].event
               \/ ends'[taken[w].event] # {},
           \A e \in Events : ends[e] # {} => ends'[e] # {},
           NEW e \in processed \cup skipped
    PROVE  Taken(e)'
<1>1. e \in Events /\ Taken(e)
  BY DEF EventTypes, HandlingOK
<1>2. CASE ends[e] # {}
  BY <1>1, <1>2 DEF Taken
<1>3. CASE \E v \in Workers : taken[v].event = e /\ taken[v].step \in Handling
  BY <1>3 DEF Taken
<1> QED BY <1>1, <1>2, <1>3 DEF Taken

\* The lists stay as they are, and so does what is said of them.
LEMMA LogKept == LogOK /\ UNCHANGED <<activity, pushed, untrimmed>> => LogOK'
BY DEF LogOK

-----------------------------------------------------------------------------
(***************************************************************************)
(* The steps                                                               *)
(***************************************************************************)
LEMMA InitialEvents == EventInit => EventInv
<1> SUFFICES ASSUME EventInit PROVE EventInv
  OBVIOUS
<1>1. EventTypes
  BY DEF EventInit, NoJob, EventTypes
<1>2. ASSUME NEW e \in Events PROVE CountOK(e)
  <2>1. Markers(e) = {}
    BY DEF EventInit, NoJob, Markers
  <2> QED BY <2>1, MarkersBounded, FS_EmptySet, EventAssumption DEF EventInit, CountOK
<1>3. LogOK
  BY EventAssumption DEF EventInit, LogOK
<1> QED BY <1>1, <1>2, <1>3 DEF EventInv, HandlingOK, EventInit

LEMMA DeliverStep ==
    ASSUME EventInv, NEW w \in Workers, NEW e \in Events, Deliver(w, e)
    PROVE  EventInv'
<1> USE DEF EventInv
<1>1. /\ taken' = [taken EXCEPT ![w] = [step |-> "test", event |-> e]]
      /\ taken[w].step = "idle"
      /\ UNCHANGED <<processed, handlings, ends, skipped, activity, pushed, untrimmed>>
  BY DEF Deliver, At
<1>2. /\ \A v \in Workers \ {w} : taken'[v] = taken[v]
      /\ taken'[w] = [step |-> "test", event |-> e]
  BY <1>1 DEF EventTypes
<1>3. EventTypes'
  BY <1>1 DEF EventTypes
<1>4. \A d \in Events : CountOK(d)'
  BY <1>1, <1>2, CountsKept
<1>5. \A d \in processed \cup skipped : Taken(d)'
  BY <1>1, <1>2, TakenKept DEF Handling
<1> QED BY <1>1, <1>3, <1>4, <1>5, LogKept DEF HandlingOK

\* A delivery that is skipped has found the key of its event.
LEMMA TestKeyStep ==
    ASSUME EventInv, NEW w \in Workers, Test(w)
    PROVE  EventInv'
<1> USE DEF EventInv
<1>1. /\ taken[w].step = "test" /\ taken[w].event \in Events
      /\ UNCHANGED <<processed, handlings, ends, activity, pushed, untrimmed>>
  BY DEF Test, At, EventTypes
<1>2. CASE taken[w].event \in processed
  <2>1. taken' = [taken EXCEPT ![w] = NoJob] /\ skipped' = skipped \cup {taken[w].event}
    BY <1>2 DEF Test
  <2>2. taken'[w] = NoJob /\ \A v \in Workers \ {w} : taken'[v] = taken[v]
    BY <2>1 DEF EventTypes
  <2>3. EventTypes'
    BY <1>1, <2>1 DEF EventTypes, NoJob
  <2>4. \A d \in Events : CountOK(d)'
    BY <1>1, <2>2, CountsKept DEF NoJob
  <2>5. \A d \in processed \cup skipped : Taken(d)'
    BY <1>1, <2>2, TakenKept DEF Handling
  <2> QED BY <1>1, <1>2, <2>1, <2>3, <2>4, <2>5, LogKept DEF HandlingOK
<1>3. CASE taken[w].event \notin processed
  <2> DEFINE f == taken[w].event
  <2>1. taken' = [taken EXCEPT ![w].step = "mark"] /\ skipped' = skipped
    BY <1>3 DEF Test, MoveTo
  <2>2. /\ taken'[w] = [taken[w] EXCEPT !.step = "mark"]
        /\ \A v \in Workers \ {w} : taken'[v] = taken[v]
    BY <2>1 DEF EventTypes
  <2>3. EventTypes'
    BY <1>1, <2>1 DEF EventTypes
  <2>4. ASSUME NEW d \in Events PROVE CountOK(d)'
    <3>1. CASE d = f
      <4>1. handlings[d] = 0
        BY <1>3, <3>1 DEF HandlingOK, CountOK
      <4>2. Markers(d)' \subseteq Workers
        BY DEF Markers
      <4>3. /\ Cardinality(Markers(d)') <= Cardinality(Workers)
            /\ Cardinality(Markers(d)') \in Nat
        BY <4>2, FS_Subset, FS_CardinalityType, EventAssumption
      <4> QED BY <1>1, <4>1, <4>3 DEF CountOK
    <3>2. CASE d # f
      <4>1. taken'[w].event = f
        BY <2>2 DEF EventTypes
      <4>2. Markers(d)' = Markers(d)
        BY <1>1, <2>2, <3>2, <4>1 DEF Markers
      <4> QED BY <1>1, <4>2 DEF HandlingOK, CountOK
    <3> QED BY <3>1, <3>2
  <2>5. \A d \in processed \cup skipped : Taken(d)'
    BY <1>1, <2>2, TakenKept DEF Handling
  <2> QED BY <1>1, <2>1, <2>3, <2>4, <2>5, LogKept DEF HandlingOK
<1> QED BY <1>2, <1>3

\* The worker leaves those about to begin and is counted with the handlings.
LEMMA MarkStep ==
    ASSUME EventInv, NEW w \in Workers, Mark(w)
    PROVE  EventInv'
<1> USE DEF EventInv
<1> DEFINE f == taken[w].event
<1>1. /\ taken[w].step = "mark" /\ f \in Events
      /\ taken' = [taken EXCEPT ![w].step = "route"]
      /\ processed' = processed \cup {f}
      /\ handlings' = [handlings EXCEPT ![f] = @ + 1]
      /\ UNCHANGED <<ends, skipped, activity, pushed, untrimmed>>
  BY DEF Mark, At, MoveTo, EventTypes
<1>2. /\ taken'[w].step = "route" /\ taken'[w].event = f
      /\ \A v \in Workers \ {w} : taken'[v] = taken[v]
  BY <1>1 DEF EventTypes
<1>3. EventTypes'
  BY <1>1 DEF EventTypes, Handling
<1>4. ASSUME NEW d \in Events PROVE CountOK(d)'
  <2>1. CASE d = f
    <3>1. Markers(d)' = Markers(d) \ {w} /\ w \in Markers(d)
      BY <1>1, <1>2, <2>1 DEF Markers
    <3>2. Cardinality(Markers(d)') = Cardinality(Markers(d)) - 1
      BY <3>1, MarkersBounded, FS_RemoveElement, EventAssumption
    <3>3. handlings'[d] = handlings[d] + 1 /\ handlings[d] \in Nat
      BY <1>1, <2>1 DEF EventTypes
    <3> QED BY <1>1, <2>1, <3>2, <3>3, MarkersBounded, EventAssumption
       DEF HandlingOK, CountOK
  <2>2. CASE d # f
    <3>1. Markers(d)' = Markers(d)
      BY <1>1, <1>2, <2>2 DEF Markers
    <3>2. handlings'[d] = handlings[d] /\ (d \in processed' <=> d \in processed)
      BY <1>1, <2>2 DEF EventTypes
    <3> QED BY <3>1, <3>2 DEF HandlingOK, CountOK
  <2> QED BY <2>1, <2>2
<1>5. \A d \in processed \cup skipped : Taken(d)'
  BY <1>1, <1>2, TakenKept DEF Handling
<1>6. Taken(f)'
  BY <1>2 DEF Taken, Handling
<1> QED BY <1>1, <1>3, <1>4, <1>5, <1>6, LogKept DEF HandlingOK

\* A step from one place in a handling to another.
LEMMA HandlingGoesOn ==
    ASSUME EventInv, NEW w \in Workers, NEW s \in Handling, taken[w].step \in Handling,
           MoveTo(w, s), UNCHANGED <<processed, handlings, ends, skipped>>
    PROVE  EventTypes' /\ HandlingOK'
<1> USE DEF EventInv
<1>1. /\ taken'[w] = [taken[w] EXCEPT !.step = s]
      /\ \A v \in Workers \ {w} : taken'[v] = taken[v]
  BY DEF MoveTo, EventTypes
<1>2. taken'[w].step = s /\ taken'[w].event = taken[w].event
  BY <1>1 DEF EventTypes
<1>3. EventTypes'
  BY DEF EventTypes, MoveTo, Handling
<1>4. \A d \in Events : CountOK(d)'
  BY <1>1, <1>2, CountsKept DEF Handling
<1>5. \A d \in processed \cup skipped : Taken(d)'
  BY <1>1, <1>2, TakenKept
<1> QED BY <1>3, <1>4, <1>5 DEF HandlingOK

LEMMA EffectStep ==
    ASSUME EventInv, NEW w \in Workers,
           Interruption(w) \/ OtherEvent(w) \/ StateChange(w) \/ Alert(w)
    PROVE  EventInv'
<1>1. \E s \in Handling : MoveTo(w, s)
  BY DEF Interruption, OtherEvent, StateChange, Alert, Handling
<1>2. /\ taken[w].step \in Handling
      /\ UNCHANGED <<processed, handlings, ends, skipped, activity, pushed, untrimmed>>
  BY DEF Interruption, OtherEvent, StateChange, Alert, At, Handling
<1> QED BY <1>1, <1>2, HandlingGoesOn, LogKept DEF EventInv

\* The new entry is the first of both lists.
LEMMA PushStep ==
    ASSUME EventInv, NEW w \in Workers, Push(w)
    PROVE  EventInv'
<1> DEFINE f == taken[w].event
<1>1. /\ taken[w].step = "route" /\ f \in Events /\ MoveTo(w, "trim")
      /\ activity' = <<f>> \o activity /\ pushed' = <<f>> \o pushed
      /\ untrimmed' = untrimmed + 1
      /\ UNCHANGED <<processed, handlings, ends, skipped>>
  BY DEF Push, At, EventInv, EventTypes
<1>2. EventTypes' /\ HandlingOK'
  BY <1>1, HandlingGoesOn DEF Handling
<1>3. LogOK'
  <2>1. /\ activity \in Seq(Events) /\ pushed \in Seq(Events) /\ untrimmed \in Nat
        /\ Keep \in Nat
    BY EventAssumption DEF EventInv, LogOK
  <2>2. /\ activity' \in Seq(Events) /\ Len(activity') = Len(activity) + 1
        /\ activity'[1] = f
        /\ \A i \in 2 .. Len(activity) + 1 : activity'[i] = activity[i - 1]
    BY <1>1, <2>1
  <2>3. /\ pushed' \in Seq(Events) /\ Len(pushed') = Len(pushed) + 1
        /\ pushed'[1] = f
        /\ \A i \in 2 .. Len(pushed) + 1 : pushed'[i] = pushed[i - 1]
    BY <1>1, <2>1
  <2>4. ASSUME NEW i \in 1 .. Len(activity') PROVE activity'[i] = pushed'[i]
    <3>1. CASE i = 1
      BY <3>1, <2>2, <2>3
    <3>2. CASE i # 1
      <4>1. i - 1 \in 1 .. Len(activity) /\ i \in 2 .. Len(pushed) + 1
        BY <2>1, <2>2, <3>2 DEF EventInv, LogOK
      <4>2. activity[i - 1] = pushed[i - 1]
        BY <4>1 DEF EventInv, LogOK
      <4> QED BY <2>1, <2>2, <2>3, <3>2, <4>1, <4>2
    <3> QED BY <3>1, <3>2
  <2>5. /\ Len(activity) \in Nat /\ Len(pushed) \in Nat
        /\ Len(activity) <= Keep + untrimmed /\ Len(activity) <= Len(pushed)
        /\ Len(activity) >= Len(pushed) \/ Len(activity) >= Keep
    BY <2>1 DEF EventInv, LogOK
  <2> QED BY <1>1, <2>1, <2>2, <2>3, <2>4, <2>5 DEF LogOK
<1> QED BY <1>2, <1>3 DEF EventInv

\* The oldest entries go, no more of them than are too many.
LEMMA TrimStep ==
    ASSUME EventInv, NEW w \in Workers, Trim(w)
    PROVE  EventInv'
<1>1. /\ taken[w].step = "trim" /\ MoveTo(w, "log")
      /\ activity' = Trimmed(activity) /\ pushed' = pushed /\ untrimmed' = 0
      /\ UNCHANGED <<processed, handlings, ends, skipped>>
  BY DEF Trim, At
<1>2. EventTypes' /\ HandlingOK'
  BY <1>1, HandlingGoesOn DEF Handling
<1>3. LogOK'
  <2>1. /\ activity \in Seq(Events) /\ pushed \in Seq(Events) /\ Keep \in Nat
    BY EventAssumption DEF EventInv, LogOK
  <2>2. CASE Len(activity) <= Keep
    BY <1>1, <2>1, <2>2 DEF EventInv, LogOK, Trimmed
  <2>3. CASE ~(Len(activity) <= Keep)
    <3>1. /\ activity' \in Seq(Events) /\ Len(activity') = Keep
          /\ \A i \in 1 .. Keep : activity'[i] = activity[i]
      BY <1>1, <2>1, <2>3 DEF Trimmed
    <3>2. /\ Keep \in Nat /\ Len(activity) \in Nat /\ Len(activity) > Keep
      BY <2>1, <2>3, EventAssumption
    <3>3. Len(activity) <= Len(pushed) /\ Len(pushed) \in Nat
      BY <2>1 DEF EventInv, LogOK
    <3>4. \A i \in 1 .. Len(activity) : activity[i] = pushed[i]
      BY DEF EventInv, LogOK
    <3>5. \A i \in 1 .. Keep : activity'[i] = pushed[i]
      BY <3>1, <3>2, <3>4
    <3> QED BY <1>1, <2>1, <3>1, <3>2, <3>3, <3>5 DEF LogOK
  <2> QED BY <2>2, <2>3
<1> QED BY <1>2, <1>3 DEF EventInv

\* The end of a handling is remembered.
LEMMA EndStep ==
    ASSUME EventInv, NEW w \in Workers, Finish(w)
    PROVE  EventInv'
<1> USE DEF EventInv
<1> DEFINE f == taken[w].event
<1>1. /\ taken[w].step = "log" /\ f \in Events
      /\ taken' = [taken EXCEPT ![w] = NoJob]
      /\ ends' = [ends EXCEPT ![f] = @ \cup {"handled"}]
      /\ UNCHANGED <<processed, handlings, skipped, activity, pushed, untrimmed>>
  BY DEF Finish, At, EventTypes
<1>2. taken'[w] = NoJob /\ \A v \in Workers \ {w} : taken'[v] = taken[v]
  BY <1>1 DEF EventTypes
<1>3. EventTypes'
  BY <1>1 DEF EventTypes, NoJob
<1>4. \A d \in Events : CountOK(d)'
  BY <1>1, <1>2, CountsKept DEF NoJob
<1>5. ends'[f] # {} /\ \A d \in Events : ends[d] # {} => ends'[d] # {}
  BY <1>1 DEF EventTypes
<1>6. \A d \in processed \cup skipped : Taken(d)'
  BY <1>2, <1>5, TakenKept
<1> QED BY <1>1, <1>3, <1>4, <1>6, LogKept DEF HandlingOK

\* A handling that breaks is remembered too; before "route" none has begun.
LEMMA BreakStep ==
    ASSUME EventInv, NEW w \in Workers, Break(w)
    PROVE  EventInv'
<1> USE DEF EventInv
<1> DEFINE f == taken[w].event
<1>1. /\ f \in Events /\ taken' = [taken EXCEPT ![w] = NoJob]
      /\ ends' = [ends EXCEPT ![f] = IF taken[w].step \in {"test", "mark"} THEN @
                                                   ELSE @ \cup {"broken"}]
      /\ UNCHANGED <<processed, handlings, skipped, activity, pushed, untrimmed>>
  BY DEF Break, EventTypes
<1>2. taken'[w] = NoJob /\ \A v \in Workers \ {w} : taken'[v] = taken[v]
  BY <1>1 DEF EventTypes
<1>3. EventTypes'
  BY <1>1 DEF EventTypes, NoJob
<1>4. ASSUME NEW d \in Events PROVE CountOK(d)'
  <2>1. Markers(d)' \subseteq Markers(d)
    BY <1>2 DEF Markers, NoJob
  <2>2. /\ Cardinality(Markers(d)') <= Cardinality(Markers(d))
        /\ Cardinality(Markers(d)') \in Nat
    BY <2>1, MarkersBounded, FS_Subset, FS_CardinalityType, EventAssumption
  <2>3. handlings[d] \in Nat /\ CountOK(d)
    BY DEF EventTypes, HandlingOK
  <2> QED BY <1>1, <2>2, <2>3, MarkersBounded, EventAssumption DEF CountOK
<1>5. /\ \A d \in Events : ends[d] # {} => ends'[d] # {}
      /\ taken[w].step \in Handling => ends'[f] # {}
  BY <1>1 DEF EventTypes, Handling
<1>6. \A d \in processed \cup skipped : Taken(d)'
  BY <1>2, <1>5, TakenKept
<1> QED BY <1>1, <1>3, <1>4, <1>6, LogKept DEF HandlingOK

\* The count of an event begins again when its key expires; no more workers
\* than there are can be about to handle it then.
LEMMA ExpiryStep ==
    ASSUME EventInv, NEW f \in Events, ExpireKey(f)
    PROVE  EventInv'
<1> USE DEF EventInv
<1>1. /\ processed' = processed \ {f} /\ handlings' = [handlings EXCEPT ![f] = 0]
      /\ UNCHANGED <<taken, ends, skipped, activity, pushed, untrimmed>>
  BY DEF ExpireKey
<1>2. EventTypes'
  BY <1>1 DEF EventTypes
<1>3. ASSUME NEW d \in Events PROVE CountOK(d)'
  <2>1. Markers(d)' = Markers(d)
    BY <1>1 DEF Markers
  <2>2. CASE d = f
    <3>1. handlings'[d] = 0
      BY <1>1, <2>2 DEF EventTypes
    <3> QED BY <2>1, <3>1, MarkersBounded, EventAssumption DEF CountOK
  <2>3. CASE d # f
    <3>1. handlings'[d] = handlings[d] /\ (d \in processed' <=> d \in processed)
      BY <1>1, <2>3 DEF EventTypes
    <3> QED BY <2>1, <3>1 DEF HandlingOK, CountOK
  <2> QED BY <2>2, <2>3
<1>4. \A d \in processed' \cup skipped' : Taken(d)'
  BY <1>1 DEF HandlingOK, Taken
<1> QED BY <1>1, <1>2, <1>3, <1>4, LogKept DEF HandlingOK

LEMMA EventsUntouched ==
    ASSUME EventInv, UNCHANGED <<taken, processed, skipped, handlings, ends, activity,
                             pushed, untrimmed>>
    PROVE  EventInv'
BY DEF EventInv, EventTypes, HandlingOK, CountOK, Markers, Taken, LogOK

LEMMA EventInvariance == EventInv /\ [EventNext]_eventVars => EventInv'
<1> SUFFICES ASSUME EventInv, [EventNext]_eventVars PROVE EventInv'
  OBVIOUS
<1>1. ASSUME NEW w \in Workers, NEW e \in Events, Deliver(w, e) PROVE EventInv'
  BY <1>1, DeliverStep
<1>2. ASSUME NEW w \in Workers, Test(w) \/ Mark(w) PROVE EventInv'
  BY <1>2, TestKeyStep, MarkStep
<1>3. ASSUME NEW w \in Workers,
              Interruption(w) \/ OtherEvent(w) \/ StateChange(w) \/ Alert(w)
       PROVE  EventInv'
  BY <1>3, EffectStep
<1>4. ASSUME NEW w \in Workers, Push(w) \/ Trim(w) PROVE EventInv'
  BY <1>4, PushStep, TrimStep
<1>5. ASSUME NEW w \in Workers, Finish(w) \/ Break(w) PROVE EventInv'
  BY <1>5, EndStep, BreakStep
<1>6. ASSUME NEW e \in Events, ExpireKey(e) PROVE EventInv'
  BY <1>6, ExpiryStep
<1>7. ASSUME NEW i \in Instances, ExpireState(i) PROVE EventInv'
  BY <1>7, EventsUntouched DEF ExpireState
<1>8. CASE UNCHANGED eventVars
  BY <1>8, EventsUntouched DEF eventVars
<1> QED BY <1>1, <1>2, <1>3, <1>4, <1>5, <1>6, <1>7, <1>8 DEF EventNext

-----------------------------------------------------------------------------
(***************************************************************************)
(* The theorems                                                            *)
(***************************************************************************)
LEMMA EventInvariantImplies == EventInv => EventsAreHandled
<1> SUFFICES ASSUME EventInv PROVE EventsAreHandled
  OBVIOUS
<1>1. HandledPerWorker
  <2> SUFFICES ASSUME NEW e \in Events PROVE handlings[e] <= Cardinality(Workers)
    BY DEF HandledPerWorker
  <2>1. handlings[e] \in Nat /\ CountOK(e)
    BY DEF EventInv, EventTypes, HandlingOK
  <2> QED BY <2>1, MarkersBounded, EventAssumption DEF CountOK
<1>2. SkippedWasTaken
  BY DEF EventInv, HandlingOK, Taken, Handling, SkippedWasTaken
<1>3. LogKeepsNewest
  <2>1. /\ activity \in Seq(Events) /\ pushed \in Seq(Events) /\ untrimmed \in Nat
        /\ Keep \in Nat
    BY EventAssumption DEF EventInv, LogOK
  <2>2. /\ Len(activity) <= Len(pushed) /\ Len(activity) \in Nat
        /\ \A i \in 1 .. Len(activity) : activity[i] = pushed[i]
    BY <2>1 DEF EventInv, LogOK
  <2> DEFINE head == SubSeq(pushed, 1, Len(activity))
  <2>3. head \in Seq(Events) /\ Len(head) = Len(activity)
    BY <2>1, <2>2
  <2>4. \A i \in 1 .. Len(activity) : head[i] = activity[i]
    BY <2>1, <2>2
  <2> HIDE DEF head
  <2>5. activity = head
    BY <2>1, <2>3, <2>4, SeqEqual
  <2> QED BY <2>1, <2>5 DEF EventInv, LogOK, LogKeepsNewest, head
<1> QED BY <1>1, <1>2, <1>3 DEF EventsAreHandled

\* process_event in any number of workers: at most one handling of an event for
\* each of them while its key stands, though test and write of the key are two
\* calls; no delivery is skipped for an event nobody took; the activity list is
\* the newest entries in order, its length exceeded by untrimmed pushes only.
THEOREM EventsHandledOncePerWorker == EventSpec => []EventsAreHandled
<1>1. EventInit => EventInv
  BY InitialEvents
<1>2. EventInv /\ [EventNext]_eventVars => EventInv'
  BY EventInvariance
<1>3. EventInv => EventsAreHandled
  BY EventInvariantImplies
<1> QED BY <1>1, <1>2, <1>3, PTL DEF EventSpec

-----------------------------------------------------------------------------
(***************************************************************************)
(* RiskTracker: between the call that flags a pool and the one that counts *)
(* it, the pool has no count and no timestamp: the clients that are there  *)
(* are counted with what is stored.                                        *)
(***************************************************************************)
\* The steps of flag_risky_pool after its first call
FlaggingSteps == {"count", "meta", "publish"}

\* A pool that is answered, with the time its flag has left
PoolAnswers == [pool : SpotPools, ttl : {1, -2}]

RiskCalls ==
    [step : {"idle", "read"} \cup FlaggingSteps, pool : SpotPools \cup {None},
     todo : SUBSET SpotPools, list : SUBSET PoolAnswers, held : SUBSET SpotPools]

\* Types of the counters and of the calls in progress
RiskTypes ==
    /\ risk \subseteq SpotPools
    /\ count \in [SpotPools -> Nat] /\ flags \in [SpotPools -> Nat]
    /\ published \in [SpotPools -> Nat] /\ broken \in [SpotPools -> Nat]
    /\ call \in [Clients -> RiskCalls]
    /\ \A c \in Clients : call[c].step \in FlaggingSteps => call[c].pool \in SpotPools

\* The clients that are at one of the steps for a pool, and how many they are
CallsAt(p, steps) == {c \in Clients : call[c].pool = p /\ call[c].step \in steps}
InCall(p, steps) == Cardinality(CallsAt(p, steps))

\* 1 if a call is one of those, and 0 otherwise
Counts(x, p, steps) == IF x.pool = p /\ x.step \in steps THEN 1 ELSE 0

\* What get_all_risky_pools has scanned was flagged once, and a pool that has
\* been flagged throughout is still to be asked for or in the answer.
AnswersOK ==
    /\ \A p \in risk : flags[p] > 0
    /\ \A c \in Clients : Calling(c, "read") =>
         /\ \A p \in call[c].todo : flags[p] > 0
         /\ \A answer \in call[c].list :
              /\ flags[answer.pool] > 0
              /\ answer.ttl < 0 => answer.pool \notin call[c].held
         /\ call[c].held \subseteq risk
         /\ call[c].held \subseteq
              call[c].todo \cup {answer.pool : answer \in call[c].list}

\* The inductive invariant
RiskInv == RiskTypes /\ FlagsAreCounted /\ AnswersOK

-----------------------------------------------------------------------------
\* What a step of one client does to the number of clients at a step.
LEMMA CallMoves ==
    ASSUME RiskTypes, NEW c \in Clients, NEW x \in RiskCalls,
           call' = [call EXCEPT ![c] = x]
    PROVE  \A p, steps :
             /\ InCall(p, steps) \in Nat
             /\ InCall(p, steps)' = InCall(p, steps)
                  - Counts(call[c], p, steps) + Counts(x, p, steps)
<1> TAKE p, steps
<1> DEFINE S == CallsAt(p, steps)
           T == S \ {c}
<1>1. IsFiniteSet(S) /\ IsFiniteSet(T)
  <2>1. S \subseteq Clients /\ T \subseteq Clients
    BY DEF CallsAt
  <2> QED BY <2>1, FS_Subset, ClientsAssumption
<1>2. Cardinality(S) = Cardinality(T) + Counts(call[c], p, steps)
  <2>1. CASE call[c].pool = p /\ call[c].step \in steps
    <3>1. c \in S
      BY <2>1 DEF CallsAt
    <3>2. Cardinality(T) = Cardinality(S) - 1
      BY <1>1, <3>1, FS_RemoveElement
    <3>3. Cardinality(S) \in Nat
      BY <1>1, FS_CardinalityType
    <3> QED BY <2>1, <3>2, <3>3 DEF Counts
  <2>2. CASE ~(call[c].pool = p /\ call[c].step \in steps)
    <3>1. S = T
      BY <2>2 DEF CallsAt
    <3>2. Cardinality(S) \in Nat
      BY <1>1, FS_CardinalityType
    <3> QED BY <2>2, <3>1, <3>2 DEF Counts
  <2> QED BY <2>1, <2>2
<1>3. InCall(p, steps)' = Cardinality(T) + Counts(x, p, steps)
  <2>1. CASE x.pool = p /\ x.step \in steps
    <3>1. CallsAt(p, steps)' = T \cup {c} /\ c \notin T
      BY <2>1 DEF CallsAt, RiskTypes
    <3>2. Cardinality(T \cup {c}) = Cardinality(T) + 1
      BY <1>1, <3>1, FS_AddElement
    <3> QED BY <2>1, <3>1, <3>2 DEF InCall, Counts
  <2>2. CASE ~(x.pool = p /\ x.step \in steps)
    <3>1. CallsAt(p, steps)' = T
      BY <2>2 DEF CallsAt, RiskTypes
    <3>2. Cardinality(T) \in Nat
      BY <1>1, FS_CardinalityType
    <3> QED BY <2>2, <3>1, <3>2 DEF InCall, Counts
  <2> QED BY <2>1, <2>2
<1>4. Cardinality(T) \in Nat /\ Cardinality(S) \in Nat
  BY <1>1, FS_CardinalityType
<1>5. Counts(call[c], p, steps) \in Int /\ Counts(x, p, steps) \in Int
  BY DEF Counts
<1>6. InCall(p, steps) = Cardinality(S)
  BY DEF InCall
<1> QED BY <1>2, <1>3, <1>4, <1>5, <1>6

\* FlagsAreCounted by the number of calls at a step
LEMMA CountingRelations ==
    FlagsAreCounted <=>
      \A p \in SpotPools :
        /\ published[p] + InCall(p, {"meta", "publish"}) <= count[p]
        /\ count[p] + InCall(p, {"count"}) <= flags[p]
        /\ flags[p] = published[p] + broken[p] + InCall(p, FlaggingSteps)
BY DEF FlagsAreCounted, InCall, CallsAt, FlaggingSteps

\* The same for the next state
LEMMA CountingRelationsNext ==
    FlagsAreCounted' <=>
      \A p \in SpotPools :
        /\ published'[p] + InCall(p, {"meta", "publish"})' <= count'[p]
        /\ count'[p] + InCall(p, {"count"})' <= flags'[p]
        /\ flags'[p] = published'[p] + broken'[p] + InCall(p, FlaggingSteps)'
BY DEF FlagsAreCounted, InCall, CallsAt, FlaggingSteps

\* A step that leaves the counters and every call at its place
LEMMA CountsStay ==
    ASSUME RiskTypes, FlagsAreCounted, UNCHANGED <<count, flags, published, broken>>,
           \A c \in Clients : call'[c].step = call[c].step /\ call'[c].pool = call[c].pool
    PROVE  FlagsAreCounted'
<1>1. ASSUME NEW p, NEW steps PROVE InCall(p, steps)' = InCall(p, steps)
  <2>1. CallsAt(p, steps)' = CallsAt(p, steps)
    BY DEF CallsAt
  <2> QED BY <2>1 DEF InCall
<1> QED BY <1>1, CountingRelations, CountingRelationsNext

\* A call that goes on, and one that is over
LEMMA CallsAreTyped ==
    ASSUME RiskTypes, NEW c \in Clients, NEW step \in FlaggingSteps \cup {"idle", "read"}
    PROVE  [call[c] EXCEPT !.step = step] \in RiskCalls
BY DEF RiskTypes, RiskCalls

LEMMA NoCallIsTyped == NoCall \in RiskCalls
BY DEF NoCall, RiskCalls

\* Nothing is flagged and nobody calls.
LEMMA RiskInitial == RiskInit => RiskInv
<1> SUFFICES ASSUME RiskInit PROVE RiskInv
  OBVIOUS
<1>1. RiskTypes
  BY NoCallIsTyped DEF RiskInit, RiskTypes, NoCall, FlaggingSteps
<1>2. FlagsAreCounted
  <2>1. \A p, steps : "idle" \notin steps => CallsAt(p, steps) = {}
    BY DEF RiskInit, NoCall, CallsAt
  <2>2. \A p, steps : "idle" \notin steps => InCall(p, steps) = 0
    BY <2>1, FS_EmptySet DEF InCall, Counts
  <2> QED BY <2>2, CountingRelations DEF RiskInit, FlaggingSteps
<1>3. AnswersOK
  BY DEF RiskInit, AnswersOK, Calling, NoCall
<1> QED BY <1>1, <1>2, <1>3 DEF RiskInv

-----------------------------------------------------------------------------
\* flag_risky_pool()
LEMMA SetFlagKept ==
    ASSUME RiskInv, NEW c \in Clients, NEW p \in SpotPools, SetFlag(c, p)
    PROVE  RiskInv'
<1> DEFINE x == [NoCall EXCEPT !.step = "count", !.pool = p]
<1>1. x \in RiskCalls /\ x.step = "count" /\ x.pool = p
  BY DEF NoCall, RiskCalls, FlaggingSteps
<1>2. /\ call' = [call EXCEPT ![c] = x] /\ call[c].step = "idle"
      /\ flags' = [flags EXCEPT ![p] = @ + 1] /\ risk' = risk \cup {p}
      /\ UNCHANGED <<count, published, broken>>
  BY DEF SetFlag, Calling
<1> HIDE DEF x
<1>3. RiskTypes'
  BY <1>1, <1>2 DEF RiskInv, RiskTypes
<1>4. FlagsAreCounted'
  <2>1. ASSUME NEW q, NEW steps
        PROVE  /\ InCall(q, steps) \in Nat
               /\ InCall(q, steps)' = InCall(q, steps)
                    - Counts(call[c], q, steps) + Counts(x, q, steps)
    BY <1>1, <1>2, CallMoves DEF RiskInv
  <2>2. ASSUME NEW q \in SpotPools
        PROVE  /\ InCall(q, {"meta", "publish"})' = InCall(q, {"meta", "publish"})
               /\ InCall(q, {"count"})' = InCall(q, {"count"}) + (IF p = q THEN 1 ELSE 0)
               /\ InCall(q, FlaggingSteps)' =
                    InCall(q, FlaggingSteps) + (IF p = q THEN 1 ELSE 0)
               /\ InCall(q, {"meta", "publish"}) \in Nat /\ InCall(q, {"count"}) \in Nat
               /\ InCall(q, FlaggingSteps) \in Nat
    BY <1>1, <1>2, <2>1 DEF FlaggingSteps, Counts
  <2>3. ASSUME NEW q \in SpotPools
        PROVE  /\ published'[q] = published[q] /\ count'[q] = count[q]
               /\ broken'[q] = broken[q]
               /\ flags'[q] = flags[q] + (IF p = q THEN 1 ELSE 0)
               /\ published[q] \in Nat /\ count[q] \in Nat /\ broken[q] \in Nat
               /\ flags[q] \in Nat
    BY <1>2 DEF RiskInv, RiskTypes
  <2> QED BY <2>2, <2>3, CountingRelations, CountingRelationsNext DEF RiskInv
<1>5. AnswersOK'
  <2>1. \A q \in SpotPools : flags[q] > 0 => flags'[q] > 0
    BY <1>2 DEF RiskInv, RiskTypes
  <2>2. flags'[p] > 0
    BY <1>2 DEF RiskInv, RiskTypes
  <2>3. \A d \in Clients : Calling(d, "read")' => call'[d] = call[d] /\ Calling(d, "read")
    BY <1>1, <1>2 DEF Calling, RiskInv, RiskTypes
  <2>4. \A d \in Clients : /\ call[d].todo \subseteq SpotPools
                           /\ \A answer \in call[d].list : answer.pool \in SpotPools
    BY DEF RiskInv, RiskTypes, RiskCalls, PoolAnswers
  <2> QED BY <1>2, <2>1, <2>2, <2>3, <2>4 DEF RiskInv, RiskTypes, AnswersOK
<1> QED BY <1>3, <1>4, <1>5 DEF RiskInv

\* A step of flag_risky_pool() behind the first leaves the readers alone.
LEMMA FlaggingAnswers ==
    ASSUME RiskInv, NEW c \in Clients, NEW x \in RiskCalls, x.step # "read",
           call' = [call EXCEPT ![c] = x], UNCHANGED <<risk, flags>>
    PROVE  AnswersOK'
<1>1. \A d \in Clients : Calling(d, "read")' => call'[d] = call[d] /\ Calling(d, "read")
  BY DEF Calling, RiskInv, RiskTypes
<1> QED BY <1>1 DEF RiskInv, AnswersOK

\* The counter gets what the call has been missing in it.
LEMMA CountKept ==
    ASSUME RiskInv, NEW c \in Clients, Count(c)
    PROVE  RiskInv'
<1> DEFINE p == call[c].pool
<1>1. PICK step \in {"meta", "publish"} : call' = [call EXCEPT ![c].step = step]
  BY DEF Count, Become
<1>2. PICK x \in RiskCalls : x = [call[c] EXCEPT !.step = step]
  BY CallsAreTyped DEF RiskInv, FlaggingSteps
<1>3. /\ call' = [call EXCEPT ![c] = x] /\ x.step = step /\ x.pool = p
      /\ p \in SpotPools /\ call[c].step = "count"
      /\ count' = [count EXCEPT ![p] = @ + 1]
      /\ UNCHANGED <<risk, flags, published, broken>>
  BY <1>1, <1>2 DEF Count, Calling, RiskInv, RiskTypes, RiskCalls, FlaggingSteps
<1>4. RiskTypes'
  BY <1>3 DEF RiskInv, RiskTypes
<1>5. FlagsAreCounted'
  <2>1. ASSUME NEW q, NEW steps
        PROVE  /\ InCall(q, steps) \in Nat
               /\ InCall(q, steps)' = InCall(q, steps)
                    - Counts(call[c], q, steps) + Counts(x, q, steps)
    BY <1>3, CallMoves DEF RiskInv
  <2>2. ASSUME NEW q \in SpotPools
        PROVE  /\ InCall(q, {"meta", "publish"})' =
                    InCall(q, {"meta", "publish"}) + (IF p = q THEN 1 ELSE 0)
               /\ InCall(q, {"count"})' = InCall(q, {"count"}) - (IF p = q THEN 1 ELSE 0)
               /\ InCall(q, FlaggingSteps)' = InCall(q, FlaggingSteps)
               /\ InCall(q, {"meta", "publish"}) \in Nat /\ InCall(q, {"count"}) \in Nat
               /\ InCall(q, FlaggingSteps) \in Nat
    BY <1>3, <2>1 DEF FlaggingSteps, Counts
  <2>3. ASSUME NEW q \in SpotPools
        PROVE  /\ published'[q] = published[q] /\ flags'[q] = flags[q]
               /\ broken'[q] = broken[q]
               /\ count'[q] = count[q] + (IF p = q THEN 1 ELSE 0)
               /\ published[q] \in Nat /\ count[q] \in Nat /\ broken[q] \in Nat
               /\ flags[q] \in Nat
    BY <1>3 DEF RiskInv, RiskTypes
  <2> QED BY <2>2, <2>3, CountingRelations, CountingRelationsNext DEF RiskInv
<1>6. AnswersOK'
  BY <1>3, FlaggingAnswers
<1> QED BY <1>4, <1>5, <1>6 DEF RiskInv

\* The metadata changes neither flags nor counters.
LEMMA SetMetadataKept ==
    ASSUME RiskInv, NEW c \in Clients, SetMetadata(c)
    PROVE  RiskInv'
<1> DEFINE p == call[c].pool
<1>1. PICK x \in RiskCalls : x = [call[c] EXCEPT !.step = "publish"]
  BY CallsAreTyped DEF RiskInv, FlaggingSteps
<1>2. /\ call' = [call EXCEPT ![c] = x] /\ x.step = "publish" /\ x.pool = p
      /\ p \in SpotPools /\ call[c].step = "meta"
      /\ UNCHANGED <<risk, count, flags, published, broken>>
  BY <1>1 DEF SetMetadata, Become, Calling, RiskInv, RiskTypes, RiskCalls, FlaggingSteps
<1>3. RiskTypes'
  BY <1>2 DEF RiskInv, RiskTypes
<1>4. FlagsAreCounted'
  <2>1. ASSUME NEW q, NEW steps
        PROVE  /\ InCall(q, steps) \in Nat
               /\ InCall(q, steps)' = InCall(q, steps)
                    - Counts(call[c], q, steps) + Counts(x, q, steps)
    BY <1>2, CallMoves DEF RiskInv
  <2>2. ASSUME NEW q \in SpotPools
        PROVE  /\ InCall(q, {"meta", "publish"})' = InCall(q, {"meta", "publish"})
               /\ InCall(q, {"count"})' = InCall(q, {"count"})
               /\ InCall(q, FlaggingSteps)' = InCall(q, FlaggingSteps)
    BY <1>2, <2>1 DEF FlaggingSteps, Counts
  <2> QED BY <1>2, <2>2, CountingRelations, CountingRelationsNext DEF RiskInv
<1>5. AnswersOK'
  BY <1>2, FlaggingAnswers
<1> QED BY <1>3, <1>4, <1>5 DEF RiskInv

\* The last step of flag_risky_pool(), or the one it breaks off at
LEMMA FlaggingEnds ==
    ASSUME RiskInv, NEW c \in Clients, Publish(c) \/ BreakOff(c)
    PROVE  RiskInv'
<1> DEFINE p == call[c].pool
<1>1. /\ call' = [call EXCEPT ![c] = NoCall] /\ p \in SpotPools
      /\ call[c].step \in FlaggingSteps
      /\ UNCHANGED <<risk, count, flags>>
      /\ \/ /\ call[c].step = "publish" /\ UNCHANGED broken
            /\ published' = [published EXCEPT ![p] = @ + 1]
         \/ UNCHANGED published /\ broken' = [broken EXCEPT ![p] = @ + 1]
  BY DEF Publish, BreakOff, Calling, RiskInv, RiskTypes, FlaggingSteps
<1>2. NoCall \in RiskCalls /\ NoCall.step = "idle"
  BY NoCallIsTyped DEF NoCall
<1>3. RiskTypes'
  BY <1>1, <1>2 DEF RiskInv, RiskTypes, FlaggingSteps
<1>4. FlagsAreCounted'
  <2>1. ASSUME NEW q, NEW steps
        PROVE  /\ InCall(q, steps) \in Nat
               /\ InCall(q, steps)' = InCall(q, steps)
                    - Counts(call[c], q, steps) + Counts(NoCall, q, steps)
    <3>1. RiskTypes /\ NoCall \in RiskCalls /\ call' = [call EXCEPT ![c] = NoCall]
      BY <1>1, <1>2 DEF RiskInv
    <3> QED BY <3>1, CallMoves
  <2>2. ASSUME NEW q \in SpotPools
        PROVE  /\ InCall(q, {"meta", "publish"})' = InCall(q, {"meta", "publish"})
                    - (IF p = q /\ call[c].step \in {"meta", "publish"} THEN 1 ELSE 0)
               /\ InCall(q, {"count"})' <= InCall(q, {"count"})
               /\ InCall(q, FlaggingSteps)' =
                    InCall(q, FlaggingSteps) - (IF p = q THEN 1 ELSE 0)
               /\ InCall(q, {"meta", "publish"}) \in Nat /\ InCall(q, {"count"}) \in Nat
               /\ InCall(q, FlaggingSteps) \in Nat /\ InCall(q, {"count"})' \in Int
    BY <1>1, <1>2, <2>1 DEF FlaggingSteps, Counts
  <2>3. ASSUME NEW q \in SpotPools
        PROVE  /\ flags'[q] = flags[q] /\ count'[q] = count[q]
               /\ published[q] \in Nat /\ count[q] \in Nat /\ broken[q] \in Nat
               /\ flags[q] \in Nat
               /\ \/ /\ call[c].step = "publish" /\ broken'[q] = broken[q]
                     /\ published'[q] = published[q] + (IF p = q THEN 1 ELSE 0)
                  \/ /\ published'[q] = published[q]
                     /\ broken'[q] = broken[q] + (IF p = q THEN 1 ELSE 0)
    BY <1>1 DEF RiskInv, RiskTypes
  <2> QED BY <2>2, <2>3, CountingRelations, CountingRelationsNext DEF RiskInv
<1>5. AnswersOK'
  BY <1>1, <1>2, FlaggingAnswers
<1> QED BY <1>3, <1>4, <1>5 DEF RiskInv

-----------------------------------------------------------------------------
\* The readers
LEMMA ReadKept ==
    ASSUME RiskInv, NEW c \in Clients, NEW pools \in SUBSET risk, Read(c, pools)
    PROVE  RiskInv'
<1> DEFINE x == [NoCall EXCEPT !.step = "read", !.todo = pools, !.held = pools]
<1>1. /\ x \in RiskCalls /\ x.step = "read" /\ x.pool = None /\ x.todo = pools
      /\ x.held = pools /\ x.list = {}
  BY DEF NoCall, RiskCalls, RiskInv, RiskTypes
<1>2. /\ call' = [call EXCEPT ![c] = x] /\ call[c].step = "idle"
      /\ UNCHANGED <<risk, count, flags, published, broken>>
  BY DEF Read, Calling
<1> HIDE DEF x
<1>3. RiskTypes'
  BY <1>1, <1>2 DEF RiskInv, RiskTypes, FlaggingSteps
<1>4. FlagsAreCounted'
  <2>1. ASSUME NEW q, NEW steps, "idle" \notin steps, "read" \notin steps
        PROVE  InCall(q, steps)' = InCall(q, steps)
    <3>1. /\ InCall(q, steps) \in Nat
          /\ InCall(q, steps)' = InCall(q, steps)
               - Counts(call[c], q, steps) + Counts(x, q, steps)
      BY <1>1, <1>2, CallMoves DEF RiskInv
    <3> QED BY <1>1, <1>2, <2>1, <3>1 DEF Counts
  <2> QED BY <1>2, <2>1, CountingRelations, CountingRelationsNext
     DEF RiskInv, FlaggingSteps
<1>5. AnswersOK'
  <2>1. \A d \in Clients \ {c} : call'[d] = call[d]
    BY <1>2 DEF RiskInv, RiskTypes
  <2>2. call'[c] = x
    BY <1>2 DEF RiskInv, RiskTypes
  <2> QED BY <1>1, <1>2, <2>1, <2>2 DEF RiskInv, AnswersOK, Calling
<1> QED BY <1>3, <1>4, <1>5 DEF RiskInv

\* A pool that is asked for its time goes into the answer.
LEMMA ReadTimeKept ==
    ASSUME RiskInv, NEW c \in Clients, NEW p \in SpotPools, ReadTime(c, p)
    PROVE  RiskInv'
<1> DEFINE answer == [pool |-> p, ttl |-> TimeLeft(p)]
           x == [call[c] EXCEPT !.todo = @ \ {p}, !.list = @ \cup {answer}]
<1>1. answer \in PoolAnswers /\ answer.pool = p /\ (answer.ttl < 0 => p \notin risk)
  BY DEF TimeLeft, PoolAnswers
<1>2. /\ call' = [call EXCEPT ![c] = x] /\ call[c].step = "read" /\ p \in call[c].todo
      /\ UNCHANGED <<risk, count, flags, published, broken>>
  BY DEF ReadTime, Calling
<1> HIDE DEF answer
<1>3. /\ x \in RiskCalls /\ x.step = "read" /\ x.pool = call[c].pool
      /\ x.todo = call[c].todo \ {p} /\ x.held = call[c].held
      /\ x.list = call[c].list \cup {answer}
  BY <1>1, <1>2 DEF RiskCalls, RiskInv, RiskTypes
<1> HIDE DEF x
<1>4. \A d \in Clients \ {c} : call'[d] = call[d]
  BY <1>2 DEF RiskInv, RiskTypes
<1>5. call'[c] = x
  BY <1>2 DEF RiskInv, RiskTypes
<1>6. RiskTypes'
  BY <1>2, <1>3 DEF RiskInv, RiskTypes, FlaggingSteps
<1>7. FlagsAreCounted'
  BY <1>2, <1>3, <1>4, <1>5, CountsStay DEF RiskInv
<1>8. AnswersOK'
  <2>1. flags[p] > 0
    BY <1>2 DEF RiskInv, AnswersOK, Calling
  <2>2. \A a \in x.list : flags[a.pool] > 0 /\ (a.ttl < 0 => a.pool \notin x.held)
    BY <1>1, <1>2, <1>3, <2>1 DEF RiskInv, AnswersOK, Calling
  <2>3. x.held \subseteq x.todo \cup {a.pool : a \in x.list}
    BY <1>1, <1>2, <1>3 DEF RiskInv, AnswersOK, Calling
  <2>4. \A q \in x.todo : flags[q] > 0
    BY <1>2, <1>3 DEF RiskInv, AnswersOK, Calling
  <2>5. x.held \subseteq risk
    BY <1>2, <1>3 DEF RiskInv, AnswersOK, Calling
  <2> QED BY <1>2, <1>4, <1>5, <2>2, <2>3, <2>4, <2>5 DEF RiskInv, AnswersOK, Calling
<1> QED BY <1>6, <1>7, <1>8 DEF RiskInv

\* A call that answers is over.
LEMMA AnswerKept ==
    ASSUME RiskInv, NEW c \in Clients, Answer(c)
    PROVE  RiskInv'
<1>1. /\ call' = [call EXCEPT ![c] = NoCall] /\ call[c].step = "read"
      /\ UNCHANGED <<risk, count, flags, published, broken>>
  BY DEF Answer, Calling
<1>2. NoCall \in RiskCalls /\ NoCall.step = "idle"
  BY NoCallIsTyped DEF NoCall
<1>3. RiskTypes'
  BY <1>1, <1>2 DEF RiskInv, RiskTypes, FlaggingSteps
<1>4. FlagsAreCounted'
  <2>1. ASSUME NEW q, NEW steps, "idle" \notin steps, "read" \notin steps
        PROVE  InCall(q, steps)' = InCall(q, steps)
    <3>1. /\ InCall(q, steps) \in Nat
          /\ InCall(q, steps)' = InCall(q, steps)
               - Counts(call[c], q, steps) + Counts(NoCall, q, steps)
      BY <1>1, <1>2, CallMoves DEF RiskInv
    <3> QED BY <1>1, <1>2, <2>1, <3>1 DEF Counts
  <2> QED BY <1>1, <2>1, CountingRelations, CountingRelationsNext
     DEF RiskInv, FlaggingSteps
<1>5. AnswersOK'
  BY <1>1, <1>2, FlaggingAnswers
<1> QED BY <1>3, <1>4, <1>5 DEF RiskInv

\* The key of a pool is cleared or runs out.
LEMMA KeyGoneKept ==
    ASSUME RiskInv, NEW p \in SpotPools, risk' = risk \ {p}, call' = KeyGone(p),
           UNCHANGED <<count, flags, published, broken>>
    PROVE  RiskInv'
<1>1. ASSUME NEW c \in Clients
      PROVE  /\ call'[c] \in RiskCalls /\ call'[c].step = call[c].step
             /\ call'[c].pool = call[c].pool /\ call'[c].todo = call[c].todo
             /\ call'[c].list = call[c].list /\ call'[c].held = call[c].held \ {p}
  BY DEF KeyGone, RiskCalls, RiskInv, RiskTypes
<1>2. RiskTypes'
  <2>1. call' \in [Clients -> RiskCalls]
    BY <1>1 DEF KeyGone
  <2> QED BY <1>1, <2>1 DEF RiskInv, RiskTypes
<1>3. FlagsAreCounted'
  BY <1>1, CountsStay DEF RiskInv
<1>4. AnswersOK'
  BY <1>1 DEF RiskInv, AnswersOK, Calling
<1> QED BY <1>2, <1>3, <1>4 DEF RiskInv

-----------------------------------------------------------------------------
\* Whatever calls interleave, break off or cross the end of a flag, the
\* invariant holds.
THEOREM RiskInvariance == RiskSpec => []RiskInv
<1>1. RiskInv /\ [RiskNext]_riskVars => RiskInv'
  <2> SUFFICES ASSUME RiskInv, [RiskNext]_riskVars PROVE RiskInv'
    OBVIOUS
  <2>1. ASSUME UNCHANGED <<risk, count, call, flags, published, broken>> PROVE RiskInv'
    <3>1. RiskTypes'
      BY <2>1 DEF RiskInv, RiskTypes
    <3>2. FlagsAreCounted'
      BY <2>1, CountsStay DEF RiskInv
    <3>3. AnswersOK'
      BY <2>1 DEF RiskInv, AnswersOK, Calling
    <3> QED BY <3>1, <3>2, <3>3 DEF RiskInv
  <2>2. CASE UNCHANGED riskVars
    BY <2>1, <2>2 DEF riskVars
  <2>3. ASSUME NEW p \in SpotPools, ClearFlag(p) \/ ExpireFlag(p) PROVE RiskInv'
    BY <2>3, KeyGoneKept DEF ClearFlag, ExpireFlag
  <2>4. ASSUME NEW p \in SpotPools, ExpireMetadata(p) PROVE RiskInv'
    BY <2>1, <2>4 DEF ExpireMetadata
  <2>5. ASSUME NEW c \in Clients, NEW p \in SpotPools, CheckPool(c, p) PROVE RiskInv'
    BY <2>5, ReadKept DEF CheckPool
  <2>6. ASSUME NEW c \in Clients, AllPools(c) PROVE RiskInv'
    BY <2>6, ReadKept DEF AllPools
  <2> QED BY <2>2, <2>3, <2>4, <2>5, <2>6, SetFlagKept, CountKept, SetMetadataKept,
            FlaggingEnds, ReadTimeKept, AnswerKept DEF RiskNext
<1> QED BY RiskInitial, <1>1, PTL DEF RiskSpec

\* Any number of clients flag, clear and list any pools: every flag is counted
\* but those of calls still at their first step or broken there, no publication
\* goes uncounted, and a pool that was flagged throughout is in the answer of
\* get_all_risky_pools.
THEOREM FlaggedRisksAreKnown == RiskSpec => []RisksAreKnown
<1>1. RiskInv => RisksAreKnown
  BY DEF RiskInv, RisksAreKnown, AnswersOK, AnswerMatchesFlag
<1> QED BY <1>1, RiskInvariance, PTL

-----------------------------------------------------------------------------
(***************************************************************************)
(* AwsScripts: what a script knows of the instance and the volumes it      *)
(* works on stays true until it acts, since no other script is given them. *)
(***************************************************************************)
\* Where a script can be, and what it can end with
Places == {"idle", "end", "describe", "run", "preserve", "wait", "snapshot", "detach",
           "update", "suspend", "resume"}
Results == {"none", "failed", "ok", "dry", "already", "no capacity"}

\* The answers of AWS and what a shell keeps
Groups == [desired : Int, min : Int, max : Int, suspended : SUBSET Processes]

Jobs ==
    [at : Places, cmd : Commands \cup {Idle.cmd}, result : Results, number : Nat,
     todo : SUBSET Volumes, kept : SUBSET Volumes, found : SUBSET Volumes, next : Nat,
     refused : SUBSET Nat, id : Ids, seen : Groups \cup {<<>>},
     disturbed : BOOLEAN, overwritten : BOOLEAN]

InstanceRows == [state : {"none", "running", "shutting-down", "terminated"},
              zone : Zones \cup {Unset}, run : Nat]

EbsVolumes == [state : {"in-use", "available", "deleted"}, at : Ids, delete : BOOLEAN]

\* Types of the scripts and of what they work on
ScriptTypes ==
    /\ job \in [Shells -> Jobs] /\ runs \in Nat
    /\ inst \in [Ids -> InstanceRows] /\ vol \in [Volumes -> EbsVolumes] /\ asg \in Groups

\* The places of each script; only a script that has ended has a result.
PlaceOK(s) ==
    /\ s.cmd.script = "none" => s.at = "idle"
    /\ s.cmd.script = "launch" => s.at \in {"run", "end"}
    /\ s.cmd.script = "terminate" => s.at \in {"describe", "preserve", "wait", "end"}
    /\ s.cmd.script = "detach" => s.at \in {"describe", "snapshot", "detach", "wait", "end"}
    /\ s.cmd.script = "update" => s.at \in {"describe", "update", "suspend", "resume", "end"}
    /\ s.at # "idle" => s.number > 0
    /\ s.at # "end" => s.result = "none"

\* What terminate_instance has done to the volumes it found
KeepsOK(s, volumes) ==
    s.cmd.script = "terminate" =>
      /\ s.at = "wait" \/ s.result = "ok" => s.todo = {} /\ ~s.cmd.dryRun
      /\ /\ s.at \in {"preserve", "wait"} \/ s.result = "ok"
         /\ s.cmd.preserve /\ ~s.cmd.dryRun
         => \A v \in s.found \ s.todo : volumes[v].delete = FALSE

\* Where the search of launch_spot is
RefusalsOK(s) ==
    /\ s.cmd.script = "launch" /\ s.at = "run" /\ ~s.cmd.dryRun =>
         \A k \in Nat \ {0} : k < s.next => k \in s.refused
    /\ s.result = "no capacity" =>
         \A k \in 1 .. Len(s.cmd.types) :
           \/ k \in s.refused
           \/ \E m \in s.refused : m < k /\ s.cmd.types[m] = s.cmd.types[Len(s.cmd.types)]

\* Two descriptions of the group that differ in suspended processes only
SameSizes(g, h) == g.desired = h.desired /\ g.min = h.min /\ g.max = h.max

\* The group has the sizes that were asked for.
SizesGiven(c, g) ==
    /\ Given(c.desired, g.desired) = g.desired
    /\ Given(c.min, g.min) = g.min /\ Given(c.max, g.max) = g.max

\* What update_asg has read, and what it has made of it
SizesOK(s, g) ==
    s.cmd.script = "update" =>
      /\ s.at \in {"update", "suspend", "resume"} \/ s.result = "ok" => s.seen \in Groups
      /\ s.at = "update" /\ ~s.disturbed => SameSizes(g, s.seen)
      /\ (s.at \in {"suspend", "resume"} \/ s.result = "ok") /\ ~s.disturbed =>
           IF HasUpdates(s.cmd)
             THEN /\ g.min = Given(s.cmd.min, s.seen.min)
                  /\ g.max = Given(s.cmd.max, s.seen.max)
                  /\ g.desired = Given(s.cmd.desired, Clamp(s.seen.desired, g.min, g.max))
             ELSE SameSizes(g, s.seen)
      /\ (s.at \in {"suspend", "resume"} \/ s.result = "ok") /\ ~s.overwritten =>
           SizesGiven(s.cmd, g)

\* What is true of each script
JobOK(s, volumes, g) ==
    PlaceOK(s) /\ KeepsOK(s, volumes) /\ RefusalsOK(s) /\ SizesOK(s, g)

\* Runs are numbered, each by its own number.
NumbersOK ==
    /\ \A j \in Shells : job[j].number <= runs
    /\ \A j, k \in Shells : j # k /\ job[j].number = job[k].number => job[j].number = 0
    /\ \A i \in Ids : inst[i].run <= runs

\* The inductive invariant: a volume that was deleted had its flag set, so one
\* whose flag a script has cleared stays.
ScriptInv ==
    /\ ScriptTypes
    /\ \A v \in Volumes : vol[v].state = "deleted" => vol[v].delete = TRUE
    /\ \A j \in Shells : JobOK(job[j], vol, asg)
    /\ NumbersOK /\ OneInstancePerRun

-----------------------------------------------------------------------------
\* A command is one of the four scripts with its arguments.
LEMMA ScriptCommands ==
    ASSUME NEW c \in Commands
    PROVE  /\ c.script \in {"launch", "terminate", "detach", "update"}
           /\ c.script = "launch" => LaunchCommand(c)
           /\ c.script = "terminate" => TerminateCommand(c)
           /\ c.script = "detach" => DetachCommand(c)
           /\ c.script = "update" => UpdateCommand(c)
BY CommandsAssumption DEF LaunchCommand, TerminateCommand, DetachCommand, UpdateCommand

\* A shell that runs nothing
LEMMA IdleIsFine == Idle \in Jobs /\ \A volumes, g : JobOK(Idle, volumes, g)
BY IdsAssumption DEF Idle, Jobs, Places, Results, JobOK, PlaceOK, KeepsOK, RefusalsOK,
   SizesOK

\* A script that runs is one of the commands, and has no result yet.
LEMMA RunningScript ==
    ASSUME ScriptInv, NEW j \in Shells, job[j].at \notin {"idle", "end"}
    PROVE  /\ job[j] \in Jobs /\ job[j].cmd \in Commands /\ job[j].result = "none"
           /\ job[j].number > 0 /\ JobOK(job[j], vol, asg)
           /\ \A i \in Ids : inst[i].run # job[j].number
<1>1. job[j] \in Jobs /\ JobOK(job[j], vol, asg)
  BY DEF ScriptInv, ScriptTypes
<1>2. job[j].result = "none" /\ job[j].number > 0 /\ job[j].cmd.script # "none"
  BY <1>1 DEF JobOK, PlaceOK
<1>3. job[j].cmd \in Commands
  BY <1>1, <1>2 DEF Jobs, Idle
<1>4. \A i \in Ids : inst[i].run # job[j].number
  BY <1>2 DEF ScriptInv, OneInstancePerRun
<1> QED BY <1>1, <1>2, <1>3, <1>4

\* A script that fails promises nothing.
LEMMA FailedIsFine ==
    ASSUME ScriptInv, NEW j \in Shells, job[j].at \notin {"idle", "end"}
    PROVE  /\ Failed(j) \in Jobs /\ Failed(j).cmd = job[j].cmd
           /\ Failed(j).number = job[j].number
           /\ \A volumes, g : JobOK(Failed(j), volumes, g)
BY RunningScript DEF Failed, End, Jobs, Places, Results, JobOK, PlaceOK, KeepsOK,
                     RefusalsOK, SizesOK

\* What the jobs rely on stays true of those that a step does not touch.
LEMMA OtherJobs ==
    ASSUME ScriptInv, NEW s \in Jobs, NEW volumes \in [Volumes -> EbsVolumes],
           JobOK(s, vol, asg), NEW g \in Groups, SameSizes(g, asg),
           \A v \in Volumes : vol[v].delete = FALSE => volumes[v].delete = FALSE
    PROVE  JobOK(s, volumes, g)
<1>1. KeepsOK(s, volumes)
  BY DEF JobOK, KeepsOK, Jobs
<1>2. SizesOK(s, g)
  BY DEF JobOK, SizesOK, SameSizes, SizesGiven
<1> QED BY <1>1, <1>2 DEF JobOK

\* A step of a script that launches nothing and keeps the sizes of the group.
LEMMA ScriptStep ==
    ASSUME ScriptInv, NEW j \in Shells, job[j].at \notin {"idle", "end"}, NEW x \in Jobs,
           job' = [job EXCEPT ![j] = x], x.cmd = job[j].cmd, x.number = job[j].number,
           JobOK(x, vol', asg'), runs' = runs,
           inst' \in [Ids -> InstanceRows],
           \A i \in Ids : inst'[i].run = inst[i].run /\ inst'[i].zone = inst[i].zone,
           vol' \in [Volumes -> EbsVolumes],
           \A v \in Volumes : /\ vol[v].delete = FALSE => vol'[v].delete = FALSE
                              /\ vol'[v].state = "deleted" => vol'[v].delete = TRUE,
           asg' \in Groups, SameSizes(asg', asg)
    PROVE  ScriptInv'
<1>1. /\ job'[j] = x /\ \A k \in Shells \ {j} : job'[k] = job[k]
      /\ job \in [Shells -> Jobs] /\ runs \in Nat
  BY DEF ScriptInv, ScriptTypes
<1>2. ScriptTypes'
  BY DEF ScriptInv, ScriptTypes
<1>3. \A k \in Shells : JobOK(job'[k], vol', asg')
  <2>1. \A k \in Shells \ {j} : JobOK(job[k], vol', asg')
    BY <1>1, OtherJobs DEF ScriptInv
  <2> QED BY <1>1, <2>1
<1>4. \A k \in Shells : job'[k].number = job[k].number /\ job'[k].cmd = job[k].cmd
  BY <1>1
<1>5. NumbersOK'
  BY <1>4 DEF ScriptInv, NumbersOK
<1>6. OneInstancePerRun'
  <2>1. \A i \in Ids : inst[i].run # job[j].number
    BY RunningScript
  <2> QED BY <1>1, <1>4, <2>1 DEF ScriptInv, OneInstancePerRun
<1> QED BY <1>2, <1>3, <1>5, <1>6 DEF ScriptInv

\* A step that changes nothing but the job
LEMMA JobStep ==
    ASSUME ScriptInv, NEW j \in Shells, job[j].at \notin {"idle", "end"}, NEW x \in Jobs,
           job' = [job EXCEPT ![j] = x], x.cmd = job[j].cmd, x.number = job[j].number,
           JobOK(x, vol, asg), UNCHANGED <<runs, inst, vol, asg>>
    PROVE  ScriptInv'
BY ScriptStep DEF ScriptInv, ScriptTypes, SameSizes

\* A call that fails without effect
LEMMA FailedStep ==
    ASSUME ScriptInv, NEW j \in Shells, job[j].at \notin {"idle", "end"},
           job' = [job EXCEPT ![j] = Failed(j)], UNCHANGED <<runs, inst, vol, asg>>
    PROVE  ScriptInv'
BY FailedIsFine, JobStep

\* No shell runs a script.
LEMMA ScriptInitial == Init => ScriptInv
<1> SUFFICES ASSUME Init PROVE ScriptInv
  OBVIOUS
<1>1. ScriptTypes
  BY IdleIsFine, IdsAssumption DEF Init, ScriptTypes, InstanceRows, EbsVolumes, Groups
<1>2. \A j \in Shells : JobOK(job[j], vol, asg)
  BY IdleIsFine DEF Init
<1>3. NumbersOK /\ OneInstancePerRun
  BY DEF Init, NumbersOK, OneInstancePerRun, Idle
<1> QED BY <1>1, <1>2, <1>3 DEF ScriptInv, Init

-----------------------------------------------------------------------------
\* A script starts with a number of its own.
LEMMA StartKept ==
    ASSUME ScriptInv, NEW j \in Shells, Start(j)
    PROVE  ScriptInv'
<1>1. PICK c \in Commands :
        job' = [job EXCEPT ![j] =
                  [Idle EXCEPT !.at = FirstPlace(c), !.cmd = c, !.number = runs + 1,
                               !.result = IF FirstPlace(c) = "end"
                                            THEN "failed" ELSE "none"]]
  BY DEF Start
<1>2. PICK x \in Jobs :
        /\ x = [Idle EXCEPT !.at = FirstPlace(c), !.cmd = c, !.number = runs + 1,
                            !.result = IF FirstPlace(c) = "end" THEN "failed" ELSE "none"]
        /\ x.at = FirstPlace(c) /\ x.cmd = c /\ x.number = runs + 1 /\ x.next = 1
        /\ x.result = IF FirstPlace(c) = "end" THEN "failed" ELSE "none"
  <2> DEFINE y == [Idle EXCEPT !.at = FirstPlace(c), !.cmd = c, !.number = runs + 1,
                            !.result = IF FirstPlace(c) = "end" THEN "failed" ELSE "none"]
  <2>1. y \in Jobs
    <3>1. FirstPlace(c) \in Places /\ runs + 1 \in Nat
      BY DEF FirstPlace, Places, ScriptInv, ScriptTypes
    <3>2. (IF FirstPlace(c) = "end" THEN "failed" ELSE "none") \in Results
      BY DEF Results
    <3> QED BY <3>1, <3>2, IdleIsFine DEF Jobs
  <2>2. /\ y.at = FirstPlace(c) /\ y.cmd = c /\ y.number = runs + 1 /\ y.next = 1
        /\ y.result = IF FirstPlace(c) = "end" THEN "failed" ELSE "none"
    BY DEF Idle
  <2> QED BY <2>1, <2>2
<1>3. JobOK(x, vol, asg)
  <2>1. /\ c.script = "launch" => x.at \in {"run", "end"}
        /\ c.script # "launch" => x.at = "describe"
        /\ x.at = "end" => x.result = "failed"
        /\ x.at # "end" => x.result = "none"
    BY <1>2 DEF FirstPlace
  <2>2. x.number > 0
    BY <1>2 DEF ScriptInv, ScriptTypes
  <2>3. \A k \in Nat \ {0} : ~(k < x.next)
    BY <1>2
  <2> QED BY <1>2, <2>1, <2>2, <2>3, ScriptCommands
          DEF JobOK, PlaceOK, KeepsOK, RefusalsOK, SizesOK
<1>4. /\ job' = [job EXCEPT ![j] = x] /\ runs' = runs + 1 /\ UNCHANGED <<inst, vol, asg>>
      /\ job'[j] = x /\ \A k \in Shells \ {j} : job'[k] = job[k]
  BY <1>1, <1>2 DEF Start, ScriptInv, ScriptTypes
<1>5. ScriptTypes'
  BY <1>4 DEF ScriptInv, ScriptTypes
<1>6. \A k \in Shells : JobOK(job'[k], vol', asg')
  BY <1>3, <1>4 DEF ScriptInv
<1>7. \A k \in Shells : job[k].number \in Nat /\ job[k].number <= runs
  BY DEF ScriptInv, ScriptTypes, NumbersOK, Jobs
<1>8. \A i \in Ids : inst[i].run \in Nat /\ inst[i].run <= runs
  BY DEF ScriptInv, ScriptTypes, NumbersOK, InstanceRows
<1>9. NumbersOK'
  BY <1>2, <1>4, <1>7, <1>8 DEF ScriptInv, ScriptTypes, NumbersOK
<1>10. OneInstancePerRun'
  <2>1. \A i \in Ids : inst[i].run # x.number
    BY <1>2, <1>8 DEF ScriptInv, ScriptTypes
  <2> QED BY <1>4, <2>1 DEF ScriptInv, OneInstancePerRun
<1> QED BY <1>4, <1>5, <1>6, <1>9, <1>10 DEF ScriptInv

\* A call fails before it had its effect, or after.
LEMMA CallFailsKept ==
    ASSUME ScriptInv, NEW j \in Shells, CallFails(j)
    PROVE  ScriptInv'
BY FailedStep DEF CallFails, Goto

-----------------------------------------------------------------------------
\* launch_spot
LEMMA RunInstancesKept ==
    ASSUME ScriptInv, NEW j \in Shells, RunInstances(j)
    PROVE  ScriptInv'
<1> DEFINE s == job[j]
<1>1. PICK i \in Ids, z \in Zones :
        /\ ZoneOf(s.cmd, z)
        /\ inst' = [inst EXCEPT ![i] = [state |-> "running", zone |-> z, run |-> s.number]]
        /\ \/ Goto(j, [End(j, "ok") EXCEPT !.id = i])
           \/ Goto(j, Unanswered(j))
  BY DEF RunInstances
<1>2. /\ s.cmd.script = "launch" /\ s.at = "run" /\ UNCHANGED <<runs, vol, asg>>
  BY DEF RunInstances, In
<1>3. /\ s \in Jobs /\ s.number > 0 /\ s.number <= runs /\ JobOK(s, vol, asg)
      /\ \A k \in Ids : inst[k].run # s.number
  BY <1>2, RunningScript DEF ScriptInv, NumbersOK
<1>4. \E x \in Jobs :
        /\ job' = [job EXCEPT ![j] = x] /\ x.cmd = s.cmd /\ x.number = s.number
        /\ JobOK(x, vol, asg)
        /\ x.result = "failed" \/ (x.result = "ok" /\ x.id = i)
  <2>1. CASE Goto(j, [End(j, "ok") EXCEPT !.id = i])
    <3> DEFINE y == [s EXCEPT !.at = "end", !.result = "ok", !.id = i]
    <3>1. job' = [job EXCEPT ![j] = y]
      BY <1>3, <2>1 DEF Goto, End, Jobs
    <3>2. y \in Jobs /\ y.cmd = s.cmd /\ y.number = s.number /\ y.result = "ok" /\ y.id = i
          /\ y.at = "end"
      BY <1>3 DEF Jobs, Places, Results
    <3>3. JobOK(y, vol, asg)
      BY <1>2, <1>3, <3>2 DEF JobOK, PlaceOK, KeepsOK, RefusalsOK, SizesOK
    <3> HIDE DEF y
    <3> QED BY <3>1, <3>2, <3>3
  <2>2. CASE Goto(j, Unanswered(j))
    <3>1. Failed(j).result = "failed"
      BY <1>3 DEF Failed, End, Jobs
    <3> QED BY <1>2, <2>2, <3>1, FailedIsFine DEF Goto, Unanswered
  <2> QED BY <1>1, <2>1, <2>2
<1>5. PICK x \in Jobs :
        /\ job' = [job EXCEPT ![j] = x] /\ x.cmd = s.cmd /\ x.number = s.number
        /\ JobOK(x, vol, asg)
        /\ x.result = "failed" \/ (x.result = "ok" /\ x.id = i)
  BY <1>4
<1>6. PICK new \in InstanceRows : new = [state |-> "running", zone |-> z, run |-> s.number]
  BY <1>3 DEF InstanceRows, Jobs
<1>7. /\ inst' = [inst EXCEPT ![i] = new] /\ new.run = s.number /\ new.zone = z
  BY <1>1, <1>6
<1>8. /\ job'[j] = x /\ \A k \in Shells \ {j} : job'[k] = job[k]
      /\ inst'[i] = new /\ \A k \in Ids \ {i} : inst'[k] = inst[k]
  BY <1>5, <1>7 DEF ScriptInv, ScriptTypes
<1>9. ScriptTypes'
  BY <1>2, <1>5, <1>7 DEF ScriptInv, ScriptTypes
<1>10. \A k \in Shells : JobOK(job'[k], vol', asg')
  BY <1>2, <1>5, <1>8 DEF ScriptInv
<1>11. NumbersOK'
  BY <1>2, <1>3, <1>5, <1>7, <1>8 DEF ScriptInv, NumbersOK
<1>12. OneInstancePerRun'
  <2>1. \A k \in Shells \ {j} : job[k].number # s.number
    BY <1>3 DEF ScriptInv, NumbersOK
  <2>2. x.cmd.zone \in {Unset, z} \/ x.cmd.image = "template"
    BY <1>1, <1>5 DEF ZoneOf
  <2>3. \A k \in Ids \ {i} : inst'[k].run # x.number /\ inst'[k].run = inst[k].run
    BY <1>3, <1>5, <1>8
  <2>4. \A k \in Shells : job'[k].number = inst'[i].run => k = j
    BY <1>5, <1>7, <1>8, <2>1
  <2>5. \A k \in Ids \ {i}, l \in Shells : job'[l].number = inst'[k].run =>
          l # j /\ job'[l] = job[l] /\ inst'[k] = inst[k]
    BY <1>8, <2>3
  <2>6. \A k \in Ids \ {i} : inst'[k].run # inst'[i].run
    BY <1>3, <1>7, <1>8
  <2> QED BY <1>5, <1>7, <1>8, <2>2, <2>4, <2>5, <2>6 DEF ScriptInv, OneInstancePerRun
<1> QED BY <1>2, <1>9, <1>10, <1>11, <1>12 DEF ScriptInv

\* A type that is refused is remembered; the search ends at the last one, or at
\* one of the same name.
LEMMA NoCapacityKept ==
    ASSUME ScriptInv, NEW j \in Shells, NoCapacity(j)
    PROVE  ScriptInv'
<1> DEFINE s == job[j]
<1>1. /\ s.cmd.script = "launch" /\ s.at = "run" /\ ~s.cmd.dryRun
      /\ UNCHANGED <<runs, inst, vol, asg>>
  BY DEF NoCapacity, In
<1>2. /\ s \in Jobs /\ JobOK(s, vol, asg) /\ s.number > 0 /\ s.result = "none"
      /\ s.cmd \in Commands
  BY <1>1, RunningScript
<1>3. CASE IsLast(j)
  <2>1. PICK x \in Jobs : x = [s EXCEPT !.at = "end", !.result = "no capacity",
                                        !.refused = s.refused \cup {s.next}]
    BY <1>2 DEF Jobs, Places, Results
  <2>2. job' = [job EXCEPT ![j] = x]
    BY <1>2, <1>3, <2>1 DEF NoCapacity, Goto, End, Jobs
  <2>3. /\ x.cmd = s.cmd /\ x.number = s.number /\ x.at = "end" /\ x.result = "no capacity"
        /\ x.refused = s.refused \cup {s.next} /\ s.next \in Nat
    BY <1>2, <2>1 DEF Jobs
  <2>4. \A k \in 1 .. Len(x.cmd.types) :
          \/ k \in x.refused
          \/ \E m \in x.refused : m < k /\ x.cmd.types[m] = x.cmd.types[Len(x.cmd.types)]
    <3>1. TAKE k \in 1 .. Len(x.cmd.types)
    <3>2. Len(x.cmd.types) \in Nat
      BY <1>1, <1>2, <2>3, ScriptCommands DEF LaunchCommand
    <3>3. k \in Nat \ {0}
      BY <3>2
    <3>4. x.cmd.types[s.next] = x.cmd.types[Len(x.cmd.types)] /\ s.next \in x.refused
      BY <1>3, <2>3 DEF IsLast
    <3>5. CASE k < s.next
      BY <1>1, <1>2, <2>3, <3>3, <3>5 DEF JobOK, RefusalsOK
    <3>6. CASE k = s.next
      BY <3>4, <3>6
    <3>7. CASE s.next < k
      BY <3>4, <3>7
    <3>8. k < s.next \/ k = s.next \/ s.next < k
      <4>1. PICK m \in Nat : m = s.next
        BY <2>3
      <4>2. k < m \/ k = m \/ m < k
        BY <3>3
      <4> QED BY <4>1, <4>2
    <3> QED BY <3>5, <3>6, <3>7, <3>8
  <2>5. JobOK(x, vol, asg)
    BY <1>1, <1>2, <2>3, <2>4 DEF JobOK, PlaceOK, KeepsOK, RefusalsOK, SizesOK
  <2> QED BY <1>1, <2>2, <2>3, <2>5, JobStep
<1>4. CASE ~IsLast(j)
  <2>1. PICK x \in Jobs : x = [s EXCEPT !.refused = s.refused \cup {s.next},
                                        !.next = s.next + 1]
    <3>1. s.refused \cup {s.next} \in SUBSET Nat /\ s.next + 1 \in Nat
      BY <1>2 DEF Jobs
    <3> QED BY <1>2, <3>1 DEF Jobs
  <2>2. job' = [job EXCEPT ![j] = x]
    BY <1>2, <1>4, <2>1 DEF NoCapacity, Goto, Jobs
  <2>3. /\ x.cmd = s.cmd /\ x.number = s.number /\ x.at = "run" /\ x.result = "none"
        /\ x.refused = s.refused \cup {s.next} /\ x.next = s.next + 1 /\ s.next \in Nat
    BY <1>1, <1>2, <2>1 DEF Jobs
  <2>4. \A k \in Nat \ {0} : k < x.next => k \in x.refused
    BY <1>1, <1>2, <2>3 DEF JobOK, RefusalsOK
  <2>5. JobOK(x, vol, asg)
    BY <1>1, <1>2, <2>3, <2>4 DEF JobOK, PlaceOK, KeepsOK, RefusalsOK, SizesOK
  <2> QED BY <1>1, <2>2, <2>3, <2>5, JobStep
<1> QED BY <1>3, <1>4

\* A dry run launches nothing.
LEMMA DryLaunchKept ==
    ASSUME ScriptInv, NEW j \in Shells, DryLaunch(j)
    PROVE  ScriptInv'
<1> DEFINE s == job[j]
<1>1. /\ s.cmd.script = "launch" /\ s.at = "run" /\ s.cmd.dryRun
      /\ UNCHANGED <<runs, inst, vol, asg>>
  BY DEF DryLaunch, In
<1>2. s \in Jobs /\ JobOK(s, vol, asg) /\ s.number > 0 /\ s.result = "none"
  BY <1>1, RunningScript
<1>3. CASE Goto(j, End(j, "dry"))
  <2>1. PICK x \in Jobs : x = [s EXCEPT !.at = "end", !.result = "dry"]
    BY <1>2 DEF Jobs, Places, Results
  <2>2. x.cmd = s.cmd /\ x.number = s.number /\ x.at = "end" /\ x.result = "dry"
    BY <1>2, <2>1 DEF Jobs
  <2>3. JobOK(x, vol, asg)
    BY <1>1, <1>2, <2>2 DEF JobOK, PlaceOK, KeepsOK, RefusalsOK, SizesOK
  <2> QED BY <1>1, <1>3, <2>1, <2>2, <2>3, JobStep DEF Goto, End
<1>4. CASE Goto(j, [s EXCEPT !.next = @ + 1])
  <2>1. PICK x \in Jobs : x = [s EXCEPT !.next = s.next + 1]
    <3>1. s.next + 1 \in Nat
      BY <1>2 DEF Jobs
    <3> QED BY <1>2, <3>1 DEF Jobs
  <2>2. x.cmd = s.cmd /\ x.number = s.number /\ x.at = "run" /\ x.result = "none"
    BY <1>1, <1>2, <2>1 DEF Jobs
  <2>3. JobOK(x, vol, asg)
    BY <1>1, <1>2, <2>2 DEF JobOK, PlaceOK, KeepsOK, RefusalsOK, SizesOK
  <2>4. job' = [job EXCEPT ![j] = x]
    BY <1>4, <2>1 DEF Goto
  <2> QED BY <1>1, <2>2, <2>3, <2>4, JobStep
<1>5. CASE Goto(j, Failed(j))
  BY <1>1, <1>5, FailedStep DEF Goto
<1> QED BY <1>3, <1>4, <1>5 DEF DryLaunch

-----------------------------------------------------------------------------
\* terminate_instance
LEMMA DescribeInstanceKept ==
    ASSUME ScriptInv, NEW j \in Shells, DescribeInstance(j)
    PROVE  ScriptInv'
<1> DEFINE s == job[j]
           i == s.cmd.id
<1>1. /\ s.cmd.script = "terminate" /\ s.at = "describe" /\ UNCHANGED <<runs, inst, vol, asg>>
  BY DEF DescribeInstance, In
<1>2. /\ s \in Jobs /\ JobOK(s, vol, asg) /\ s.number > 0 /\ s.result = "none"
      /\ s.cmd \in Commands
  BY <1>1, RunningScript
<1>3. CASE inst[i].state = "none"
  BY <1>1, <1>3, FailedStep DEF DescribeInstance, Goto
<1>4. CASE inst[i].state = "terminated"
  <2>1. PICK x \in Jobs : x = [s EXCEPT !.at = "end", !.result = "already"]
    BY <1>2 DEF Jobs, Places, Results
  <2>2. x.cmd = s.cmd /\ x.number = s.number /\ x.at = "end" /\ x.result = "already"
    BY <1>2, <2>1 DEF Jobs
  <2>3. JobOK(x, vol, asg)
    BY <1>1, <1>2, <2>2 DEF JobOK, PlaceOK, KeepsOK, RefusalsOK, SizesOK
  <2>4. job' = [job EXCEPT ![j] = x]
    BY <1>4, <2>1 DEF DescribeInstance, Goto, End
  <2> QED BY <1>1, <2>2, <2>3, <2>4, JobStep
<1>5. CASE inst[i].state \notin {"none", "terminated"}
  <2> DEFINE todo == IF s.cmd.preserve /\ ~s.cmd.dryRun THEN ToFlag(i) ELSE {}
  <2>1. todo \in SUBSET Volumes /\ AttachedTo(i) \in SUBSET Volumes
    BY DEF ToFlag, AttachedTo
  <2>2. PICK x \in Jobs : x = [s EXCEPT !.at = "preserve", !.todo = todo,
                                        !.found = AttachedTo(i)]
    BY <1>2, <2>1 DEF Jobs, Places
  <2>3. /\ x.cmd = s.cmd /\ x.number = s.number /\ x.at = "preserve" /\ x.result = "none"
        /\ x.todo = todo /\ x.found = AttachedTo(i)
    BY <1>2, <2>2 DEF Jobs
  <2>4. s.cmd.preserve /\ ~s.cmd.dryRun =>
          \A v \in x.found \ x.todo : vol[v].delete = FALSE
    BY <2>3 DEF ToFlag, AttachedTo, ScriptInv, ScriptTypes, EbsVolumes
  <2>5. JobOK(x, vol, asg)
    BY <1>1, <1>2, <2>3, <2>4 DEF JobOK, PlaceOK, KeepsOK, RefusalsOK, SizesOK
  <2>6. job' = [job EXCEPT ![j] = x]
    BY <1>5, <2>2 DEF DescribeInstance, Goto
  <2> QED BY <1>1, <2>3, <2>5, <2>6, JobStep
<1> QED BY <1>3, <1>4, <1>5

\* A flag that is cleared is cleared for good: no script sets one.
LEMMA FlagKept ==
    ASSUME ScriptInv, NEW j \in Shells, Flag(j)
    PROVE  ScriptInv'
<1> DEFINE s == job[j]
<1>1. PICK v \in s.todo :
        IF inst[s.cmd.id].state = "running" /\ v \in AttachedTo(s.cmd.id)
          THEN /\ vol' = [vol EXCEPT ![v].delete = FALSE]
               /\ Answered(j, [s EXCEPT !.todo = @ \ {v}, !.kept = @ \cup {v}])
          ELSE Goto(j, FlagRefused(j, v)) /\ UNCHANGED vol
  BY DEF Flag
<1>2. s.cmd.script = "terminate" /\ s.at = "preserve" /\ UNCHANGED <<runs, inst, asg>>
  BY DEF Flag, In
<1>3. /\ s \in Jobs /\ JobOK(s, vol, asg) /\ s.number > 0 /\ s.result = "none"
      /\ v \in Volumes
  BY <1>2, RunningScript DEF Jobs
<1>4. CASE Goto(j, FlagRefused(j, v)) /\ UNCHANGED vol
  BY <1>2, <1>4, FailedStep DEF FlagRefused, Goto
<1>5. CASE /\ vol' = [vol EXCEPT ![v].delete = FALSE] /\ v \in AttachedTo(s.cmd.id)
           /\ Answered(j, [s EXCEPT !.todo = @ \ {v}, !.kept = @ \cup {v}])
  <2>1. PICK new \in EbsVolumes : new = [vol[v] EXCEPT !.delete = FALSE]
    BY <1>3 DEF ScriptInv, ScriptTypes, EbsVolumes
  <2>2. /\ vol' = [vol EXCEPT ![v] = new] /\ new.delete = FALSE
        /\ new.state = "in-use" /\ vol \in [Volumes -> EbsVolumes]
    BY <1>3, <1>5, <2>1 DEF ScriptInv, ScriptTypes, EbsVolumes, AttachedTo
  <2>3. /\ vol' \in [Volumes -> EbsVolumes]
        /\ \A w \in Volumes : /\ vol[w].delete = FALSE => vol'[w].delete = FALSE
                              /\ vol'[w].state = "deleted" => vol'[w].delete = TRUE
        /\ vol'[v].delete = FALSE
    BY <1>3, <2>2 DEF ScriptInv
  <2>4. PICK done \in Jobs : done = [s EXCEPT !.todo = @ \ {v}, !.kept = @ \cup {v}]
    BY <1>3 DEF Jobs
  <2>5. /\ done.cmd = s.cmd /\ done.number = s.number /\ done.at = "preserve"
        /\ done.result = "none" /\ done.todo = s.todo \ {v} /\ done.found = s.found
    BY <1>2, <1>3, <2>4 DEF Jobs
  <2>6. JobOK(done, vol', asg')
    <3>1. s.cmd.preserve /\ ~s.cmd.dryRun =>
            \A w \in done.found \ done.todo : vol'[w].delete = FALSE
      BY <1>2, <1>3, <2>3, <2>5 DEF JobOK, KeepsOK, Jobs
    <3> QED BY <1>2, <1>3, <2>5, <3>1 DEF JobOK, PlaceOK, KeepsOK, RefusalsOK, SizesOK
  <2>7. \E x \in Jobs : /\ job' = [job EXCEPT ![j] = x] /\ JobOK(x, vol', asg')
                        /\ x.cmd = s.cmd /\ x.number = s.number
    BY <1>2, <1>5, <2>4, <2>5, <2>6, FailedIsFine DEF Answered, Goto
  <2>8. PICK x \in Jobs : /\ job' = [job EXCEPT ![j] = x] /\ JobOK(x, vol', asg')
                          /\ x.cmd = s.cmd /\ x.number = s.number
    BY <2>7
  <2>9. /\ inst' \in [Ids -> InstanceRows] /\ asg' \in Groups /\ SameSizes(asg', asg)
        /\ \A k \in Ids : inst'[k].run = inst[k].run /\ inst'[k].zone = inst[k].zone
    BY <1>2 DEF ScriptInv, ScriptTypes, SameSizes
  <2> QED BY <1>2, <2>3, <2>8, <2>9, ScriptStep
<1> QED BY <1>1, <1>4, <1>5

\* The termination comes after every flag was cleared.
LEMMA TerminateKept ==
    ASSUME ScriptInv, NEW j \in Shells, Terminate(j)
    PROVE  ScriptInv'
<1> DEFINE s == job[j]
           i == s.cmd.id
<1>1. /\ s.cmd.script = "terminate" /\ s.at = "preserve" /\ s.todo = {}
      /\ UNCHANGED <<runs, vol, asg>>
  BY DEF Terminate, In
<1>2. /\ s \in Jobs /\ JobOK(s, vol, asg) /\ s.number > 0 /\ s.result = "none"
      /\ s.cmd \in Commands /\ TerminateCommand(s.cmd)
  BY <1>1, RunningScript, ScriptCommands
<1>3. /\ inst' \in [Ids -> InstanceRows]
      /\ \A k \in Ids : inst'[k].run = inst[k].run /\ inst'[k].zone = inst[k].zone
  <2>1. i \in Ids
    BY <1>2 DEF TerminateCommand
  <2>2. CASE inst' = inst
    BY <2>2 DEF ScriptInv, ScriptTypes
  <2>3. CASE inst' = [inst EXCEPT ![i].state = "shutting-down"]
    <3>1. PICK new \in InstanceRows : new = [inst[i] EXCEPT !.state = "shutting-down"]
      BY <2>1 DEF ScriptInv, ScriptTypes, InstanceRows
    <3>2. inst' = [inst EXCEPT ![i] = new] /\ new.run = inst[i].run /\ new.zone = inst[i].zone
      BY <2>1, <2>3, <3>1 DEF ScriptInv, ScriptTypes, InstanceRows
    <3> QED BY <2>1, <3>2 DEF ScriptInv, ScriptTypes
  <2> QED BY <2>2, <2>3 DEF Terminate
<1>4. \E x \in Jobs : /\ job' = [job EXCEPT ![j] = x] /\ JobOK(x, vol, asg)
                      /\ x.cmd = s.cmd /\ x.number = s.number
  <2> DEFINE ended == [s EXCEPT !.at = "end", !.result = IF s.cmd.dryRun THEN "dry" ELSE "ok"]
             waits == [s EXCEPT !.at = "wait"]
  <2>1. /\ ended \in Jobs /\ ended.cmd = s.cmd /\ ended.number = s.number
        /\ ended.at = "end" /\ ended.result = (IF s.cmd.dryRun THEN "dry" ELSE "ok")
        /\ ended.todo = {} /\ ended.found = s.found
    BY <1>1, <1>2 DEF Jobs, Places, Results
  <2>2. /\ waits \in Jobs /\ waits.cmd = s.cmd /\ waits.number = s.number
        /\ waits.at = "wait" /\ waits.result = "none" /\ waits.todo = {}
        /\ waits.found = s.found
    BY <1>1, <1>2 DEF Jobs, Places
  <2>3. \/ job' = [job EXCEPT ![j] = ended]
        \/ job' = [job EXCEPT ![j] = waits] /\ ~s.cmd.dryRun
        \/ job' = [job EXCEPT ![j] = Failed(j)]
    BY DEF Terminate, Answered, Goto, End
  <2> HIDE DEF ended, waits
  <2>4. JobOK(ended, vol, asg)
    BY <1>1, <1>2, <2>1 DEF JobOK, PlaceOK, KeepsOK, RefusalsOK, SizesOK
  <2>5. ~s.cmd.dryRun => JobOK(waits, vol, asg)
    BY <1>1, <1>2, <2>2 DEF JobOK, PlaceOK, KeepsOK, RefusalsOK, SizesOK
  <2>6. job[j].at \notin {"idle", "end"}
    BY <1>1
  <2> QED BY <2>1, <2>2, <2>3, <2>4, <2>5, <2>6, FailedIsFine
<1>5. PICK x \in Jobs : /\ job' = [job EXCEPT ![j] = x] /\ JobOK(x, vol, asg)
                        /\ x.cmd = s.cmd /\ x.number = s.number
  BY <1>4
<1>6. /\ vol' \in [Volumes -> EbsVolumes] /\ asg' \in Groups /\ SameSizes(asg', asg)
      /\ \A v \in Volumes : /\ vol[v].delete = FALSE => vol'[v].delete = FALSE
                            /\ vol'[v].state = "deleted" => vol'[v].delete = TRUE
  BY <1>1 DEF ScriptInv, ScriptTypes, SameSizes
<1> QED BY <1>1, <1>3, <1>5, <1>6, ScriptStep

\* The wait ends when the instance is gone.
LEMMA EndWaitKept ==
    ASSUME ScriptInv, NEW j \in Shells, EndWait(j)
    PROVE  ScriptInv'
<1> DEFINE s == job[j]
<1>1. s.cmd.script = "terminate" /\ s.at = "wait" /\ UNCHANGED <<runs, inst, vol, asg>>
  BY DEF EndWait, In
<1>2. s \in Jobs /\ JobOK(s, vol, asg) /\ s.number > 0 /\ s.result = "none"
  BY <1>1, RunningScript
<1>3. PICK x \in Jobs : x = [s EXCEPT !.at = "end", !.result = "ok"]
  BY <1>2 DEF Jobs, Places, Results
<1>4. /\ x.cmd = s.cmd /\ x.number = s.number /\ x.at = "end" /\ x.result = "ok"
      /\ x.todo = s.todo /\ x.found = s.found
  BY <1>2, <1>3 DEF Jobs
<1>5. JobOK(x, vol, asg)
  BY <1>1, <1>2, <1>4 DEF JobOK, PlaceOK, KeepsOK, RefusalsOK, SizesOK
<1>6. job' = [job EXCEPT ![j] = x]
  BY <1>3 DEF EndWait, Goto, End
<1> QED BY <1>1, <1>4, <1>5, <1>6, JobStep

\* AWS, and another client: the jobs stay as they are.
LEMMA AwsStep ==
    ASSUME ScriptInv, UNCHANGED <<job, runs, asg>>,
           inst' \in [Ids -> InstanceRows],
           \A i \in Ids : inst'[i].run = inst[i].run /\ inst'[i].zone = inst[i].zone,
           vol' \in [Volumes -> EbsVolumes],
           \A v \in Volumes : /\ vol[v].delete = FALSE => vol'[v].delete = FALSE
                              /\ vol'[v].state = "deleted" => vol'[v].delete = TRUE
    PROVE  ScriptInv'
<1>1. ScriptTypes'
  BY DEF ScriptInv, ScriptTypes
<1>2. \A j \in Shells : JobOK(job'[j], vol', asg')
  BY OtherJobs DEF ScriptInv, ScriptTypes, SameSizes
<1>3. NumbersOK' /\ OneInstancePerRun'
  BY DEF ScriptInv, NumbersOK, OneInstancePerRun
<1> QED BY <1>1, <1>2, <1>3 DEF ScriptInv

\* AWS deletes the volumes whose flag is set, when their instance is gone.
LEMMA GoneKept ==
    ASSUME ScriptInv, NEW i \in Ids, Gone(i)
    PROVE  ScriptInv'
<1>1. /\ UNCHANGED <<job, runs, asg>> /\ inst' = [inst EXCEPT ![i].state = "terminated"]
  BY DEF Gone
<1>2. PICK new \in InstanceRows : new = [inst[i] EXCEPT !.state = "terminated"]
  BY DEF ScriptInv, ScriptTypes, InstanceRows
<1>3. inst' = [inst EXCEPT ![i] = new] /\ new.run = inst[i].run /\ new.zone = inst[i].zone
  BY <1>1, <1>2 DEF ScriptInv, ScriptTypes, InstanceRows
<1>4. /\ inst' \in [Ids -> InstanceRows]
      /\ \A k \in Ids : inst'[k].run = inst[k].run /\ inst'[k].zone = inst[k].zone
  BY <1>3 DEF ScriptInv, ScriptTypes
<1>5. ASSUME NEW v \in Volumes
      PROVE  /\ vol'[v] \in EbsVolumes /\ vol'[v].delete = vol[v].delete
             /\ vol'[v].state = "deleted" => vol'[v].delete = TRUE
  <2>1. vol[v] \in EbsVolumes
    BY DEF ScriptInv, ScriptTypes
  <2>2. CASE v \notin AttachedTo(i)
    <3>1. vol'[v] = vol[v]
      BY <2>2 DEF Gone
    <3> QED BY <2>1, <3>1 DEF ScriptInv
  <2>3. CASE v \in AttachedTo(i)
    <3>1. PICK state \in {"deleted", "available"} :
            /\ state = IF vol[v].state = "in-use" /\ vol[v].delete
                         THEN "deleted" ELSE "available"
            /\ vol'[v] = [vol[v] EXCEPT !.state = state]
      BY <2>1, <2>3 DEF Gone, EbsVolumes
    <3> QED BY <2>1, <3>1 DEF EbsVolumes
  <2> QED BY <2>2, <2>3
<1>6. vol' \in [Volumes -> EbsVolumes]
  BY <1>5 DEF Gone
<1> QED BY <1>1, <1>4, <1>5, <1>6, AwsStep

\* A volume that is free is attached by somebody else.
LEMMA AttachKept ==
    ASSUME ScriptInv, NEW v \in Volumes, NEW i \in Ids, Attach(v, i)
    PROVE  ScriptInv'
<1>1. PICK new \in EbsVolumes : new = [state |-> "in-use", at |-> i, delete |-> FALSE]
  BY DEF EbsVolumes
<1>2. /\ vol' = [vol EXCEPT ![v] = new] /\ new.delete = FALSE /\ new.state = "in-use"
      /\ UNCHANGED <<job, runs, inst, asg>>
  BY <1>1 DEF Attach
<1>3. /\ vol' \in [Volumes -> EbsVolumes]
      /\ \A w \in Volumes : /\ vol[w].delete = FALSE => vol'[w].delete = FALSE
                            /\ vol'[w].state = "deleted" => vol'[w].delete = TRUE
  BY <1>2 DEF ScriptInv, ScriptTypes
<1> QED BY <1>2, <1>3, AwsStep DEF ScriptInv, ScriptTypes

-----------------------------------------------------------------------------
\* detach_volume
LEMMA DescribeVolumeKept ==
    ASSUME ScriptInv, NEW j \in Shells, DescribeVolume(j)
    PROVE  ScriptInv'
<1> DEFINE s == job[j]
           v == vol[s.cmd.volume]
<1>1. s.cmd.script = "detach" /\ s.at = "describe" /\ UNCHANGED <<runs, inst, vol, asg>>
  BY DEF DescribeVolume, In
<1>2. /\ s \in Jobs /\ JobOK(s, vol, asg) /\ s.number > 0 /\ s.result = "none"
      /\ s.cmd \in Commands /\ DetachCommand(s.cmd)
  BY <1>1, RunningScript, ScriptCommands
<1>3. v \in EbsVolumes
  BY <1>2 DEF ScriptInv, ScriptTypes, DetachCommand
<1>4. CASE v.state = "deleted"
  BY <1>1, <1>4, FailedStep DEF DescribeVolume, Goto
<1>5. CASE v.state = "available"
  <2>1. PICK x \in Jobs : x = [s EXCEPT !.at = "end", !.result = "ok"]
    BY <1>2 DEF Jobs, Places, Results
  <2>2. x.cmd = s.cmd /\ x.number = s.number /\ x.at = "end" /\ x.result = "ok"
    BY <1>2, <2>1 DEF Jobs
  <2>3. JobOK(x, vol, asg)
    BY <1>1, <1>2, <2>2 DEF JobOK, PlaceOK, KeepsOK, RefusalsOK, SizesOK
  <2>4. job' = [job EXCEPT ![j] = x]
    BY <1>5, <2>1 DEF DescribeVolume, Goto, End
  <2> QED BY <1>1, <2>2, <2>3, <2>4, JobStep
<1>6. CASE v.state \notin {"deleted", "available"}
  <2>1. PICK place \in {"snapshot", "detach"} :
          place = IF s.cmd.snapshot /\ ~s.cmd.dryRun THEN "snapshot" ELSE "detach"
    OBVIOUS
  <2>2. PICK x \in Jobs : x = [s EXCEPT !.id = v.at, !.at = place]
    BY <1>2, <1>3 DEF Jobs, Places, EbsVolumes
  <2>3. x.cmd = s.cmd /\ x.number = s.number /\ x.at = place /\ x.result = "none"
    BY <1>2, <2>2 DEF Jobs
  <2>4. JobOK(x, vol, asg)
    BY <1>1, <1>2, <2>3 DEF JobOK, PlaceOK, KeepsOK, RefusalsOK, SizesOK
  <2>5. job' = [job EXCEPT ![j] = x]
    BY <1>6, <2>1, <2>2 DEF DescribeVolume, Goto
  <2> QED BY <1>1, <2>3, <2>4, <2>5, JobStep
<1> QED BY <1>4, <1>5, <1>6

\* A snapshot changes no volume.
LEMMA SnapshotKept ==
    ASSUME ScriptInv, NEW j \in Shells, Snapshot(j)
    PROVE  ScriptInv'
<1> DEFINE s == job[j]
<1>1. s.cmd.script = "detach" /\ s.at = "snapshot" /\ UNCHANGED <<runs, inst, vol, asg>>
  BY DEF Snapshot, In
<1>2. s \in Jobs /\ JobOK(s, vol, asg) /\ s.number > 0 /\ s.result = "none"
  BY <1>1, RunningScript
<1>3. CASE Goto(j, [s EXCEPT !.at = "detach"])
  <2>1. PICK x \in Jobs : x = [s EXCEPT !.at = "detach"]
    BY <1>2 DEF Jobs, Places
  <2>2. x.cmd = s.cmd /\ x.number = s.number /\ x.at = "detach" /\ x.result = "none"
    BY <1>2, <2>1 DEF Jobs
  <2>3. JobOK(x, vol, asg)
    BY <1>1, <1>2, <2>2 DEF JobOK, PlaceOK, KeepsOK, RefusalsOK, SizesOK
  <2> QED BY <1>1, <1>3, <2>1, <2>2, <2>3, JobStep DEF Goto
<1>4. CASE Goto(j, Failed(j))
  BY <1>1, <1>4, FailedStep DEF Goto
<1> QED BY <1>3, <1>4 DEF Snapshot, Answered

\* A detachment keeps the flag.
LEMMA DetachKept ==
    ASSUME ScriptInv, NEW j \in Shells, Detach(j)
    PROVE  ScriptInv'
<1> DEFINE s == job[j]
           w == s.cmd.volume
<1>1. /\ s.cmd.script = "detach" /\ s.at = "detach" /\ UNCHANGED <<runs, inst, asg>>
      /\ vol[w].state = "in-use"
  BY DEF Detach, In
<1>2. /\ s \in Jobs /\ JobOK(s, vol, asg) /\ s.number > 0 /\ s.result = "none"
      /\ s.cmd \in Commands /\ DetachCommand(s.cmd)
  BY <1>1, RunningScript, ScriptCommands
<1>3. w \in Volumes
  BY <1>2 DEF DetachCommand
<1>4. /\ vol' \in [Volumes -> EbsVolumes]
      /\ \A v \in Volumes : /\ vol[v].delete = FALSE => vol'[v].delete = FALSE
                            /\ vol'[v].state = "deleted" => vol'[v].delete = TRUE
  <2>1. CASE vol' = vol
    BY <2>1 DEF ScriptInv, ScriptTypes
  <2>2. CASE vol' = [vol EXCEPT ![w].state = "available"]
    <3>1. PICK new \in EbsVolumes : new = [vol[w] EXCEPT !.state = "available"]
      BY <1>3 DEF ScriptInv, ScriptTypes, EbsVolumes
    <3>2. /\ vol' = [vol EXCEPT ![w] = new] /\ new.state = "available"
          /\ new.delete = vol[w].delete
      BY <1>3, <2>2, <3>1 DEF ScriptInv, ScriptTypes, EbsVolumes
    <3> QED BY <1>3, <3>2 DEF ScriptInv, ScriptTypes
  <2> QED BY <2>1, <2>2 DEF Detach
<1>5. \E x \in Jobs : /\ job' = [job EXCEPT ![j] = x] /\ JobOK(x, vol', asg')
                      /\ x.cmd = s.cmd /\ x.number = s.number
  <2>1. ASSUME NEW how \in {"dry", "ok"}, Goto(j, End(j, how))
        PROVE  \E x \in Jobs : /\ job' = [job EXCEPT ![j] = x] /\ JobOK(x, vol', asg')
                               /\ x.cmd = s.cmd /\ x.number = s.number
    <3>1. PICK x \in Jobs : x = [s EXCEPT !.at = "end", !.result = how]
      BY <1>2 DEF Jobs, Places, Results
    <3>2. x.cmd = s.cmd /\ x.number = s.number /\ x.at = "end" /\ x.result = how
      BY <1>2, <3>1 DEF Jobs
    <3>3. JobOK(x, vol', asg')
      BY <1>1, <1>2, <3>2 DEF JobOK, PlaceOK, KeepsOK, RefusalsOK, SizesOK
    <3>4. job' = [job EXCEPT ![j] = x]
      BY <2>1, <3>1 DEF Goto, End
    <3> QED BY <3>2, <3>3, <3>4
  <2>2. ASSUME Goto(j, [s EXCEPT !.at = "wait"])
        PROVE  \E x \in Jobs : /\ job' = [job EXCEPT ![j] = x] /\ JobOK(x, vol', asg')
                               /\ x.cmd = s.cmd /\ x.number = s.number
    <3>1. PICK x \in Jobs : x = [s EXCEPT !.at = "wait"]
      BY <1>2 DEF Jobs, Places
    <3>2. x.cmd = s.cmd /\ x.number = s.number /\ x.at = "wait" /\ x.result = "none"
      BY <1>2, <3>1 DEF Jobs
    <3>3. JobOK(x, vol', asg')
      BY <1>1, <1>2, <3>2 DEF JobOK, PlaceOK, KeepsOK, RefusalsOK, SizesOK
    <3> QED BY <2>2, <3>1, <3>2, <3>3 DEF Goto
  <2>3. ASSUME Goto(j, Failed(j))
        PROVE  \E x \in Jobs : /\ job' = [job EXCEPT ![j] = x] /\ JobOK(x, vol', asg')
                               /\ x.cmd = s.cmd /\ x.number = s.number
    BY <1>1, <2>3, FailedIsFine DEF Goto
  <2> QED BY <2>1, <2>2, <2>3 DEF Detach, Answered
<1>6. PICK x \in Jobs : /\ job' = [job EXCEPT ![j] = x] /\ JobOK(x, vol', asg')
                        /\ x.cmd = s.cmd /\ x.number = s.number
  BY <1>5
<1>7. /\ inst' \in [Ids -> InstanceRows] /\ asg' \in Groups /\ SameSizes(asg', asg)
      /\ \A i \in Ids : inst'[i].run = inst[i].run /\ inst'[i].zone = inst[i].zone
  BY <1>1 DEF ScriptInv, ScriptTypes, SameSizes
<1> QED BY <1>1, <1>4, <1>6, <1>7, ScriptStep

\* The wait for the volume ends.
LEMMA AvailableKept ==
    ASSUME ScriptInv, NEW j \in Shells, Available(j)
    PROVE  ScriptInv'
<1> DEFINE s == job[j]
<1>1. s.cmd.script = "detach" /\ s.at = "wait" /\ UNCHANGED <<runs, inst, vol, asg>>
  BY DEF Available, In
<1>2. s \in Jobs /\ JobOK(s, vol, asg) /\ s.number > 0 /\ s.result = "none"
  BY <1>1, RunningScript
<1>3. PICK x \in Jobs : x = [s EXCEPT !.at = "end", !.result = "ok"]
  BY <1>2 DEF Jobs, Places, Results
<1>4. x.cmd = s.cmd /\ x.number = s.number /\ x.at = "end" /\ x.result = "ok"
  BY <1>2, <1>3 DEF Jobs
<1>5. JobOK(x, vol, asg)
  BY <1>1, <1>2, <1>4 DEF JobOK, PlaceOK, KeepsOK, RefusalsOK, SizesOK
<1>6. job' = [job EXCEPT ![j] = x]
  BY <1>3 DEF Available, Goto, End
<1> QED BY <1>1, <1>4, <1>5, <1>6, JobStep

-----------------------------------------------------------------------------
\* update_asg
LEMMA DescribeGroupKept ==
    ASSUME ScriptInv, NEW j \in Shells, DescribeGroup(j)
    PROVE  ScriptInv'
<1> DEFINE s == job[j]
<1>1. s.cmd.script = "update" /\ s.at = "describe" /\ UNCHANGED <<runs, inst, vol, asg>>
  BY DEF DescribeGroup, In
<1>2. s \in Jobs /\ JobOK(s, vol, asg) /\ s.number > 0 /\ s.result = "none"
  BY <1>1, RunningScript
<1>3. CASE s.cmd.dryRun
  <2>1. PICK x \in Jobs : x = [s EXCEPT !.at = "end", !.result = "dry"]
    BY <1>2 DEF Jobs, Places, Results
  <2>2. x.cmd = s.cmd /\ x.number = s.number /\ x.at = "end" /\ x.result = "dry"
    BY <1>2, <2>1 DEF Jobs
  <2>3. JobOK(x, vol, asg)
    BY <1>1, <1>2, <2>2 DEF JobOK, PlaceOK, KeepsOK, RefusalsOK, SizesOK
  <2>4. job' = [job EXCEPT ![j] = x]
    BY <1>3, <2>1 DEF DescribeGroup, Goto, End
  <2> QED BY <1>1, <2>2, <2>3, <2>4, JobStep
<1>4. CASE ~s.cmd.dryRun
  <2>1. PICK x \in Jobs : x = [s EXCEPT !.at = "update", !.seen = asg, !.disturbed = FALSE]
    BY <1>2 DEF Jobs, Places, ScriptInv, ScriptTypes
  <2>2. /\ x.cmd = s.cmd /\ x.number = s.number /\ x.at = "update" /\ x.result = "none"
        /\ x.seen = asg /\ asg \in Groups
    BY <1>2, <2>1 DEF Jobs, ScriptInv, ScriptTypes
  <2>3. JobOK(x, vol, asg)
    BY <1>1, <1>2, <2>2 DEF JobOK, PlaceOK, KeepsOK, RefusalsOK, SizesOK, SameSizes
  <2>4. job' = [job EXCEPT ![j] = x]
    BY <1>4, <2>1 DEF DescribeGroup, Goto
  <2> QED BY <1>1, <2>2, <2>3, <2>4, JobStep
<1> QED BY <1>3, <1>4

\* What was refused is all that the search for a type looks at.
LEMMA SameRefusals ==
    ASSUME NEW s, NEW x, x.cmd = s.cmd, x.at = s.at, x.next = s.next,
           x.refused = s.refused, x.result = s.result, RefusalsOK(s)
    PROVE  RefusalsOK(x)
<1> DEFINE types == s.cmd.types
           refused == s.refused
<1>1. /\ s.result = "no capacity" =>
           \A k \in 1 .. Len(types) :
             k \in refused \/ \E m \in refused : m < k /\ types[m] = types[Len(types)]
      /\ x.cmd.types = types /\ x.refused = refused
  BY DEF RefusalsOK
<1>2. x.cmd.script = "launch" /\ x.at = "run" /\ ~x.cmd.dryRun =>
        \A k \in Nat \ {0} : k < x.next => k \in x.refused
  BY DEF RefusalsOK
<1> HIDE DEF types, refused
<1> QED BY <1>1, <1>2 DEF RefusalsOK

\* Sizes that change disturb the scripts of the other shells.
LEMMA UpdateKept ==
    ASSUME ScriptInv, NEW j \in Shells, Update(j)
    PROVE  ScriptInv'
<1> DEFINE s == job[j]
           c == s.cmd
<1>1. s.cmd.script = "update" /\ s.at = "update" /\ UNCHANGED <<runs, inst, vol>>
  BY DEF Update, In
<1>2. /\ s \in Jobs /\ JobOK(s, vol, asg) /\ s.number > 0 /\ s.result = "none"
      /\ c \in Commands /\ UpdateCommand(c) /\ asg \in Groups
      /\ \A i \in Ids : inst[i].run # s.number
  BY <1>1, RunningScript, ScriptCommands DEF ScriptInv, ScriptTypes
<1>3. PICK next \in Jobs : next = [s EXCEPT !.at = "suspend"]
  BY <1>2 DEF Jobs, Places
<1>4. /\ next.cmd = c /\ next.number = s.number /\ next.at = "suspend"
      /\ next.result = "none" /\ next.seen = s.seen /\ next.disturbed = s.disturbed
  BY <1>2, <1>3 DEF Jobs
<1>5. s.seen \in Groups /\ (~s.disturbed => SameSizes(asg, s.seen))
  BY <1>1, <1>2 DEF JobOK, SizesOK
<1>6. CASE ~HasUpdates(c)
  <2> SizesGiven(c, asg)
    BY <1>6 DEF HasUpdates, SizesGiven, Given
  <2>1. JobOK(next, vol, asg)
    BY <1>1, <1>2, <1>4, <1>5, <1>6 DEF JobOK, PlaceOK, KeepsOK, RefusalsOK, SizesOK
  <2>2. job' = [job EXCEPT ![j] = next] /\ asg' = asg
    BY <1>3, <1>6 DEF Update, Goto
  <2> QED BY <1>1, <1>4, <2>1, <2>2, JobStep
<1>7. CASE HasUpdates(c)
  <2>1. /\ asg' = Sizes(c)
        /\ \/ Disturb(j, [s EXCEPT !.at = "suspend", !.overwritten = FALSE])
           \/ Disturb(j, Failed(j))
    BY <1>7 DEF Update
  <2> PICK last \in Jobs : last = [s EXCEPT !.at = "suspend", !.overwritten = FALSE]
    BY <1>2 DEF Jobs, Places
  <2> /\ last.cmd = c /\ last.number = s.number /\ last.at = "suspend"
      /\ last.result = "none" /\ last.seen = s.seen /\ last.disturbed = s.disturbed
    BY <1>2 DEF Jobs
  <2>2. asg' \in Groups
    BY <1>2, <2>1 DEF UpdateCommand, Sizes, Given, Clamp, Groups
  <2>3. JobOK(last, vol, asg')
    <3>1. ~s.disturbed =>
            /\ asg'.min = Given(c.min, s.seen.min) /\ asg'.max = Given(c.max, s.seen.max)
            /\ asg'.desired = Given(c.desired, Clamp(s.seen.desired, asg'.min, asg'.max))
      BY <1>5, <2>1 DEF Sizes, SameSizes
    <3>2. SizesGiven(c, asg')
      BY <1>2, <2>1 DEF Sizes, SizesGiven, Given
    <3> QED BY <1>1, <1>2, <1>5, <1>7, <3>1, <3>2
            DEF JobOK, PlaceOK, KeepsOK, RefusalsOK, SizesOK
  <2>4. \E x \in Jobs : /\ Disturb(j, x) /\ JobOK(x, vol, asg')
                        /\ x.cmd = c /\ x.number = s.number
    BY <1>1, <2>1, <2>3, FailedIsFine
  <2>5. PICK x \in Jobs : /\ Disturb(j, x) /\ JobOK(x, vol, asg')
                          /\ x.cmd = c /\ x.number = s.number
    BY <2>4
  <2>6. /\ job' = [k \in Shells |->
               IF k = j THEN x ELSE [job[k] EXCEPT !.disturbed = TRUE, !.overwritten = TRUE]]
        /\ job'[j] = x
    BY <2>5 DEF Disturb
  <2>7. ASSUME NEW k \in Shells \ {j}
        PROVE  /\ job'[k] \in Jobs /\ job'[k].cmd = job[k].cmd
               /\ job'[k].number = job[k].number /\ job'[k].result = job[k].result
               /\ job'[k].id = job[k].id /\ JobOK(job'[k], vol, asg')
    <3>1. PICK y \in Jobs : y = [job[k] EXCEPT !.disturbed = TRUE, !.overwritten = TRUE]
      BY DEF ScriptInv, ScriptTypes, Jobs
    <3>2. /\ y.at = job[k].at /\ y.cmd = job[k].cmd /\ y.result = job[k].result
          /\ y.number = job[k].number /\ y.todo = job[k].todo /\ y.found = job[k].found
          /\ y.next = job[k].next /\ y.refused = job[k].refused /\ y.id = job[k].id
          /\ y.seen = job[k].seen /\ y.disturbed = TRUE /\ y.overwritten = TRUE
      BY <3>1 DEF ScriptInv, ScriptTypes, Jobs
    <3>3. JobOK(job[k], vol, asg)
      BY DEF ScriptInv
    <3>4. PlaceOK(y) /\ KeepsOK(y, vol) /\ RefusalsOK(y)
      <4>1. PlaceOK(y)
        BY <3>2, <3>3 DEF JobOK, PlaceOK
      <4>2. KeepsOK(y, vol)
        BY <3>2, <3>3 DEF JobOK, KeepsOK
      <4>3. RefusalsOK(y)
        BY <3>2, <3>3, SameRefusals DEF JobOK
      <4> QED BY <4>1, <4>2, <4>3
    <3>5. SizesOK(y, asg')
      BY <3>2, <3>3 DEF JobOK, SizesOK
    <3>6. job'[k] = y
      BY <2>6, <3>1
    <3> QED BY <3>2, <3>4, <3>5, <3>6 DEF JobOK
  <2>8. ScriptTypes'
    <3>1. job' \in [Shells -> Jobs]
      BY <2>6, <2>7
    <3> QED BY <1>1, <2>2, <3>1 DEF ScriptInv, ScriptTypes
  <2>9. \A k \in Shells : JobOK(job'[k], vol', asg')
    BY <1>1, <2>5, <2>6, <2>7
  <2>10. \A k \in Shells : job'[k].number = job[k].number /\ job'[k].cmd = job[k].cmd
    BY <2>5, <2>6, <2>7
  <2>11. NumbersOK'
    BY <1>1, <2>10 DEF ScriptInv, NumbersOK
  <2>12. OneInstancePerRun'
    BY <1>1, <1>2, <2>7, <2>10 DEF ScriptInv, OneInstancePerRun
  <2> QED BY <1>1, <2>8, <2>9, <2>11, <2>12 DEF ScriptInv
<1> QED BY <1>6, <1>7

\* The processes of the group are no part of its sizes.
LEMMA ProcessesKept ==
    ASSUME ScriptInv, NEW j \in Shells, Suspend(j) \/ Resume(j)
    PROVE  ScriptInv'
<1> DEFINE s == job[j]
           c == s.cmd
<1>1. /\ s.cmd.script = "update" /\ s.at \in {"suspend", "resume"}
      /\ UNCHANGED <<runs, inst, vol>>
  BY DEF Suspend, Resume, In
<1>2. /\ s \in Jobs /\ JobOK(s, vol, asg) /\ s.number > 0 /\ s.result = "none"
      /\ c \in Commands /\ UpdateCommand(c) /\ asg \in Groups
  BY <1>1, RunningScript, ScriptCommands DEF ScriptInv, ScriptTypes
<1>3. PICK processes \in SUBSET Processes : asg' = [asg EXCEPT !.suspended = processes]
  <2>1. asg.suspended \cup c.suspend \in SUBSET Processes
    BY <1>2 DEF UpdateCommand, Groups
  <2>2. asg.suspended \ c.resume \in SUBSET Processes
    BY <1>2 DEF UpdateCommand, Groups
  <2> QED BY <2>1, <2>2 DEF Suspend, Resume
<1>4. asg' \in Groups /\ SameSizes(asg', asg)
  BY <1>2, <1>3 DEF Groups, SameSizes
<1>5. \E x \in Jobs : /\ job' = [job EXCEPT ![j] = x] /\ JobOK(x, vol, asg)
                      /\ x.cmd = c /\ x.number = s.number
  <2>1. CASE Goto(j, [s EXCEPT !.at = "resume"])
    <3>1. PICK x \in Jobs : x = [s EXCEPT !.at = "resume"]
      BY <1>2 DEF Jobs, Places
    <3>2. /\ x.cmd = c /\ x.number = s.number /\ x.at = "resume" /\ x.result = "none"
          /\ x.seen = s.seen /\ x.disturbed = s.disturbed /\ x.overwritten = s.overwritten
      BY <1>2, <3>1 DEF Jobs
    <3>3. JobOK(x, vol, asg)
      BY <1>1, <1>2, <3>2 DEF JobOK, PlaceOK, KeepsOK, RefusalsOK, SizesOK
    <3> QED BY <2>1, <3>1, <3>2, <3>3 DEF Goto
  <2>2. CASE Goto(j, End(j, "ok"))
    <3>1. PICK x \in Jobs : x = [s EXCEPT !.at = "end", !.result = "ok"]
      BY <1>2 DEF Jobs, Places, Results
    <3>2. /\ x.cmd = c /\ x.number = s.number /\ x.at = "end" /\ x.result = "ok"
          /\ x.seen = s.seen /\ x.disturbed = s.disturbed /\ x.overwritten = s.overwritten
      BY <1>2, <3>1 DEF Jobs
    <3>3. JobOK(x, vol, asg)
      BY <1>1, <1>2, <3>2 DEF JobOK, PlaceOK, KeepsOK, RefusalsOK, SizesOK
    <3>4. job' = [job EXCEPT ![j] = x]
      BY <2>2, <3>1 DEF Goto, End
    <3> QED BY <3>2, <3>3, <3>4
  <2>3. CASE Goto(j, Failed(j))
    BY <1>1, <2>3, FailedIsFine DEF Goto
  <2> QED BY <2>1, <2>2, <2>3 DEF Suspend, Resume, Answered
<1>6. PICK x \in Jobs : /\ job' = [job EXCEPT ![j] = x] /\ JobOK(x, vol, asg)
                        /\ x.cmd = c /\ x.number = s.number
  BY <1>5
<1>7. JobOK(x, vol', asg')
  BY <1>1, <1>4, <1>6, OtherJobs DEF ScriptInv, ScriptTypes
<1>8. /\ inst' \in [Ids -> InstanceRows] /\ vol' \in [Volumes -> EbsVolumes]
      /\ \A i \in Ids : inst'[i].run = inst[i].run /\ inst'[i].zone = inst[i].zone
      /\ \A v \in Volumes : /\ vol[v].delete = FALSE => vol'[v].delete = FALSE
                            /\ vol'[v].state = "deleted" => vol'[v].delete = TRUE
  BY <1>1 DEF ScriptInv, ScriptTypes
<1> QED BY <1>1, <1>4, <1>6, <1>7, <1>8, ScriptStep

-----------------------------------------------------------------------------
\* The scripts of any number of shells keep the invariant, whichever calls fail
\* before or after their effect.
THEOREM ScriptInvariance == Spec => []ScriptInv
<1>1. ScriptInv /\ [Next]_vars => ScriptInv'
  <2> SUFFICES ASSUME ScriptInv, [Next]_vars PROVE ScriptInv'
    OBVIOUS
  <2>1. CASE UNCHANGED vars
    BY <2>1, AwsStep DEF vars, ScriptInv, ScriptTypes
  <2>2. ASSUME NEW j \in Shells, Launch(j) PROVE ScriptInv'
    BY <2>2, RunInstancesKept, NoCapacityKept, DryLaunchKept DEF Launch
  <2>3. ASSUME NEW j \in Shells,
               \/ DescribeInstance(j) \/ Flag(j) \/ Terminate(j) \/ EndWait(j)
               \/ DescribeVolume(j) \/ Snapshot(j) \/ Detach(j) \/ Available(j)
        PROVE  ScriptInv'
    BY <2>3, DescribeInstanceKept, FlagKept, TerminateKept, EndWaitKept,
       DescribeVolumeKept,
       SnapshotKept, DetachKept, AvailableKept
  <2>4. ASSUME NEW j \in Shells,
               DescribeGroup(j) \/ Update(j) \/ Suspend(j) \/ Resume(j)
        PROVE  ScriptInv'
    BY <2>4, DescribeGroupKept, UpdateKept, ProcessesKept
  <2> QED BY <2>1, <2>2, <2>3, <2>4, StartKept, CallFailsKept, GoneKept, AttachKept
     DEF Next
<1> QED BY ScriptInitial, <1>1, PTL DEF Spec

\* terminate_instance with any number of volumes: none of those it was to
\* preserve is deleted when it reports success, whatever other shells and AWS
\* do.
THEOREM VolumesSurvive == Spec => []PreservedSurvive
<1>1. ScriptInv => PreservedSurvive
  <2> SUFFICES ASSUME ScriptInv, NEW j \in Shells, job[j].cmd.script = "terminate",
                      job[j].result = "ok", job[j].cmd.preserve, NEW v \in job[j].found
               PROVE  vol[v].state # "deleted"
    BY DEF PreservedSurvive
  <2>1. v \in Volumes /\ JobOK(job[j], vol, asg)
    BY DEF ScriptInv, ScriptTypes, Jobs
  <2>2. vol[v].delete = FALSE
    BY <2>1 DEF JobOK, KeepsOK
  <2> QED BY <2>1, <2>2 DEF ScriptInv
<1> QED BY <1>1, ScriptInvariance, PTL

\* launch_spot with any list of types: an instance belongs to one run, which
\* reports it or failed, in the zone that was asked for; and it gives up only
\* when every type was refused, up to an earlier mention of the last one.
THEOREM LaunchesAreSound == Spec => []LaunchIsSound
<1>1. ScriptInv => LaunchIsSound
  BY DEF ScriptInv, LaunchIsSound, GivesUpLast, JobOK, RefusalsOK
<1> QED BY <1>1, ScriptInvariance, PTL

\* update_asg for any sizes: the group has what was asked for unless another
\* shell changed it since, and what is reported unless one changed it since it
\* was read, but for a size set to 0 and for a capacity that follows the new
\* bounds.
THEOREM ReportsAreTrue == Spec => []ReportIsTrue
<1>1. ScriptInv => ReportIsTrue
  <2> SUFFICES ASSUME ScriptInv, NEW j \in Shells, job[j].cmd.script = "update",
                      job[j].result = "ok"
               PROVE  LET s == job[j]
                          c == s.cmd
                      IN /\ ~s.overwritten =>
                              /\ Given(c.desired, asg.desired) = asg.desired
                              /\ Given(c.min, asg.min) = asg.min
                              /\ Given(c.max, asg.max) = asg.max
                         /\ ~s.disturbed =>
                              /\ \/ Reported(j).desired = asg.desired
                                 \/ c.desired = 0
                                 \/ c.desired = Unset
                                      /\ ~(/\ asg.min <= s.seen.desired
                                           /\ s.seen.desired <= asg.max)
                              /\ Reported(j).min = asg.min \/ c.min = 0
                              /\ Reported(j).max = asg.max \/ c.max = 0
    BY DEF ReportIsTrue
  <2> DEFINE s == job[j]
             c == s.cmd
  <2>1. JobOK(s, vol, asg) /\ asg \in Groups
    BY DEF ScriptInv, ScriptTypes
  <2>2. s.seen \in Groups
    BY <2>1 DEF JobOK, SizesOK
  <2>3. ~s.overwritten => SizesGiven(c, asg)
    BY <2>1 DEF JobOK, SizesOK
  <2>4. CASE s.disturbed
    BY <2>3, <2>4 DEF SizesGiven
  <2>5. CASE ~s.disturbed /\ HasUpdates(c)
    <3>1. /\ asg.min = Given(c.min, s.seen.min) /\ asg.max = Given(c.max, s.seen.max)
          /\ asg.desired = Given(c.desired, Clamp(s.seen.desired, asg.min, asg.max))
      BY <2>1, <2>5 DEF JobOK, SizesOK
    <3>2. asg.min <= s.seen.desired /\ s.seen.desired <= asg.max =>
            Clamp(s.seen.desired, asg.min, asg.max) = s.seen.desired
      BY <2>1, <2>2 DEF Clamp, Groups
    <3> QED BY <2>3, <3>1, <3>2 DEF Reported, Or, Given, SizesGiven
  <2>6. CASE ~s.disturbed /\ ~HasUpdates(c)
    <3>1. SameSizes(asg, s.seen)
      BY <2>1, <2>6 DEF JobOK, SizesOK
    <3> QED BY <2>3, <2>6, <3>1 DEF Reported, Or, HasUpdates, SameSizes, SizesGiven
  <2> QED BY <2>4, <2>5, <2>6
<1> QED BY <1>1, ScriptInvariance, PTL

-----------------------------------------------------------------------------
(***************************************************************************)
(* SpotAdvisor: publications count up, a reader has read nothing newer     *)
(* than the row, and what the scrape cached last is what it will commit.   *)
(***************************************************************************)
\* A scrape that runs, and the keys it has put in the session
Scrapes ==
    [step : {"idle", "system", "store"}, data : Nat, systems : SUBSET Systems,
     system : Systems \cup {None}, todo : SUBSET Ratings, pending : SUBSET Ratings]

AdvisorTypes ==
    /\ publication \in Nat /\ scrape \in Scrapes
    /\ stored \in [Ratings -> Nat] /\ advised \in [Ratings -> Nat \cup {None}]
    /\ refill \in [RatingReaders -> SUBSET (Ratings \X Nat)]
    /\ scrape.step # "store" => scrape.pending = {}

\* Publications count up: nothing stored or cached is newer than the current
\* one, nor than the one that is scraped.
AdvisorOrder ==
    /\ \A k \in Ratings :
         stored[k] <= publication /\ (advised[k] # None => advised[k] <= publication)
    /\ scrape.step # "idle" =>
         /\ scrape.data <= publication
         /\ \A k \in Ratings :
              stored[k] <= scrape.data /\ (advised[k] # None => advised[k] <= scrape.data)

\* What a reader has read, or cached last, is no newer than the row; what the
\* scrape cached last is what it will commit.
ReadersBehind ==
    /\ \A c \in RatingReaders : \A entry \in refill[c] : entry[2] <= stored[entry[1]]
    /\ \A k \in byReader \cap Ratings : advised[k] # None => advised[k] <= stored[k]
    /\ \A k \in scrape.pending \ byReader : advised[k] \in {None, scrape.data}

\* The inductive invariant
AdvisorInv == AdvisorTypes /\ AdvisorOrder /\ ReadersBehind /\ DifferenceIsExplained

-----------------------------------------------------------------------------
\* Nothing is stored nor cached.
LEMMA AdvisorInitial == AdvisorInit => AdvisorInv
BY DEF AdvisorInit, AdvisorInv, AdvisorTypes, AdvisorOrder, ReadersBehind,
       DifferenceIsExplained, NoScrape, Scrapes

\* A new publication, and a rating that leaves the cache
LEMMA PublishKept ==
    ASSUME AdvisorInv, PublishRatings
    PROVE  AdvisorInv'
BY DEF AdvisorInv, AdvisorTypes, AdvisorOrder, ReadersBehind, DifferenceIsExplained,
       PublishRatings, Scrapes

LEMMA EvictKept ==
    ASSUME AdvisorInv, NEW k \in Ratings, Evict(k)
    PROVE  AdvisorInv'
BY DEF AdvisorInv, AdvisorTypes, AdvisorOrder, ReadersBehind, DifferenceIsExplained,
   Evict

\* Between two operating systems the session is empty.
LEMMA BetweenSystemsKept ==
    ASSUME AdvisorInv, Scrape \/ Scraped \/ \E s \in Systems : NextSystem(s)
    PROVE  AdvisorInv'
<1>1. /\ scrape.pending = {} /\ scrape'.pending = {} /\ scrape' \in Scrapes
      /\ UNCHANGED <<publication, stored, advised, refill, byReader, lost>>
      /\ \/ scrape'.step = "idle"
         \/ scrape'.data = publication
         \/ scrape.step # "idle" /\ scrape'.data = scrape.data
  <2>1. scrape.pending = {} /\ scrape \in Scrapes /\ publication \in Nat
    BY DEF AdvisorInv, AdvisorTypes, Scrape, Scraped, NextSystem
  <2>2. CASE Scraped
    BY <2>1, <2>2 DEF Scraped, NoScrape, Scrapes
  <2>4. CASE Scrape
    <3>1. scrape' = [step |-> "system", data |-> publication, systems |-> Systems,
                     system |-> None, todo |-> {}, pending |-> {}]
      BY <2>4 DEF Scrape, NoScrape
    <3>2. scrape' \in Scrapes
      BY <2>1, <3>1 DEF Scrapes
    <3>3. scrape'.pending = {} /\ scrape'.data = publication
      BY <3>1
    <3> QED BY <2>1, <2>4, <3>2, <3>3 DEF Scrape
  <2>3. ASSUME NEW s \in Systems, NextSystem(s)
        PROVE  /\ scrape'.pending = {} /\ scrape' \in Scrapes
               /\ UNCHANGED <<publication, stored, advised, refill, byReader, lost>>
               /\ scrape.step # "idle" /\ scrape'.data = scrape.data
    <3>1. /\ scrape.step = "system"
          /\ scrape' = [scrape EXCEPT !.step = "store", !.system = s, !.systems = @ \ {s},
                          !.todo = {k \in Ratings : SystemOf[k] = s}]
          /\ UNCHANGED <<publication, stored, advised, refill, byReader, lost>>
      BY <2>3 DEF NextSystem
    <3> QED BY <2>1, <3>1 DEF Scrapes
  <2> QED BY <2>1, <2>2, <2>3, <2>4
<1>2. AdvisorTypes'
  BY <1>1 DEF AdvisorInv, AdvisorTypes
<1>3. AdvisorOrder'
  BY <1>1 DEF AdvisorInv, AdvisorTypes, AdvisorOrder
<1>4. ReadersBehind' /\ DifferenceIsExplained'
  BY <1>1 DEF AdvisorInv, ReadersBehind, DifferenceIsExplained
<1> QED BY <1>2, <1>3, <1>4 DEF AdvisorInv

\* A rating that is stored is cached at once, as new as its row or newer.
LEMMA StoreRatingKept ==
    ASSUME AdvisorInv, NEW k \in Ratings, StoreRating(k)
    PROVE  AdvisorInv'
<1>1. PICK x \in Scrapes :
        x = [scrape EXCEPT !.todo = @ \ {k}, !.pending = @ \cup {k}]
  BY DEF AdvisorInv, AdvisorTypes, Scrapes
<1>2. /\ x.step = "store" /\ x.data = scrape.data /\ x.pending = scrape.pending \cup {k}
      /\ scrape.step = "store" /\ scrape' = x /\ scrape.data \in Nat
      /\ advised' = [advised EXCEPT ![k] = scrape.data]
      /\ byReader' = byReader \ {k} /\ lost' = lost \ {k}
      /\ UNCHANGED <<publication, stored, refill>>
  BY <1>1 DEF StoreRating, Scrapes, AdvisorInv, AdvisorTypes
<1>3. AdvisorTypes'
  BY <1>2 DEF AdvisorInv, AdvisorTypes
<1>4. AdvisorOrder'
  BY <1>2 DEF AdvisorInv, AdvisorTypes, AdvisorOrder
<1>5. ReadersBehind'
  BY <1>2 DEF AdvisorInv, AdvisorTypes, ReadersBehind
<1>6. DifferenceIsExplained'
  BY <1>2 DEF AdvisorInv, AdvisorTypes, AdvisorOrder, DifferenceIsExplained
<1> QED BY <1>3, <1>4, <1>5, <1>6 DEF AdvisorInv

\* The rows of an operating system become as new as what was cached with them.
LEMMA CommitSystemKept ==
    ASSUME AdvisorInv, CommitSystem
    PROVE  AdvisorInv'
<1>1. PICK x \in Scrapes : x = [scrape EXCEPT !.step = "system", !.pending = {}]
  BY DEF AdvisorInv, AdvisorTypes, Scrapes
<1>2. /\ x.step = "system" /\ x.data = scrape.data /\ x.pending = {}
      /\ scrape.step = "store" /\ scrape' = x /\ scrape.data \in Nat
      /\ stored' = [k \in Ratings |->
                      IF k \in scrape.pending THEN scrape.data ELSE stored[k]]
      /\ UNCHANGED <<publication, advised, refill, byReader, lost>>
  BY <1>1 DEF CommitSystem, Scrapes, AdvisorInv, AdvisorTypes
<1>3. \A k \in Ratings : /\ stored[k] \in Nat /\ stored[k] <= stored'[k]
                         /\ stored'[k] <= scrape.data /\ stored'[k] \in Nat
  BY <1>2 DEF AdvisorInv, AdvisorTypes, AdvisorOrder
<1>4. AdvisorTypes'
  BY <1>2 DEF AdvisorInv, AdvisorTypes
<1>5. AdvisorOrder'
  BY <1>2, <1>3 DEF AdvisorInv, AdvisorTypes, AdvisorOrder
<1>6. ReadersBehind'
  BY <1>2, <1>3 DEF AdvisorInv, AdvisorTypes, ReadersBehind
<1>7. DifferenceIsExplained'
  BY <1>2, <1>3 DEF AdvisorInv, AdvisorTypes, AdvisorOrder, ReadersBehind,
                   DifferenceIsExplained
<1> QED BY <1>4, <1>5, <1>6, <1>7 DEF AdvisorInv

\* A scrape that fails loses the rows of what it has cached, but for those a
\* reader has overwritten.
LEMMA ScrapeFailsKept ==
    ASSUME AdvisorInv, ScrapeFails
    PROVE  AdvisorInv'
<1>1. /\ scrape'.pending = {} /\ scrape'.step = "idle" /\ scrape' \in Scrapes
      /\ lost' = lost \cup (scrape.pending \ byReader)
      /\ UNCHANGED <<publication, stored, advised, refill, byReader>>
  BY DEF ScrapeFails, NoScrape, Scrapes
<1>2. AdvisorTypes' /\ AdvisorOrder'
  BY <1>1 DEF AdvisorInv, AdvisorTypes, AdvisorOrder
<1>3. ReadersBehind'
  BY <1>1 DEF AdvisorInv, ReadersBehind
<1>4. DifferenceIsExplained'
  BY <1>1 DEF AdvisorInv, AdvisorTypes, ReadersBehind, DifferenceIsExplained
<1> QED BY <1>2, <1>3, <1>4 DEF AdvisorInv

-----------------------------------------------------------------------------
\* A reader takes what is stored, or gives up what it has left.
LEMMA ReadRatingsKept ==
    ASSUME AdvisorInv, NEW c \in RatingReaders,
           Refresh(c) \/ ReaderFails(c) \/ \E k \in Ratings : MissRating(c, k)
    PROVE  AdvisorInv'
<1>1. /\ UNCHANGED <<publication, stored, advised, scrape, byReader, lost>>
      /\ \E S \in SUBSET (Ratings \X Nat) :
           refill' = [refill EXCEPT ![c] = S] /\ \A entry \in S : entry[2] = stored[entry[1]]
  <2>1. CASE Refresh(c)
    <3> DEFINE S == {<<k, stored[k]>> : k \in {k \in Ratings : stored[k] # 0}}
    <3>1. S \in SUBSET (Ratings \X Nat) /\ \A entry \in S : entry[2] = stored[entry[1]]
      <4>1. \A k \in Ratings : <<k, stored[k]>> \in Ratings \X Nat
        BY DEF AdvisorInv, AdvisorTypes
      <4>2. ASSUME NEW entry \in S PROVE \E k \in Ratings : entry = <<k, stored[k]>>
        OBVIOUS
      <4> HIDE DEF S
      <4> QED BY <4>1, <4>2
    <3>2. refill' = [refill EXCEPT ![c] = S]
      BY <2>1 DEF Refresh
    <3> HIDE DEF S
    <3> QED BY <2>1, <3>1, <3>2 DEF Refresh
  <2>2. CASE ReaderFails(c)
    <3>1. {} \in SUBSET (Ratings \X Nat) /\ refill' = [refill EXCEPT ![c] = {}]
      BY <2>2 DEF ReaderFails
    <3> QED BY <2>2, <3>1 DEF ReaderFails
  <2>3. ASSUME NEW k \in Ratings, MissRating(c, k)
        PROVE  /\ UNCHANGED <<publication, stored, advised, scrape, byReader, lost>>
               /\ \E S \in SUBSET (Ratings \X Nat) :
                    /\ refill' = [refill EXCEPT ![c] = S]
                    /\ \A entry \in S : entry[2] = stored[entry[1]]
    <3> DEFINE S == {<<k, stored[k]>>}
    <3>1. S \in SUBSET (Ratings \X Nat) /\ \A entry \in S : entry[2] = stored[entry[1]]
      BY DEF AdvisorInv, AdvisorTypes
    <3>2. refill' = [refill EXCEPT ![c] = S]
      BY <2>3 DEF MissRating
    <3> HIDE DEF S
    <3> QED BY <2>3, <3>1, <3>2 DEF MissRating
  <2> QED BY <2>1, <2>2, <2>3
<1>2. PICK S \in SUBSET (Ratings \X Nat) :
        refill' = [refill EXCEPT ![c] = S] /\ \A entry \in S : entry[2] = stored[entry[1]]
  BY <1>1
<1>3. AdvisorTypes' /\ AdvisorOrder' /\ DifferenceIsExplained'
  BY <1>1, <1>2 DEF AdvisorInv, AdvisorTypes, AdvisorOrder, DifferenceIsExplained
<1>4. ReadersBehind'
  <2>1. \A entry \in S : entry[2] <= stored[entry[1]]
    BY <1>2 DEF AdvisorInv, AdvisorTypes
  <2> QED BY <1>1, <1>2, <2>1 DEF AdvisorInv, AdvisorTypes, ReadersBehind
<1> QED BY <1>3, <1>4 DEF AdvisorInv

\* What a reader caches is no newer than the row.
LEMMA CacheRatingKept ==
    ASSUME AdvisorInv, NEW c \in RatingReaders, CacheRating(c)
    PROVE  AdvisorInv'
<1>1. PICK entry \in refill[c] :
        /\ refill' = [refill EXCEPT ![c] = @ \ {entry}]
        /\ advised' = [advised EXCEPT ![entry[1]] = entry[2]]
        /\ byReader' = byReader \cup {entry[1]} /\ lost' = lost \ {entry[1]}
        /\ UNCHANGED <<publication, stored, scrape>>
  BY DEF CacheRating
<1>2. PICK k \in Ratings, n \in Nat : entry = <<k, n>>
  BY <1>1 DEF AdvisorInv, AdvisorTypes
<1>3. n <= stored[k] /\ stored[k] \in Nat
  BY <1>1, <1>2 DEF AdvisorInv, AdvisorTypes, ReadersBehind
<1>4. /\ advised' = [advised EXCEPT ![k] = n]
      /\ byReader' = byReader \cup {k} /\ lost' = lost \ {k}
      /\ refill' \in [RatingReaders -> SUBSET (Ratings \X Nat)]
      /\ \A d \in RatingReaders : refill'[d] \subseteq refill[d]
  BY <1>1, <1>2 DEF AdvisorInv, AdvisorTypes
<1>5. AdvisorTypes'
  BY <1>1, <1>4 DEF AdvisorInv, AdvisorTypes
<1>6. AdvisorOrder'
  BY <1>1, <1>3, <1>4 DEF AdvisorInv, AdvisorTypes, AdvisorOrder, Scrapes
<1>7. ReadersBehind'
  BY <1>1, <1>3, <1>4 DEF AdvisorInv, AdvisorTypes, ReadersBehind
<1>8. DifferenceIsExplained'
  BY <1>1, <1>3, <1>4 DEF AdvisorInv, AdvisorTypes, DifferenceIsExplained
<1> QED BY <1>5, <1>6, <1>7, <1>8 DEF AdvisorInv

-----------------------------------------------------------------------------
\* A scrape and any number of readers keep the invariant, whatever fails.
THEOREM AdvisorInvariance == AdvisorSpec => []AdvisorInv
<1>1. AdvisorInv /\ [AdvisorNext]_advisorVars => AdvisorInv'
  <2> SUFFICES ASSUME AdvisorInv, [AdvisorNext]_advisorVars PROVE AdvisorInv'
    OBVIOUS
  <2>1. CASE UNCHANGED advisorVars
    BY <2>1 DEF advisorVars, AdvisorInv, AdvisorTypes, AdvisorOrder, ReadersBehind,
                DifferenceIsExplained
  <2>2. CASE AdvisorNext
    BY <2>2, PublishKept, EvictKept, BetweenSystemsKept, StoreRatingKept,
       CommitSystemKept,
       ScrapeFailsKept, ReadRatingsKept, CacheRatingKept DEF AdvisorNext
  <2> QED BY <2>1, <2>2
<1> QED BY <1>1, AdvisorInitial, PTL DEF AdvisorSpec

-----------------------------------------------------------------------------
(***************************************************************************)
(* PriceCollection: of the collections that overlap in a region, a thread  *)
(* that stores and that no newer one has overtaken has a price as new as   *)
(* any row of the region, committed or in a session, and the rows of a     *)
(* thread that ended well were committed by it or by another one of its    *)
(* collection.                                                             *)
(***************************************************************************)
\* Where a cached price may be from, the threads of a collection, and the pools of
\* a region
Origins == {"newest", "reader", "overtaken", "before"}

PriceThreads ==
    [step : {"idle", "fetch", "store", "done", "error"}, todo : SUBSET PricePools,
     price : Nat]

PoolsOf(r) == {p \in PricePools : RegionOf[p] = r}

PriceTypes ==
    /\ now \in Nat /\ rows \subseteq PricePools \X Nat
    /\ session \in [Collectors -> [pending : SUBSET (PricePools \X Nat), poisoned : BOOLEAN]]
    /\ thread \in [Collectors -> [Regions -> PriceThreads]]
    /\ DOMAIN cache = PricePools /\ origin \in [PricePools -> Origins]

\* A row that is committed or waits in a session
Seen(p, t) ==
    <<p, t>> \in rows \/ \E c \in Collectors : <<p, t>> \in session[c].pending

\* A thread that ended well has committed its rows; one that stores, in a session
\* that is well, has put those it is through with into the session.
OwnOK(r, x, committed, s) ==
    /\ x.step = "done" => \A p \in PoolsOf(r) : <<p, x.price>> \in committed
    /\ x.step = "store" =>
         /\ x.todo \subseteq PoolsOf(r)
         /\ ~s.poisoned => \A p \in PoolsOf(r) \ x.todo :
                             <<p, x.price>> \in committed \cup s.pending

ThreadsOK ==
    \A c \in Collectors, r \in Regions :
      thread[c][r].price <= now /\ OwnOK(r, thread[c][r], rows, session[c])

\* A thread that stores and that no other has overtaken has a price as new as any
\* row of its region and as any other thread's that stores.
Leads(c, r) ==
    /\ \A p \in PoolsOf(r), t \in Nat : Seen(p, t) => t <= thread[c][r].price
    /\ \A d \in Collectors : thread[d][r].step = "store" =>
         thread[d][r].price <= thread[c][r].price

LeadersOK ==
    \A c \in Collectors, r \in Regions :
      thread[c][r].step = "store" /\ <<c, r>> \notin overtaken => Leads(c, r)

\* No row is newer than a cached price that is said to be the newest.
CacheOK ==
    \A p \in PricePools : cache[p] # None /\ origin[p] = "newest" =>
      cache[p] \in Nat /\ \A t \in Nat : Seen(p, t) => t <= cache[p]

RowsArePast == \A p \in PricePools, t \in Nat : Seen(p, t) => t <= now

SpotInv == PriceTypes /\ ThreadsOK /\ LeadersOK /\ CacheOK /\ RowsArePast

OnDemandJobs ==
    [step : {"idle", "next", "cache", "commit"}, region : Regions \cup {None},
     price : Nat, todo : SUBSET Regions, pending : SUBSET (Regions \X Nat),
     poisoned : BOOLEAN, counted : SUBSET (Regions \X Nat)]

\* The collection of on-demand prices: every region waits, is pending or is
\* counted, and what is counted is what was committed.
OnDemandInv ==
    LET pending == ondemandJob.pending
        counted == ondemandJob.counted
    IN /\ DOMAIN ondemand = Regions /\ ondemandJob \in OnDemandJobs
       /\ \A x, y \in pending : x[1] = y[1] => x = y
       /\ \A x \in pending, y \in counted : x[1] # y[1]
       /\ \A x \in pending \cup counted : x[1] \notin ondemandJob.todo
       /\ ondemandJob.step \in {"cache", "commit"} =>
            <<ondemandJob.region, ondemandJob.price>> \in pending
       /\ \A entry \in counted : ondemand[entry[1]] = entry[2]

\* The inductive invariant
PriceInv == SpotInv /\ OnDemandInv

-----------------------------------------------------------------------------
\* A set of times has a newest one.
LEMMA NewestTime ==
    ASSUME NEW n \in Nat, NEW S \in SUBSET (1 .. n), S # {}
    PROVE  Max(S) \in S /\ \A x \in S : x <= Max(S)
<1> DEFINE T == {n - x : x \in S}
<1>1. T \subseteq Nat /\ T # {}
  <2>1. \A x \in S : n - x \in Nat
    OBVIOUS
  <2>2. PICK x \in S : TRUE
    OBVIOUS
  <2>3. n - x \in T
    OBVIOUS
  <2> QED BY <2>1, <2>3
<1>2. \E m \in T : \A y \in T : <<y, m>> \notin OpToRel(<, Nat)
  <2> HIDE DEF T
  <2> QED BY <1>1, WFMin, NatLessThanWellFounded
<1>3. PICK m \in T : \A y \in T : ~(y < m)
  BY <1>1, <1>2 DEF OpToRel
<1>4. PICK x \in S : m = n - x
  OBVIOUS
<1>5. \A y \in S : n - y \in T /\ y \in Int
  OBVIOUS
<1>6. \A y \in S : x >= y
  BY <1>3, <1>4, <1>5
<1>7. Max(S) \in S /\ \A y \in S : Max(S) >= y
  BY <1>6 DEF Max
<1> QED BY <1>7

\* Nothing is collected.
LEMMA PriceInitial == PriceInit => PriceInv
<1> SUFFICES ASSUME PriceInit PROVE PriceInv
  OBVIOUS
<1>1. /\ \A c \in Collectors : session[c] = NoSession
      /\ \A c \in Collectors, r \in Regions : thread[c][r] = NoThread
      /\ \A p \in PricePools, t \in Nat : ~Seen(p, t)
  BY DEF PriceInit, Seen, NoSession
<1>2. PriceTypes
  BY DEF PriceInit, PriceTypes, NoSession, NoThread, PriceThreads, Origins
<1>3. ThreadsOK /\ LeadersOK /\ CacheOK /\ RowsArePast
  BY <1>1 DEF ThreadsOK, OwnOK, LeadersOK, NoThread, CacheOK, RowsArePast, PriceInit
<1>4. OnDemandInv
  BY DEF PriceInit, OnDemandInv, OnDemandJobs, NoOnDemandJob
<1> QED BY <1>2, <1>3, <1>4 DEF PriceInv, SpotInv

-----------------------------------------------------------------------------
(***************************************************************************)
(* Spot prices                                                             *)
(***************************************************************************)

\* Steps that touch neither rows, sessions nor threads: time goes on, prices
\* expire or are put back by a reader.
LEMMA SpotStays ==
    ASSUME SpotInv, UNCHANGED <<rows, session, thread, overtaken>>, now' \in Nat, now <= now',
           DOMAIN cache' = PricePools, origin' \in [PricePools -> Origins],
           \A p \in PricePools :
             \/ cache'[p] = None \/ origin'[p] # "newest"
             \/ cache'[p] = cache[p] /\ origin'[p] = origin[p]
    PROVE  SpotInv'
<1>1. PriceTypes' /\ \A p, t : Seen(p, t)' <=> Seen(p, t)
  <2>1. PriceTypes'
    BY DEF SpotInv, PriceTypes
  <2> QED BY <2>1 DEF Seen
<1>2. ThreadsOK'
  <2> SUFFICES ASSUME NEW c \in Collectors, NEW r \in Regions
               PROVE  thread[c][r].price <= now'
    BY DEF SpotInv, ThreadsOK
  <2>1. thread[c][r].price \in Nat /\ thread[c][r].price <= now /\ now \in Nat
    BY DEF SpotInv, PriceTypes, ThreadsOK, PriceThreads
  <2> QED BY <2>1
<1>3. LeadersOK'
  BY <1>1 DEF SpotInv, LeadersOK, Leads
<1>4. CacheOK'
  BY <1>1 DEF SpotInv, CacheOK
<1>5. RowsArePast'
  BY <1>1 DEF SpotInv, PriceTypes, RowsArePast
<1> QED BY <1>1, <1>2, <1>3, <1>4, <1>5 DEF SpotInv

LEMMA QuietKept ==
    ASSUME SpotInv, Tick \/ Expire \/ \E c \in Readers : Refill(c)
    PROVE  SpotInv'
<1>1. now \in Nat /\ DOMAIN cache = PricePools /\ origin \in [PricePools -> Origins]
  BY DEF SpotInv, PriceTypes
<1>2. CASE Tick
  BY <1>1, <1>2, SpotStays DEF Tick, spotVars
<1>3. CASE Expire
  <2>1. /\ DOMAIN cache' = PricePools /\ \A p \in PricePools : cache'[p] \in {None, cache[p]}
        /\ UNCHANGED <<now, rows, session, thread, overtaken, origin>>
    BY <1>1, <1>3 DEF Expire, spotVars
  <2> QED BY <1>1, <2>1, SpotStays
<1>4. ASSUME NEW c \in Readers, Refill(c) PROVE SpotInv'
  <2>1. /\ UNCHANGED <<now, rows, session, thread, overtaken>>
        /\ cache' = [cache EXCEPT ![reader[c].pool] = reader[c].price]
        /\ origin' = [origin EXCEPT ![reader[c].pool] = "reader"]
    BY <1>4 DEF Refill
  <2>2. DOMAIN cache' = PricePools /\ origin' \in [PricePools -> Origins]
    BY <1>1, <2>1 DEF Origins
  <2>3. \A p \in PricePools : origin'[p] # "newest"
                             \/ (cache'[p] = cache[p] /\ origin'[p] = origin[p])
    BY <1>1, <2>1
  <2> QED BY <1>1, <2>1, <2>2, <2>3, SpotStays
<1> QED BY <1>2, <1>3, <1>4

\* What the step of one thread does to all of them
LEMMA ThreadMoves ==
    ASSUME PriceTypes, NEW c \in Collectors, NEW r \in Regions, NEW x \in PriceThreads,
           thread' = [thread EXCEPT ![c][r] = x]
    PROVE  /\ thread' \in [Collectors -> [Regions -> PriceThreads]]
           /\ thread'[c][r] = x
           /\ \A d \in Collectors, s \in Regions :
                d # c \/ s # r => thread'[d][s] = thread[d][s]
BY DEF PriceTypes

\* A thread that moves to a step that is not a state of this one's records
LEMMA SetThreadMoves ==
    ASSUME PriceTypes, NEW c \in Collectors, NEW r \in Regions,
           NEW step \in {"done", "error"}, SetThread(c, r, step)
    PROVE  \E x \in PriceThreads : /\ thread' = [thread EXCEPT ![c][r] = x]
                                   /\ x.step = step /\ x.price = thread[c][r].price
<1>1. thread[c][r] \in PriceThreads
  BY DEF PriceTypes
<1> DEFINE x == [thread[c][r] EXCEPT !.step = step]
<1>2. x \in PriceThreads /\ x.step = step /\ x.price = thread[c][r].price
  BY <1>1 DEF PriceThreads
<1>3. thread' = [thread EXCEPT ![c][r] = x]
  BY DEF SetThread, PriceTypes
<1> QED BY <1>2, <1>3

\* A collection begins, or ends, with a new session; what was not committed is
\* forgotten.
LEMMA CollectionKept ==
    ASSUME SpotInv, NEW c \in Collectors, Collect(c) \/ Collected(c)
    PROVE  SpotInv'
<1>1. /\ session' = [session EXCEPT ![c] = NoSession] /\ UNCHANGED <<now, rows, origin, cache>>
      /\ \E x \in [Regions -> PriceThreads] :
           /\ thread' = [thread EXCEPT ![c] = x]
           /\ \A r \in Regions : x[r].step \in {"idle", "fetch"} /\ x[r].price = 0
      /\ \A d \in Collectors \ {c}, r \in Regions :
           <<d, r>> \in overtaken => <<d, r>> \in overtaken'
  <2>1. /\ [r \in Regions |-> NoThread] \in [Regions -> PriceThreads]
        /\ [r \in Regions |-> [NoThread EXCEPT !.step = "fetch"]] \in [Regions -> PriceThreads]
    BY DEF NoThread, PriceThreads
  <2>2. CASE Collect(c)
    BY <2>1, <2>2 DEF Collect, NoThread
  <2>3. CASE Collected(c)
    BY <2>1, <2>3 DEF Collected, NoThread
  <2> QED BY <2>2, <2>3
<1>2. PICK x \in [Regions -> PriceThreads] :
        /\ thread' = [thread EXCEPT ![c] = x]
        /\ \A r \in Regions : x[r].step \in {"idle", "fetch"} /\ x[r].price = 0
  BY <1>1
<1>3. /\ thread' \in [Collectors -> [Regions -> PriceThreads]]
      /\ \A r \in Regions : thread'[c][r].step \in {"idle", "fetch"} /\ thread'[c][r].price = 0
      /\ \A d \in Collectors \ {c} : thread'[d] = thread[d] /\ session'[d] = session[d]
  BY <1>1, <1>2 DEF SpotInv, PriceTypes
<1>4. PriceTypes'
  BY <1>1, <1>3 DEF SpotInv, PriceTypes, NoSession
<1>5. \A p, t : Seen(p, t)' => Seen(p, t)
  BY <1>1, <1>3 DEF Seen, NoSession, SpotInv, PriceTypes
<1>6. ThreadsOK'
  <2> SUFFICES ASSUME NEW d \in Collectors, NEW r \in Regions
               PROVE  /\ thread'[d][r].price <= now'
                      /\ OwnOK(r, thread'[d][r], rows', session'[d])
    BY DEF ThreadsOK
  <2>1. CASE d = c
    BY <1>1, <1>3, <2>1 DEF OwnOK, SpotInv, PriceTypes
  <2>2. CASE d # c
    BY <1>1, <1>3, <2>2 DEF SpotInv, ThreadsOK
  <2> QED BY <2>1, <2>2
<1>7. LeadersOK'
  <2> SUFFICES ASSUME NEW d \in Collectors, NEW r \in Regions, thread'[d][r].step = "store",
                      <<d, r>> \notin overtaken'
               PROVE  Leads(d, r)'
    BY DEF LeadersOK
  <2>1. d # c /\ Leads(d, r)
    BY <1>1, <1>3 DEF SpotInv, LeadersOK
  <2> QED BY <1>3, <1>5, <2>1 DEF Leads
<1>8. CacheOK' /\ RowsArePast'
  BY <1>1, <1>5 DEF SpotInv, CacheOK, RowsArePast
<1> QED BY <1>4, <1>6, <1>7, <1>8 DEF SpotInv

\* What AWS answers is the current price, as new as any row; the threads that have
\* an older one are overtaken.
LEMMA FetchKept ==
    ASSUME SpotInv, NEW c \in Collectors, NEW r \in Regions, Fetch(c, r)
    PROVE  SpotInv'
<1>1. /\ UNCHANGED <<now, rows, session, origin, cache>> /\ PriceTypes
      /\ now \in Nat /\ thread[c][r] \in PriceThreads
  BY DEF Fetch, SpotInv, PriceTypes
<1>2. PICK x \in PriceThreads :
        /\ thread' = [thread EXCEPT ![c][r] = x]
        /\ \/ /\ x.step = "store" /\ x.price = now /\ x.todo = PoolsOf(r)
              /\ overtaken' = (overtaken \cup Older(r)) \ {<<c, r>>}
           \/ x.step = "error" /\ x.price = thread[c][r].price /\ overtaken' = overtaken
  <2> DEFINE y == [step |-> "store", price |-> now, todo |-> PoolsOf(r)]
  <2>1. y \in PriceThreads
    BY <1>1 DEF PriceThreads, PoolsOf
  <2>2. CASE SetThread(c, r, "error") /\ UNCHANGED overtaken
    BY <1>1, <2>2, SetThreadMoves
  <2>3. CASE /\ thread' = [thread EXCEPT ![c][r] = y]
             /\ overtaken' = (overtaken \cup Older(r)) \ {<<c, r>>}
    BY <2>1, <2>3
  <2> QED BY <2>2, <2>3 DEF Fetch, PoolsOf
<1>3. /\ thread' \in [Collectors -> [Regions -> PriceThreads]] /\ thread'[c][r] = x
      /\ \A d \in Collectors, s \in Regions :
           d # c \/ s # r => thread'[d][s] = thread[d][s]
  BY <1>1, <1>2, ThreadMoves
<1>4. PriceTypes' /\ \A p, t : Seen(p, t)' <=> Seen(p, t)
  BY <1>1, <1>3 DEF PriceTypes, Seen
<1>5. ThreadsOK'
  <2> SUFFICES ASSUME NEW d \in Collectors, NEW s \in Regions
               PROVE  /\ thread'[d][s].price <= now
                      /\ OwnOK(s, thread'[d][s], rows, session[d])
    BY <1>1 DEF ThreadsOK
  <2>1. CASE d = c /\ s = r
    BY <1>1, <1>2, <1>3, <2>1 DEF OwnOK, SpotInv, ThreadsOK
  <2>2. CASE d # c \/ s # r
    BY <1>3, <2>2 DEF SpotInv, ThreadsOK
  <2> QED BY <2>1, <2>2
<1>6. LeadersOK'
  <2> SUFFICES ASSUME NEW d \in Collectors, NEW s \in Regions, thread'[d][s].step = "store",
                      <<d, s>> \notin overtaken'
               PROVE  Leads(d, s)'
    BY DEF LeadersOK
  <2>0. \A e \in Collectors, q \in Regions :
          thread[e][q].price \in Nat /\ thread[e][q].price <= now
    BY DEF SpotInv, PriceTypes, ThreadsOK, PriceThreads
  <2>1. CASE d = c /\ s = r
    <3>1. thread'[d][s].price = now
      BY <1>2, <1>3, <2>1
    <3>2. \A p \in PoolsOf(s), t \in Nat : Seen(p, t) => t <= now
      BY DEF SpotInv, RowsArePast, PoolsOf
    <3>3. \A e \in Collectors : thread'[e][s].price <= now
      BY <1>1, <1>3, <2>0, <2>1, <3>1
    <3> QED BY <1>4, <3>1, <3>2, <3>3 DEF Leads
  <2>2. CASE d # c \/ s # r
    <3>1. thread'[d][s] = thread[d][s] /\ <<d, s>> # <<c, r>>
      BY <1>3, <2>2
    <3>2. <<d, s>> \notin overtaken
      BY <1>2, <3>1
    <3>3. Leads(d, s)
      BY <3>1, <3>2 DEF SpotInv, LeadersOK
    <3>4. ASSUME NEW e \in Collectors, thread'[e][s].step = "store"
          PROVE  thread'[e][s].price <= thread[d][s].price
      <4>1. CASE e # c \/ s # r
        BY <1>3, <3>3, <3>4, <4>1 DEF Leads
      <4>2. CASE e = c /\ s = r
        <5>1. x.price = now /\ <<d, r>> \notin Older(r)
          BY <1>2, <1>3, <3>1, <3>4, <4>2
        <5>2. thread[d][r].step = "store"
          BY <3>1, <4>2
        <5>3. ~(thread[d][r].price < now)
          BY <5>1, <5>2 DEF Older
        <5> QED BY <1>1, <1>3, <2>0, <4>2, <5>1, <5>3
      <4> QED BY <4>1, <4>2
    <3> QED BY <1>4, <3>1, <3>3, <3>4 DEF Leads
  <2> QED BY <2>1, <2>2
<1>7. CacheOK' /\ RowsArePast'
  BY <1>1, <1>4 DEF SpotInv, CacheOK, RowsArePast
<1> QED BY <1>4, <1>5, <1>6, <1>7 DEF SpotInv

\* What storing a price does to the records and the session
LEMMA StoreFacts ==
    ASSUME SpotInv, NEW c \in Collectors, NEW r \in Regions, NEW p \in PricePools,
           Store(c, r, p), NEW price, price = thread[c][r].price
    PROVE  /\ thread[c][r] \in PriceThreads /\ thread[c][r].step = "store"
           /\ p \in thread[c][r].todo /\ p \in PoolsOf(r) /\ price \in Nat /\ price <= now
           /\ UNCHANGED <<now, rows, overtaken>>
           /\ session'[c].poisoned = session[c].poisoned
           /\ session'[c].pending = session[c].pending \cup {<<p, price>>}
           /\ \A d \in Collectors \ {c} : session'[d] = session[d]
           /\ session' \in [Collectors -> [pending : SUBSET (PricePools \X Nat),
                                           poisoned : BOOLEAN]]
           /\ \A q, t : Seen(q, t)' <=> (Seen(q, t) \/ (q = p /\ t = price))
           /\ \E x \in PriceThreads :
                /\ thread' = [thread EXCEPT ![c][r] = x] /\ x.price = price
                /\ x.step = "error" \/ (x.step = "store" /\ x.todo = thread[c][r].todo \ {p})
<1>1. /\ thread[c][r] \in PriceThreads /\ thread[c][r].step = "store"
      /\ p \in thread[c][r].todo /\ price \in Nat /\ price <= now
      /\ UNCHANGED <<now, rows, overtaken>> /\ PriceTypes
      /\ session[c] \in [pending : SUBSET (PricePools \X Nat), poisoned : BOOLEAN]
  BY DEF Store, SpotInv, PriceTypes, ThreadsOK, PriceThreads
<1>2. p \in PoolsOf(r)
  BY <1>1 DEF SpotInv, ThreadsOK, OwnOK
<1>3. session' = [session EXCEPT ![c] = [session[c] EXCEPT !.pending = @ \cup {<<p, price>>}]]
  BY DEF Store, SpotInv, PriceTypes
<1>4. /\ session'[c] = [pending |-> session[c].pending \cup {<<p, price>>},
                        poisoned |-> session[c].poisoned]
      /\ \A d \in Collectors \ {c} : session'[d] = session[d] /\ DOMAIN session' = Collectors
  BY <1>1, <1>3 DEF PriceTypes
<1>5. <<p, price>> \in PricePools \X Nat
  BY <1>1
<1>6. session' \in [Collectors -> [pending : SUBSET (PricePools \X Nat), poisoned : BOOLEAN]]
  BY <1>1, <1>3, <1>5 DEF PriceTypes
<1>7. ASSUME NEW q, NEW t PROVE Seen(q, t)' <=> (Seen(q, t) \/ (q = p /\ t = price))
  <2>1. \A d \in Collectors : <<q, t>> \in session'[d].pending
          <=> (<<q, t>> \in session[d].pending \/ (d = c /\ <<q, t>> = <<p, price>>))
    BY <1>4
  <2>2. <<q, t>> = <<p, price>> <=> (q = p /\ t = price)
    OBVIOUS
  <2> QED BY <1>1, <2>1, <2>2 DEF Seen
<1>8. \E x \in PriceThreads :
        /\ thread' = [thread EXCEPT ![c][r] = x] /\ x.price = price
        /\ x.step = "error" \/ (x.step = "store" /\ x.todo = thread[c][r].todo \ {p})
  <2>1. CASE SetThread(c, r, "error")
    BY <1>1, <2>1, SetThreadMoves
  <2>2. CASE thread' = [thread EXCEPT ![c][r].todo = @ \ {p}]
    <3> DEFINE x == [thread[c][r] EXCEPT !.todo = @ \ {p}]
    <3>1. /\ x \in PriceThreads /\ x.price = price /\ x.step = "store"
          /\ x.todo = thread[c][r].todo \ {p}
      BY <1>1 DEF PriceThreads
    <3>2. thread' = [thread EXCEPT ![c][r] = x]
      BY <2>2, <1>1 DEF PriceTypes
    <3> QED BY <3>1, <3>2
  <2> QED BY <2>1, <2>2 DEF Store
<1>9. /\ session'[c].poisoned = session[c].poisoned
      /\ session'[c].pending = session[c].pending \cup {<<p, price>>}
  BY <1>4
<1> HIDE DEF PriceThreads
<1> QED BY <1>1, <1>2, <1>4, <1>6, <1>7, <1>8, <1>9

\* What a store that works or fails makes of the cached price
LEMMA StoreCaches ==
    ASSUME SpotInv, NEW c \in Collectors, NEW r \in Regions, NEW p \in PricePools,
           Store(c, r, p), NEW price, price = thread[c][r].price
    PROVE  /\ DOMAIN cache' = PricePools /\ origin' \in [PricePools -> Origins]
           /\ \A q \in PricePools \ {p} : cache'[q] = cache[q] /\ origin'[q] = origin[q]
           /\ \/ origin'[p] # "newest"
              \/ cache'[p] = price /\ <<c, r>> \notin overtaken
              \/ /\ cache'[p] = cache[p] /\ origin'[p] = origin[p]
                 /\ cache[p] = None \/ ~(cache[p] < price)
BY DEF Store, SpotInv, PriceTypes, Origins

\* A price is cached after its row is in the session.
LEMMA StoreKept ==
    ASSUME SpotInv, NEW c \in Collectors, NEW r \in Regions, NEW p \in PricePools,
           Store(c, r, p)
    PROVE  SpotInv'
<1> DEFINE price == thread[c][r].price
<1>1. /\ thread[c][r] \in PriceThreads /\ thread[c][r].step = "store"
      /\ p \in thread[c][r].todo /\ p \in PoolsOf(r) /\ price \in Nat /\ price <= now
      /\ UNCHANGED <<now, rows, overtaken>>
      /\ session'[c].poisoned = session[c].poisoned
      /\ session'[c].pending = session[c].pending \cup {<<p, price>>}
      /\ \A d \in Collectors \ {c} : session'[d] = session[d]
      /\ session' \in [Collectors -> [pending : SUBSET (PricePools \X Nat), poisoned : BOOLEAN]]
      /\ \A q, t : Seen(q, t)' <=> (Seen(q, t) \/ (q = p /\ t = price))
      /\ \E x \in PriceThreads :
           /\ thread' = [thread EXCEPT ![c][r] = x] /\ x.price = price
           /\ x.step = "error" \/ (x.step = "store" /\ x.todo = thread[c][r].todo \ {p})
  BY StoreFacts
<1>2. PICK x \in PriceThreads :
        /\ thread' = [thread EXCEPT ![c][r] = x] /\ x.price = price
        /\ x.step = "error" \/ (x.step = "store" /\ x.todo = thread[c][r].todo \ {p})
  BY <1>1
<1>3. /\ thread' \in [Collectors -> [Regions -> PriceThreads]] /\ thread'[c][r] = x
      /\ \A d \in Collectors, s \in Regions :
           d # c \/ s # r => thread'[d][s] = thread[d][s]
  BY <1>2, ThreadMoves DEF SpotInv
<1>4. /\ DOMAIN cache' = PricePools /\ origin' \in [PricePools -> Origins]
      /\ \A q \in PricePools \ {p} : cache'[q] = cache[q] /\ origin'[q] = origin[q]
      /\ \/ origin'[p] # "newest"
         \/ cache'[p] = price /\ <<c, r>> \notin overtaken
         \/ /\ cache'[p] = cache[p] /\ origin'[p] = origin[p]
            /\ cache[p] = None \/ ~(cache[p] < price)
  BY StoreCaches
<1>5. PriceTypes'
  BY <1>1, <1>3, <1>4 DEF SpotInv, PriceTypes
<1>6. \A d \in Collectors, s \in Regions :
        /\ thread[d][s].price \in Nat /\ thread[d][s].price <= now
        /\ OwnOK(s, thread[d][s], rows, session[d])
  BY DEF SpotInv, ThreadsOK, PriceTypes, PriceThreads
<1> HIDE DEF price
<1>7. ThreadsOK'
  <2> SUFFICES ASSUME NEW d \in Collectors, NEW s \in Regions
               PROVE  /\ thread'[d][s].price <= now
                      /\ OwnOK(s, thread'[d][s], rows, session'[d])
    BY <1>1 DEF ThreadsOK
  <2>1. CASE d # c
    BY <1>1, <1>3, <1>6, <2>1
  <2>2. CASE d = c /\ s # r
    <3>1. thread'[d][s] = thread[d][s]
      BY <1>3, <2>2
    <3> QED BY <1>1, <1>6, <2>2, <3>1 DEF OwnOK
  <2>3. CASE d = c /\ s = r
    <3>1. OwnOK(r, thread[c][r], rows, session[c])
      BY <1>6
    <3>2. OwnOK(r, x, rows, session'[c])
      BY <1>1, <1>2, <3>1 DEF OwnOK, price
    <3> QED BY <1>1, <1>2, <1>3, <2>3, <3>2
  <2> QED BY <2>1, <2>2, <2>3
<1>8. LeadersOK'
  <2> SUFFICES ASSUME NEW d \in Collectors, NEW s \in Regions, thread'[d][s].step = "store",
                      <<d, s>> \notin overtaken
               PROVE  Leads(d, s)'
    BY <1>1 DEF LeadersOK
  <2>1. \A e \in Collectors, q \in Regions :
          /\ thread'[e][q].price = thread[e][q].price
          /\ thread'[e][q].step = "store" => thread[e][q].step = "store"
    BY <1>1, <1>2, <1>3 DEF price
  <2>2. Leads(d, s)
    BY <2>1 DEF SpotInv, LeadersOK
  <2>3. s = r => price <= thread[d][s].price
    BY <1>1, <2>2 DEF Leads, price
  <2>4. \A q \in PoolsOf(s) : q = p => s = r
    BY <1>1 DEF PoolsOf
  <2>5. \A q \in PoolsOf(s), t \in Nat : Seen(q, t)' => t <= thread[d][s].price
    BY <1>1, <2>2, <2>3, <2>4 DEF Leads
  <2> QED BY <2>1, <2>2, <2>5 DEF Leads
<1>9. CacheOK'
  <2> SUFFICES ASSUME NEW q \in PricePools, cache'[q] # None, origin'[q] = "newest"
               PROVE  cache'[q] \in Nat /\ \A t \in Nat : Seen(q, t)' => t <= cache'[q]
    BY DEF CacheOK
  <2>1. CASE q # p
    <3>1. cache[q] \in Nat /\ \A t \in Nat : Seen(q, t) => t <= cache[q]
      BY <1>4, <2>1 DEF SpotInv, CacheOK
    <3> QED BY <1>1, <1>4, <2>1, <3>1
  <2>2. CASE q = p /\ cache'[p] = price /\ <<c, r>> \notin overtaken
    <3>1. Leads(c, r)
      BY <1>1, <2>2 DEF SpotInv, LeadersOK
    <3>2. \A t \in Nat : Seen(p, t) => t <= price
      BY <1>1, <3>1 DEF Leads, price
    <3> QED BY <1>1, <2>2, <3>2
  <2>3. CASE /\ q = p /\ cache'[p] = cache[p] /\ origin'[p] = origin[p]
             /\ cache[p] = None \/ ~(cache[p] < price)
    <3>1. cache[p] \in Nat /\ \A t \in Nat : Seen(p, t) => t <= cache[p]
      BY <2>3 DEF SpotInv, CacheOK
    <3>2. price <= cache[p]
      BY <1>1, <2>3, <3>1
    <3> QED BY <1>1, <2>3, <3>1, <3>2
  <2> QED BY <1>4, <2>1, <2>2, <2>3
<1>10. RowsArePast'
  BY <1>1 DEF SpotInv, RowsArePast
<1> QED BY <1>5, <1>7, <1>8, <1>9, <1>10 DEF SpotInv

\* A commit stores the rows of all regions that are in the session, or loses
\* them all.
LEMMA CommitKept ==
    ASSUME SpotInv, NEW c \in Collectors, NEW r \in Regions, Commit(c, r)
    PROVE  SpotInv'
<1>1. /\ thread[c][r] \in PriceThreads /\ thread[c][r].step = "store"
      /\ thread[c][r].todo = {} /\ thread[c][r].price <= now
      /\ OwnOK(r, thread[c][r], rows, session[c])
      /\ UNCHANGED <<now, overtaken, origin, cache>> /\ PriceTypes
  BY DEF Commit, SpotInv, PriceTypes, ThreadsOK
<1>2. PICK x \in PriceThreads :
        /\ thread' = [thread EXCEPT ![c][r] = x] /\ x.price = thread[c][r].price
        /\ \/ /\ x.step = "done" /\ ~session[c].poisoned
              /\ rows' = rows \cup session[c].pending
              /\ session' = [session EXCEPT ![c] = NoSession]
           \/ /\ x.step = "error" /\ rows' = rows
              /\ session' = [session EXCEPT ![c] = FailedSession]
  BY <1>1, SetThreadMoves DEF Commit
<1>3. /\ thread' \in [Collectors -> [Regions -> PriceThreads]] /\ thread'[c][r] = x
      /\ \A d \in Collectors, s \in Regions :
           d # c \/ s # r => thread'[d][s] = thread[d][s]
  BY <1>1, <1>2, ThreadMoves
<1>4. /\ \A d \in Collectors \ {c} : session'[d] = session[d]
      /\ session'[c] = FailedSession \/ (x.step = "done" /\ session'[c] = NoSession)
      /\ session'[c].pending = {} /\ (x.step = "error" => session'[c].poisoned)
      /\ rows \subseteq rows'
  <2>1. /\ \A d \in Collectors \ {c} : session'[d] = session[d]
        /\ session'[c] = FailedSession \/ (x.step = "done" /\ session'[c] = NoSession)
    BY <1>1, <1>2 DEF PriceTypes
  <2>2. NoSession.pending = {} /\ FailedSession.pending = {} /\ FailedSession.poisoned
    BY DEF NoSession, FailedSession
  <2> QED BY <1>2, <2>1, <2>2
<1>5. PriceTypes'
  <2>1. NoSession \in [pending : SUBSET (PricePools \X Nat), poisoned : BOOLEAN]
    BY DEF NoSession
  <2>2. FailedSession \in [pending : SUBSET (PricePools \X Nat), poisoned : BOOLEAN]
    BY DEF FailedSession
  <2>3. session' \in [Collectors -> [pending : SUBSET (PricePools \X Nat), poisoned : BOOLEAN]]
    BY <1>1, <1>2, <2>1, <2>2 DEF PriceTypes
  <2>4. rows' \subseteq PricePools \X Nat
    BY <1>1, <1>2 DEF PriceTypes
  <2> QED BY <1>1, <1>3, <2>3, <2>4 DEF PriceTypes
<1>6. \A p, t : Seen(p, t)' => Seen(p, t)
  <2> SUFFICES ASSUME NEW p, NEW t, Seen(p, t)' PROVE Seen(p, t)
    OBVIOUS
  <2>1. <<p, t>> \in rows' => <<p, t>> \in rows \cup session[c].pending
    BY <1>2
  <2>2. \A d \in Collectors : <<p, t>> \in session'[d].pending =>
                                <<p, t>> \in session[d].pending
    BY <1>4
  <2> QED BY <2>1, <2>2 DEF Seen
<1>7. ThreadsOK'
  <2> SUFFICES ASSUME NEW d \in Collectors, NEW s \in Regions
               PROVE  /\ thread'[d][s].price <= now
                      /\ OwnOK(s, thread'[d][s], rows', session'[d])
    BY <1>1 DEF ThreadsOK
  <2>0. OwnOK(s, thread[d][s], rows, session[d]) /\ thread[d][s].price <= now
    BY DEF SpotInv, ThreadsOK
  <2>1. CASE d # c
    <3>1. thread'[d][s] = thread[d][s] /\ session'[d] = session[d]
      BY <1>3, <1>4, <2>1
    <3> QED BY <1>4, <2>0, <3>1 DEF OwnOK
  <2>2. CASE d = c /\ s # r
    <3>1. thread'[d][s] = thread[d][s]
      BY <1>3, <2>2
    <3>2. ~session'[c].poisoned => /\ ~session[c].poisoned
                                   /\ rows' = rows \cup session[c].pending
      BY <1>2, <1>4
    <3> QED BY <1>4, <2>0, <2>2, <3>1, <3>2 DEF OwnOK
  <2>3. CASE d = c /\ s = r
    <3>1. OwnOK(r, x, rows', session'[c])
      BY <1>1, <1>2 DEF OwnOK
    <3> QED BY <1>1, <1>2, <1>3, <2>3, <3>1
  <2> QED BY <2>1, <2>2, <2>3
<1>8. LeadersOK'
  <2> SUFFICES ASSUME NEW d \in Collectors, NEW s \in Regions, thread'[d][s].step = "store",
                      <<d, s>> \notin overtaken
               PROVE  Leads(d, s)'
    BY <1>1 DEF LeadersOK
  <2>1. \A e \in Collectors, q \in Regions : thread'[e][q].step = "store" =>
          thread'[e][q] = thread[e][q]
    BY <1>2, <1>3
  <2>2. Leads(d, s)
    BY <2>1 DEF SpotInv, LeadersOK
  <2> QED BY <1>6, <2>1, <2>2 DEF Leads
<1>9. CacheOK' /\ RowsArePast'
  BY <1>1, <1>6 DEF SpotInv, CacheOK, RowsArePast
<1> QED BY <1>5, <1>7, <1>8, <1>9 DEF SpotInv

-----------------------------------------------------------------------------
(***************************************************************************)
(* On-demand prices                                                        *)
(***************************************************************************)

\* The region that is collected gets a row, or is passed over.
LEMMA NextRegionKept ==
    ASSUME OnDemandInv, now \in Nat, NEW r \in Regions, NextRegion(r)
    PROVE  OnDemandInv'
<1>1. ondemand' = ondemand /\ r \in ondemandJob.todo /\ ondemandJob \in OnDemandJobs
  BY DEF NextRegion, OnDemandInv
<1>2. CASE ondemandJob' = [ondemandJob EXCEPT !.todo = @ \ {r}]
  <2>1. /\ ondemandJob' \in OnDemandJobs /\ ondemandJob'.todo = ondemandJob.todo \ {r}
        /\ ondemandJob'.step = ondemandJob.step /\ ondemandJob'.region = ondemandJob.region
        /\ ondemandJob'.price = ondemandJob.price
        /\ ondemandJob'.pending = ondemandJob.pending
        /\ ondemandJob'.counted = ondemandJob.counted
    BY <1>1, <1>2 DEF OnDemandJobs
  <2> QED BY <1>1, <2>1 DEF OnDemandInv
<1>3. CASE ondemandJob' = [ondemandJob EXCEPT
             !.step = "cache", !.region = r, !.price = now, !.todo = @ \ {r},
             !.pending = @ \cup {<<r, now>>}]
  <2>1. /\ ondemandJob' \in OnDemandJobs /\ ondemandJob'.todo = ondemandJob.todo \ {r}
        /\ ondemandJob'.region = r /\ ondemandJob'.price = now
        /\ ondemandJob'.pending = ondemandJob.pending \cup {<<r, now>>}
        /\ ondemandJob'.counted = ondemandJob.counted
    <3>1. ondemandJob' = [step |-> "cache", region |-> r, price |-> now,
             todo |-> ondemandJob.todo \ {r},
             pending |-> ondemandJob.pending \cup {<<r, now>>},
             poisoned |-> ondemandJob.poisoned, counted |-> ondemandJob.counted]
      BY <1>1, <1>3 DEF OnDemandJobs
    <3>2. /\ ondemandJob.todo \ {r} \in SUBSET Regions /\ r \in Regions \cup {None}
          /\ ondemandJob.pending \cup {<<r, now>>} \in SUBSET (Regions \X Nat)
          /\ ondemandJob.poisoned \in BOOLEAN
          /\ ondemandJob.counted \in SUBSET (Regions \X Nat)
      BY <1>1 DEF OnDemandJobs
    <3> QED BY <3>1, <3>2 DEF OnDemandJobs
  <2>2. <<r, now>>[1] = r
    OBVIOUS
  <2> QED BY <1>1, <2>1, <2>2 DEF OnDemandInv
<1> QED BY <1>2, <1>3 DEF NextRegion

\* A region is counted once its row is committed.
LEMMA CommitOnDemandKept ==
    ASSUME OnDemandInv, CommitOnDemand
    PROVE  OnDemandInv'
<1> DEFINE pending == ondemandJob.pending
           counted == ondemandJob.counted
           new == <<ondemandJob.region, ondemandJob.price>>
<1>1. /\ DOMAIN ondemand = Regions /\ ondemandJob \in OnDemandJobs
      /\ pending \subseteq Regions \X Nat /\ counted \subseteq Regions \X Nat
      /\ \A x, y \in pending : x[1] = y[1] => x = y
      /\ \A x \in pending, y \in counted : x[1] # y[1]
      /\ \A x \in pending \cup counted : x[1] \notin ondemandJob.todo
      /\ new \in pending
      /\ \A entry \in counted : ondemand[entry[1]] = entry[2]
  BY DEF OnDemandInv, CommitOnDemand, OnDemandJobs
<1>2. ASSUME ondemandJob' = [ondemandJob EXCEPT !.step = "next", !.pending = {},
                                                !.poisoned = TRUE],
             UNCHANGED ondemand
      PROVE  OnDemandInv'
  <2>1. /\ ondemandJob' \in OnDemandJobs
        /\ ondemandJob'.step = "next" /\ ondemandJob'.pending = {}
        /\ ondemandJob'.counted = counted /\ ondemandJob'.todo = ondemandJob.todo
    BY <1>1, <1>2 DEF OnDemandJobs
  <2> HIDE DEF counted, pending
  <2> QED BY <1>1, <1>2, <2>1 DEF OnDemandInv
<1>3. ASSUME ondemand' = [r \in Regions |->
               IF \E row \in pending : row[1] = r
                 THEN (CHOOSE row \in pending : row[1] = r)[2]
                 ELSE ondemand[r]],
             ondemandJob' = [ondemandJob EXCEPT !.step = "next", !.pending = {},
                                                !.counted = @ \cup {new}]
      PROVE  OnDemandInv'
  <2>1. /\ ondemandJob' \in OnDemandJobs
        /\ ondemandJob'.step = "next" /\ ondemandJob'.pending = {}
        /\ ondemandJob'.counted = counted \cup {new} /\ ondemandJob'.todo = ondemandJob.todo
    <3>1. new \in Regions \X Nat
      BY <1>1
    <3> HIDE DEF new
    <3> QED BY <1>1, <1>3, <3>1 DEF OnDemandJobs
  <2>2. DOMAIN ondemand' = Regions
    BY <1>3
  <2>3. \A entry \in counted : ondemand'[entry[1]] = entry[2]
    BY <1>1, <1>3
  <2>4. ondemand'[new[1]] = new[2]
    <3>1. new[1] \in Regions
      BY <1>1
    <3>2. (CHOOSE row \in pending : row[1] = new[1]) = new
      <4> HIDE DEF new, pending
      <4> QED BY <1>1
    <3> HIDE DEF new, pending
    <3> QED BY <1>1, <1>3, <3>1, <3>2
  <2>5. \A x \in counted \cup {new} : x[1] \notin ondemandJob.todo
    BY <1>1
  <2> HIDE DEF counted, pending, new
  <2> QED BY <1>1, <2>1, <2>2, <2>3, <2>4, <2>5 DEF OnDemandInv
<1> QED BY <1>2, <1>3 DEF CommitOnDemand

\* A region waits for Redis before its row is committed; nothing is pending or
\* counted when a collection begins.
LEMMA OtherOnDemandKept ==
    ASSUME OnDemandInv, CollectOnDemand \/ CacheOnDemand \/ OnDemandCollected
    PROVE  OnDemandInv'
<1>1. ondemand' = ondemand
  BY DEF CollectOnDemand, CacheOnDemand, OnDemandCollected
<1>2. CASE CollectOnDemand \/ OnDemandCollected
  <2>1. /\ ondemandJob' \in OnDemandJobs /\ ondemandJob'.step \in {"idle", "next"}
        /\ ondemandJob'.pending = {} /\ ondemandJob'.counted = {}
    <3>1. NoOnDemandJob \in OnDemandJobs
      BY DEF NoOnDemandJob, OnDemandJobs
    <3>2. CASE CollectOnDemand
      <4>1. ondemandJob' = [step |-> "next", region |-> None, price |-> 0,
               todo |-> Regions, pending |-> {}, poisoned |-> FALSE, counted |-> {}]
        BY <3>2 DEF CollectOnDemand, NoOnDemandJob
      <4> QED BY <4>1 DEF OnDemandJobs
    <3>3. CASE OnDemandCollected
      BY <3>1, <3>3 DEF OnDemandCollected, NoOnDemandJob
    <3> QED BY <1>2, <3>2, <3>3
  <2> QED BY <1>1, <2>1 DEF OnDemandInv
<1>3. CASE CacheOnDemand
  <2>1. ondemandJob.step = "cache" /\ ondemandJob \in OnDemandJobs
    BY <1>3 DEF CacheOnDemand, OnDemandInv
  <2>2. \E step \in {"next", "commit"} : ondemandJob' = [ondemandJob EXCEPT !.step = step]
    BY <1>3 DEF CacheOnDemand
  <2>3. /\ ondemandJob' \in OnDemandJobs /\ ondemandJob'.step \in {"next", "commit"}
        /\ ondemandJob'.pending = ondemandJob.pending
        /\ ondemandJob'.counted = ondemandJob.counted
        /\ ondemandJob'.todo = ondemandJob.todo
        /\ ondemandJob'.region = ondemandJob.region
        /\ ondemandJob'.price = ondemandJob.price
    BY <2>2, <2>1 DEF OnDemandJobs
  <2> QED BY <1>1, <2>1, <2>3 DEF OnDemandInv
<1> QED BY <1>2, <1>3

-----------------------------------------------------------------------------
\* Threads of all regions, readers and the collection of on-demand prices keep
\* the invariant, whichever call fails.
THEOREM PriceInvariance == PriceSpec => []PriceInv
<1>1. PriceInv /\ [PriceNext]_priceVars => PriceInv'
  <2> SUFFICES ASSUME PriceInv, [PriceNext]_priceVars PROVE PriceInv'
    OBVIOUS
  <2>1. CASE UNCHANGED priceVars
    BY <2>1 DEF priceVars, PriceInv, SpotInv, PriceTypes, ThreadsOK, LeadersOK,
                Leads, Seen, CacheOK, RowsArePast, OnDemandInv
  <2>2. CASE Tick \/ Expire \/ \E c \in Collectors : Collect(c) \/ Collected(c)
    <3>1. UNCHANGED <<ondemand, ondemandJob>>
      BY <2>2 DEF Tick, Expire, Collect, Collected, onDemandVars
    <3> QED BY <2>2, <3>1, QuietKept, CollectionKept DEF PriceInv, OnDemandInv
  <2>3. ASSUME NEW c \in Collectors, NEW r \in Regions,
               Fetch(c, r) \/ (\E p \in PricePools : Store(c, r, p)) \/ Commit(c, r)
        PROVE  PriceInv'
    <3>1. UNCHANGED <<ondemand, ondemandJob>>
      BY <2>3 DEF Fetch, Store, Commit, onDemandVars
    <3> QED BY <2>3, <3>1, FetchKept, StoreKept, CommitKept DEF PriceInv, OnDemandInv
  <2>4. ASSUME NEW c \in Readers, Refill(c) \/ \E p \in PricePools : Miss(c, p)
        PROVE  PriceInv'
    <3>1. UNCHANGED <<ondemand, ondemandJob>>
      BY <2>4 DEF Refill, Miss, onDemandVars
    <3>2. SpotInv'
      <4>1. CASE Refill(c)
        BY <4>1, QuietKept DEF PriceInv
      <4>2. CASE \E p \in PricePools : Miss(c, p)
        BY <4>2, SpotStays DEF Miss, spotVars, PriceInv, SpotInv, PriceTypes
      <4> QED BY <2>4, <4>1, <4>2
    <3> QED BY <3>1, <3>2 DEF PriceInv, OnDemandInv
  <2>5. ASSUME NEW r \in Regions, NextRegion(r) PROVE PriceInv'
    <3>1. UNCHANGED <<now, spotVars, cache>> /\ now \in Nat /\ DOMAIN cache = PricePools
          /\ origin \in [PricePools -> Origins]
      BY <2>5 DEF NextRegion, PriceInv, SpotInv, PriceTypes
    <3>2. SpotInv'
      BY <3>1, SpotStays DEF spotVars, PriceInv
    <3> QED BY <2>5, <3>1, <3>2, NextRegionKept DEF PriceInv
  <2>6. CASE CollectOnDemand \/ CacheOnDemand \/ CommitOnDemand \/ OnDemandCollected
    <3>1. UNCHANGED <<now, spotVars, cache>>
      BY <2>6 DEF CollectOnDemand, CacheOnDemand, CommitOnDemand, OnDemandCollected
    <3>2. SpotInv'
      BY <3>1, SpotStays DEF spotVars, PriceInv, SpotInv, PriceTypes
    <3> QED BY <2>6, <3>2, CommitOnDemandKept, OtherOnDemandKept DEF PriceInv
  <2> QED BY <2>1, <2>2, <2>3, <2>4, <2>5, <2>6 DEF PriceNext
<1> QED BY <1>1, PriceInitial, PTL DEF PriceSpec

\* What the statistics count is stored: the shared session commits the rows of
\* a region that ended well, by its own thread or by another one, for any number
\* of regions; and what is counted of the on-demand prices is in their rows.
LEMMA CountedRowsAreStored == PriceInv => CountedIsStored
BY DEF PriceInv, SpotInv, ThreadsOK, OwnOK, PoolsOf, OnDemandInv, CountedIsStored

\* A cached price behind the newest row was put there by a reader or by a
\* collection that another had overtaken, or is left of before one that could not
\* cache.
LEMMA CacheIsExplained == PriceInv => CacheBehindRowIsExplained
<1> SUFFICES ASSUME PriceInv, NEW p \in PricePools, cache[p] # None, Newest(p) # None,
                    cache[p] < Newest(p), origin[p] = "newest"
             PROVE  FALSE
  <2>1. PriceInv => \A p \in PricePools :
                      origin[p] \in {"newest", "reader", "overtaken", "before"}
    BY DEF PriceInv, SpotInv, PriceTypes, Origins
  <2> QED BY <2>1 DEF CacheBehindRowIsExplained
<1> DEFINE prices == {t \in 1 .. MaxTime : <<p, t>> \in rows}
<1>1. prices \in SUBSET (1 .. MaxTime) /\ prices # {} /\ Newest(p) = Max(prices)
  BY DEF Newest
<1>2. Newest(p) \in prices
  <2> HIDE DEF prices
  <2> QED BY <1>1, NewestTime, PriceAssumption
<1>3. Newest(p) \in Nat /\ Seen(p, Newest(p))
  BY <1>2, PriceAssumption DEF Seen
<1>4. cache[p] \in Nat /\ Newest(p) <= cache[p]
  BY <1>3 DEF PriceInv, SpotInv, CacheOK
<1> QED BY <1>3, <1>4

-----------------------------------------------------------------------------
(***************************************************************************)
(* Both collectors                                                         *)
(***************************************************************************)
\* What the collections report is stored, and what is cached differs from it
\* only for a reason, for any pools, regions and readers.
THEOREM PricesAlwaysExplained == PriceSpec /\ AdvisorSpec => []PricesAreExplained
<1>1. PriceInv /\ AdvisorInv => PricesAreExplained
  BY CountedRowsAreStored, CacheIsExplained DEF AdvisorInv, PricesAreExplained
<1> QED BY <1>1, PriceInvariance, AdvisorInvariance, PTL

-----------------------------------------------------------------------------
(***************************************************************************)
(* Recommendations: what is recommended and rated never changes while a    *)
(* module answers from it, and is read off the tables.                     *)
(***************************************************************************)
\* What was answered to a question of one of the two modules
AnswersOfTables ==
    /\ question.name = "resize" =>
         \E t \in Types \cup {"other"}, cpu \in Utilizations, mem \in Utilizations :
           /\ question = [name |-> "resize", type |-> t, cpu |-> cpu, mem |-> mem]
           /\ result = <<Overprovisioned(t, cpu, mem), Recommended(t, cpu, mem)>>
    /\ question.name = "predict" =>
         \E t \in DOMAIN RiskTable \cup {"other"}, v \in {0, 1000, 5000, 10000},
            past \in Histories :
           /\ question = [name |-> "predict", type |-> t, volatility |-> v, count |-> past]
           /\ result = [fallback |-> FallbackRisk(t, v), history |-> HistoricalRisk(t, past)]

\* One call has one answer.
LEMMA TablesAnswer == ModulesSpec => []AnswersOfTables
<1>1. ModulesInit => AnswersOfTables
  BY DEF ModulesInit, AnswersOfTables
<1>2. AnswersOfTables /\ [ModulesNext]_moduleVars => AnswersOfTables'
  <2> SUFFICES ASSUME AnswersOfTables, [ModulesNext]_moduleVars PROVE AnswersOfTables'
    OBVIOUS
  <2>1. CASE UNCHANGED moduleVars
    BY <2>1 DEF moduleVars, AnswersOfTables
  <2>2. CASE Select
    <3>1. question'.name \notin {"resize", "predict"}
      BY <2>2 DEF Select
    <3> QED BY <3>1 DEF AnswersOfTables
  <2>3. CASE Resize
    <3>1. question'.name = "resize"
      BY <2>3 DEF Resize
    <3> QED BY <2>3, <3>1 DEF Resize, AnswersOfTables
  <2>4. CASE Predict
    <3>1. question'.name = "predict"
      BY <2>4 DEF Predict
    <3> QED BY <2>4, <3>1 DEF Predict, AnswersOfTables
  <2> QED BY <2>1, <2>2, <2>3, <2>4 DEF ModulesNext
<1> QED BY <1>1, <1>2, PTL DEF ModulesSpec

\* The types that can be made smaller, with both capacities, where the tables of
\* rightsizer.py and bin_packer.py say the same
LEMMA TabledCapacities ==
    ASSUME NEW t \in Tabled, t \in DOMAIN Downsize
    PROVE  /\ SizerCapacity(t) = PackerCapacity(t)
           /\ SizerCapacity(Downsize[t]) = PackerCapacity(Downsize[t])
           /\ PackerCapacity(t).cpu \in Nat /\ PackerCapacity(t).mem \in Nat
           /\ PackerCapacity(Downsize[t]).cpu \in Nat /\ PackerCapacity(Downsize[t]).mem \in Nat
<1>1. t \in {"m5.2xlarge", "m5.xlarge", "c5.xlarge", "r5.xlarge"} /\ t \in Types
  BY DEF Tabled, Downsize, Types
<1>2. Downsize[t] \in {"m5.xlarge", "m5.large", "c5.large", "r5.large"}
  BY <1>1 DEF Downsize
<1>3. Downsize[t] \in Tabled /\ Downsize[t] \in Types
  BY <1>2 DEF Tabled, Types
<1>4. ASSUME NEW x \in Types
      PROVE  PackerCapacity(x).cpu \in Nat /\ PackerCapacity(x).mem \in Nat
  <2> DEFINE cpu == [y \in Types |->
                  CASE y \in {"c5.xlarge", "m5.xlarge", "r5.xlarge"} -> 4
                    [] y \in {"c5.2xlarge", "m5.2xlarge", "r5.2xlarge"} -> 8
                    [] OTHER -> 2]
             perCpu == [y \in Types |->
                     CASE y \in {"m5.large", "m5.xlarge", "m5.2xlarge"} -> 4
                       [] y \in {"r5.large", "r5.xlarge", "r5.2xlarge"} -> 8
                       [] OTHER -> 2]
  <2>1. cpu[x] \in {2, 4, 8}
    OBVIOUS
  <2>2. perCpu[x] \in {2, 4, 8}
    OBVIOUS
  <2>3. PackerCapacity(x) = [cpu |-> cpu[x], mem |-> cpu[x] * perCpu[x]]
    BY DEF PackerCapacity
  <2> HIDE DEF cpu, perCpu
  <2>4. cpu[x] * perCpu[x] \in Nat
    BY <2>1, <2>2
  <2> QED BY <2>1, <2>3, <2>4
<1> QED BY <1>1, <1>3, <1>4 DEF SizerCapacity

\* A type that is recommended fits by the table of bin_packer.py.
LEMMA RecommendedFits == AnswersOfTables => ResizeFits
<1> SUFFICES ASSUME AnswersOfTables, question.name = "resize" PROVE ResizeFits
  BY DEF ResizeFits
<1>1. PICK t \in Types \cup {"other"}, cpu \in Utilizations, mem \in Utilizations :
        /\ question = [name |-> "resize", type |-> t, cpu |-> cpu, mem |-> mem]
        /\ result = <<Overprovisioned(t, cpu, mem), Recommended(t, cpu, mem)>>
  BY DEF AnswersOfTables
<1>2. /\ question.type = t /\ question.cpu = cpu /\ question.mem = mem
      /\ result[1] = Overprovisioned(t, cpu, mem) /\ result[2] = Recommended(t, cpu, mem)
      /\ cpu \in Nat /\ mem \in Nat
  BY <1>1, UtilizationsAssumption
<1>3. result[1] \in {None, result[2]}
  BY <1>2 DEF Overprovisioned
<1>4. ASSUME result[2] # None, t \in Tabled
      PROVE  /\ 3 * cpu * PackerCapacity(t).cpu <= 160 * PackerCapacity(result[2]).cpu
             /\ 3 * mem * PackerCapacity(t).mem <= 160 * PackerCapacity(result[2]).mem
  <2>1. /\ t \in DOMAIN Downsize /\ result[2] = Downsize[t]
        /\ Fits(SizerCapacity(t), SizerCapacity(Downsize[t]), cpu, mem)
    BY <1>2, <1>4 DEF Recommended
  <2>2. \A a, b, n \in Nat : 3 * n * a * 10 <= b * 8 * 200 => 3 * n * a <= 160 * b
    BY SMT
  <2> QED BY <1>2, <1>4, <2>1, <2>2, TabledCapacities DEF Fits
<1> QED BY <1>2, <1>3, <1>4 DEF ResizeFits

\* The history of spot_optimizer.py and the fallback of ml_model_server.py
LEMMA RatesAgree == AnswersOfTables => RatingsAgree
<1> SUFFICES ASSUME AnswersOfTables, question.name = "predict" PROVE RatingsAgree
  BY DEF RatingsAgree
<1>1. PICK t \in DOMAIN RiskTable \cup {"other"}, v \in {0, 1000, 5000, 10000},
            past \in Histories :
        /\ question = [name |-> "predict", type |-> t, volatility |-> v, count |-> past]
        /\ result = [fallback |-> FallbackRisk(t, v), history |-> HistoricalRisk(t, past)]
  BY DEF AnswersOfTables
<1>2. /\ question.type = t /\ question.volatility = v /\ question.count = past
      /\ result.fallback = FallbackRisk(t, v) /\ result.history = HistoricalRisk(t, past)
  BY <1>1
<1> DEFINE base == IF t \in DOMAIN RiskTable \ {"g4dn.xlarge"} THEN RiskTable[t] ELSE 2000
           static == IF t \in DOMAIN RiskTable THEN RiskTable[t] ELSE 2000
<1>3. /\ base \in {300, 500, 800, 1200, 1500, 1000, 1800, 2000}
      /\ static = base \/ (static = 2500 /\ base = 2000)
  BY DEF RiskTable, SpotTable
<1>4. FallbackRisk(t, v) = Smaller(base + v \div 5, 9900) /\ FallbackRisk(t, 0) = Smaller(base + 0 \div 5, 9900)
  BY DEF FallbackRisk
<1>5. v \div 5 \in {0, 200, 1000, 2000} /\ 0 \div 5 = 0
  BY SMT
<1> HIDE DEF base
<1>6. (past = None /\ v = 0) => Advice(result.history) = Advice(result.fallback)
  <2> SUFFICES ASSUME past = None, v = 0 PROVE Advice(result.history) = Advice(result.fallback)
    OBVIOUS
  <2>1. result.history = static
    BY <1>2 DEF HistoricalRisk
  <2>2. result.fallback = base
    BY <1>2, <1>3, <1>4, <1>5 DEF Smaller
  <2> HIDE DEF static
  <2> QED BY <1>3, <2>1, <2>2 DEF Advice
<1>7. Advice(FallbackRisk(t, 0)) # "SAFE" => Advice(result.fallback) # "SAFE"
  BY <1>2, <1>3, <1>4, <1>5 DEF Smaller, Advice
<1>8. (past # None /\ past >= 2) => Advice(result.history) # "SAFE"
  <2> SUFFICES ASSUME past # None, past >= 2 PROVE Advice(result.history) # "SAFE"
    OBVIOUS
  <2>1. past \in Nat
    BY HistoriesAssumption
  <2>2. result.history = Smaller(past * 1000, 10000)
    BY <1>2 DEF HistoricalRisk
  <2> QED BY <2>1, <2>2 DEF Smaller, Advice
<1> QED BY <1>2, <1>6, <1>7, <1>8 DEF RatingsAgree

\* For any utilization and any number of interruptions: what is recommended
\* holds the peak in the table of the other module, and both modules give the
\* same advice where nothing was counted.
THEOREM TablesAlwaysAgree == ModulesSpec => []TablesAgree
BY TablesAnswer, RecommendedFits, RatesAgree, PTL DEF TablesAgree

-----------------------------------------------------------------------------
(***************************************************************************)
(* Recommendations: an element of a finite set stands at the place that    *)
(* follows from how many others are before it, every place is taken, and   *)
(* so an arrangement holds every element once and in order. The ranking of *)
(* the pools is such an arrangement, by score and place.                   *)
(***************************************************************************)
\* A strict order of all of S, as a set of pairs
Orders(R, S) ==
    /\ \A x \in S : <<x, x>> \notin R
    /\ \A x, y \in S : x = y \/ <<x, y>> \in R \/ <<y, x>> \in R
    /\ \A x, y, z \in S : <<x, y>> \in R /\ <<y, z>> \in R => <<x, z>> \in R

Before(x, R, S) == {y \in S : <<y, x>> \in R}

\* One of two elements has fewer elements before it than the other.
LEMMA FewerBefore ==
    ASSUME NEW S, IsFiniteSet(S), NEW R, Orders(R, S), NEW x \in S, NEW y \in S,
           <<x, y>> \in R
    PROVE  /\ Cardinality(Before(x, R, S)) \in Nat /\ Cardinality(Before(y, R, S)) \in Nat
           /\ Cardinality(Before(x, R, S)) < Cardinality(Before(y, R, S))
<1>1. /\ Before(x, R, S) \subseteq Before(y, R, S) \ {x} /\ x \in Before(y, R, S)
      /\ Before(x, R, S) \in SUBSET S /\ Before(y, R, S) \in SUBSET S
  BY DEF Before, Orders
<1>2. /\ IsFiniteSet(Before(x, R, S)) /\ IsFiniteSet(Before(y, R, S))
      /\ IsFiniteSet(Before(y, R, S) \ {x})
  BY <1>1, FS_Subset, FS_RemoveElement
<1>3. Cardinality(Before(y, R, S) \ {x}) = Cardinality(Before(y, R, S)) - 1
  BY <1>1, <1>2, FS_RemoveElement
<1>4. Cardinality(Before(x, R, S)) <= Cardinality(Before(y, R, S) \ {x})
  BY <1>1, <1>2, FS_Subset
<1>5. Cardinality(Before(x, R, S)) \in Nat /\ Cardinality(Before(y, R, S)) \in Nat
  BY <1>2, FS_CardinalityType
<1> QED BY <1>3, <1>4, <1>5

\* Every place of the order is taken.
LEMMA EveryPlaceTaken ==
    ASSUME NEW S, IsFiniteSet(S), NEW R, Orders(R, S)
    PROVE  /\ Cardinality(S) \in Nat
           /\ \A k \in 1 .. Cardinality(S) :
                \E x \in S : Cardinality(Before(x, R, S)) = k - 1
<1>1. PICK n \in Nat : n = Cardinality(S)
  BY FS_CardinalityType
<1>2. ASSUME NEW x \in S PROVE Cardinality(Before(x, R, S)) \in 0 .. n - 1
  <2>1. Before(x, R, S) \subseteq S \ {x}
    BY DEF Before, Orders
  <2>2. IsFiniteSet(S \ {x}) /\ Cardinality(S \ {x}) = n - 1
    BY <1>1, FS_RemoveElement
  <2>3. IsFiniteSet(Before(x, R, S)) /\ Cardinality(Before(x, R, S)) <= n - 1
    BY <2>1, <2>2, FS_Subset
  <2>4. Cardinality(Before(x, R, S)) \in Nat
    BY <2>3, FS_CardinalityType
  <2> QED BY <2>3, <2>4
<1> DEFINE place == [x \in S |-> Cardinality(Before(x, R, S))]
<1>3. place \in [S -> 0 .. n - 1]
  BY <1>2
<1>4. ASSUME NEW x \in S, NEW y \in S, x # y PROVE place[x] # place[y]
  <2>1. <<x, y>> \in R \/ <<y, x>> \in R
    BY <1>4 DEF Orders
  <2>2. CASE <<x, y>> \in R
    BY <2>2, FewerBefore
  <2>3. CASE <<y, x>> \in R
    BY <2>3, FewerBefore
  <2> QED BY <2>1, <2>2, <2>3
<1>5. place \in Injection(S, 0 .. n - 1)
  BY <1>3, <1>4 DEF Injection, IsInjective
<1>6. IsFiniteSet(0 .. n - 1) /\ Cardinality(0 .. n - 1) = n
  BY FS_Interval
<1>7. place \in Surjection(S, 0 .. n - 1)
  <2> HIDE DEF place
  <2> QED BY <1>1, <1>5, <1>6, FS_Injection
<1>8. ASSUME NEW k \in 1 .. n PROVE \E x \in S : Cardinality(Before(x, R, S)) = k - 1
  <2>1. k - 1 \in 0 .. n - 1
    OBVIOUS
  <2>2. PICK x \in S : place[x] = k - 1
    BY <1>7, <2>1 DEF Surjection
  <2> QED BY <2>2
<1> QED BY <1>1, <1>8

\* Each element of a sequence stands at its place.
StandInPlace(s, n, R, S) ==
    /\ s \in [1 .. n -> S]
    /\ \A k \in 1 .. n : Cardinality(Before(s[k], R, S)) = k - 1

\* Where each element stands at its place, all of them stand in order.
LEMMA PlacesInOrder ==
    ASSUME NEW S, IsFiniteSet(S), NEW R, Orders(R, S), NEW n \in Nat, n = Cardinality(S),
           NEW s, StandInPlace(s, n, R, S)
    PROVE  /\ \A x \in S : \E k \in 1 .. n : s[k] = x
           /\ \A i, j \in 1 .. n : i < j => <<s[i], s[j]>> \in R
           /\ \A i, j \in 1 .. n : i # j => s[i] # s[j]
<1> s \in [1 .. n -> S] /\ \A k \in 1 .. n : Cardinality(Before(s[k], R, S)) = k - 1
  BY DEF StandInPlace
<1>1. \A i, j \in 1 .. n : i # j => s[i] # s[j]
  <2> SUFFICES ASSUME NEW i \in 1 .. n, NEW j \in 1 .. n, s[i] = s[j] PROVE i = j
    OBVIOUS
  <2>1. i - 1 = j - 1
    OBVIOUS
  <2> QED BY <2>1
<1>2. ASSUME NEW i \in 1 .. n, NEW j \in 1 .. n, i < j PROVE <<s[i], s[j]>> \in R
  <2>1. s[i] # s[j] /\ s[i] \in S /\ s[j] \in S
    BY <1>1, <1>2
  <2>2. CASE <<s[j], s[i]>> \in R
    <3>1. Cardinality(Before(s[j], R, S)) < Cardinality(Before(s[i], R, S))
      BY <2>1, <2>2, FewerBefore
    <3>2. j - 1 < i - 1
      BY <3>1
    <3> QED BY <1>2, <3>2
  <2> QED BY <2>1, <2>2 DEF Orders
<1>3. s \in Injection(1 .. n, S)
  BY <1>1 DEF Injection, IsInjective
<1>4. IsFiniteSet(1 .. n) /\ Cardinality(1 .. n) = n
  BY FS_Interval
<1>5. s \in Surjection(1 .. n, S)
  BY <1>3, <1>4, FS_Injection
<1>6. \A x \in S : \E k \in 1 .. n : s[k] = x
  BY <1>5 DEF Surjection
<1> QED BY <1>1, <1>2, <1>6

\* Numbers in ascending order
LEMMA NumbersArranged ==
    ASSUME NEW S \in SUBSET Int, IsFiniteSet(S)
    PROVE  /\ Cardinality(S) \in Nat /\ Increasing(S) \in [1 .. Cardinality(S) -> S]
           /\ \A x \in S : \E k \in 1 .. Cardinality(S) : Increasing(S)[k] = x
           /\ \A i, j \in 1 .. Cardinality(S) : i # j => Increasing(S)[i] # Increasing(S)[j]
<1> DEFINE R == {p \in S \X S : p[1] < p[2]}
<1>1. Orders(R, S)
  <2>1. \A x, y \in S : <<x, y>> \in R <=> x < y
    OBVIOUS
  <2> HIDE DEF R
  <2> QED BY <2>1 DEF Orders
<1>2. \A x \in S : Before(x, R, S) = {y \in S : y < x}
  BY DEF Before
<1> HIDE DEF R
<1>3. PICK n \in Nat : n = Cardinality(S)
  BY FS_CardinalityType
<1>4. ASSUME NEW k \in 1 .. n
      PROVE  Increasing(S)[k] \in S /\ Cardinality({y \in S : y < Increasing(S)[k]}) = k - 1
  <2>1. \E x \in S : Cardinality(Before(x, R, S)) = k - 1
    BY <1>1, <1>3, EveryPlaceTaken
  <2>2. \E x \in S : Cardinality({y \in S : y < x}) = k - 1
    BY <1>2, <2>1
  <2>3. Increasing(S)[k] = CHOOSE x \in S : Cardinality({y \in S : y < x}) = k - 1
    BY <1>3 DEF Increasing, Arranged
  <2> QED BY <2>2, <2>3
<1>5. Increasing(S) \in [1 .. n -> S]
  BY <1>3, <1>4 DEF Increasing, Arranged
<1>6. StandInPlace(Increasing(S), n, R, S)
  BY <1>2, <1>4, <1>5 DEF StandInPlace
<1>7. /\ \A x \in S : \E k \in 1 .. n : Increasing(S)[k] = x
      /\ \A i, j \in 1 .. n : i # j => Increasing(S)[i] # Increasing(S)[j]
  BY <1>1, <1>3, <1>6, PlacesInOrder
<1> QED BY <1>3, <1>5, <1>7

\* The smaller key first, and of equal keys the smaller number
ByKey(key, S) ==
    {p \in S \X S : key[p[1]] < key[p[2]] \/ (key[p[1]] = key[p[2]] /\ p[1] < p[2])}

LEMMA KeysOrder ==
    ASSUME NEW S \in SUBSET Int, NEW key \in [S -> Int]
    PROVE  /\ Orders(ByKey(key, S), S)
           /\ \A x, y \in S : <<x, y>> \in ByKey(key, S) <=>
                key[x] < key[y] \/ (key[x] = key[y] /\ x < y)
<1>1. \A x, y \in S : <<x, y>> \in ByKey(key, S) <=>
                key[x] < key[y] \/ (key[x] = key[y] /\ x < y)
  BY DEF ByKey
<1> QED BY <1>1 DEF Orders

-----------------------------------------------------------------------------
\* spot_optimizer.py
LEMMA PricesAreNumbers == \A type : FallbackPrice(type) \in Nat
BY DEF FallbackPrice, SpotTable

\* The dearer and riskier one of two pools has the higher score, though prices
\* are cut at one dollar.
LEMMA WorseScoresMore ==
    ASSUME NEW p \in Nat, NEW q \in Nat, NEW r \in Nat, NEW s \in Nat, p < q, r < s
    PROVE  Score(p, r) < Score(q, s)
<1> DEFINE a == Smaller(p, 10000)
           b == Smaller(q, 10000)
<1>1. a \in Nat /\ b \in Nat /\ a <= b
  BY DEF Smaller
<1>2. Score(p, r) = a * 6 + r * 4 /\ Score(q, s) = b * 6 + s * 4
  BY DEF Score
<1> HIDE DEF a, b
<1> QED BY <1>1, <1>2

LEMMA CandidateFacts ==
    ASSUME NEW pool, NEW cached \in Cached, NEW past \in Histories
    PROVE  /\ Candidate(pool, cached, past).pool = pool
           /\ Candidate(pool, cached, past).lifecycle = "SPOT"
           /\ Candidate(pool, cached, past).price \in Nat
           /\ Candidate(pool, cached, past).risk \in Nat
           /\ Candidate(pool, cached, past).score =
                Score(Candidate(pool, cached, past).price, Candidate(pool, cached,
                past).risk)
           /\ Candidate(pool, cached, past).score \in Int
<1> DEFINE price == IF cached = None THEN FallbackPrice(pool.type) ELSE cached
           chance == HistoricalRisk(pool.type, past)
<1>1. Candidate(pool, cached, past) =
        [pool |-> pool, lifecycle |-> "SPOT", price |-> price, risk |-> chance,
         score |-> Score(price, chance), advice |-> Advice(chance)]
  BY DEF Candidate
<1>2. price \in Nat
  BY CachedAssumption, PricesAreNumbers
<1>3. chance \in Nat
  BY HistoriesAssumption DEF HistoricalRisk, Smaller, RiskTable, SpotTable
<1> HIDE DEF price, chance
<1>4. Score(price, chance) \in Int
  BY <1>2, <1>3 DEF Score, Smaller
<1> QED BY <1>1, <1>2, <1>3, <1>4

LEMMA RankingFacts ==
    ASSUME NEW n \in Nat, NEW list, DOMAIN list = 1 .. n,
           \A k \in 1 .. n : list[k].score \in Int
    PROVE  /\ Ranking(list) \in [1 .. n -> 1 .. n]
           /\ \A x \in 1 .. n : \E k \in 1 .. n : Ranking(list)[k] = x
           /\ \A i, j \in 1 .. n : i < j =>
                list[Ranking(list)[i]].score <= list[Ranking(list)[j]].score
<1> DEFINE U == 1 .. n
           all == Ranking(list)
           key == [i \in U |-> list[i].score]
           before(i, j) == \/ Better(list[i], list[j])
                           \/ ~Better(list[j], list[i]) /\ i < j
<1>1. U \in SUBSET Int /\ IsFiniteSet(U) /\ Cardinality(U) = n
  BY FS_Interval
<1>2. all = [k \in 1 .. n |->
               CHOOSE x \in U : Cardinality({y \in U : before(y, x)}) = k - 1]
  BY <1>1 DEF Ranking, Arranged
<1>3. key \in [U -> Int] /\ \A i \in U : key[i] = list[i].score
  OBVIOUS
<1>4. \A x, y \in U : before(x, y) <=> key[x] < key[y] \/ (key[x] = key[y] /\ x < y)
  BY <1>3 DEF Better
<1> HIDE DEF U, all, key, before
<1> DEFINE R == ByKey(key, U)
<1>5. /\ Orders(R, U)
      /\ \A x, y \in U : <<x, y>> \in R <=> key[x] < key[y] \/ (key[x] = key[y] /\ x < y)
  BY <1>1, <1>3, KeysOrder
<1> HIDE DEF R
<1>6. \A x \in U : Before(x, R, U) = {y \in U : before(y, x)}
  BY <1>4, <1>5 DEF Before
<1>7. ASSUME NEW k \in 1 .. n
      PROVE  all[k] \in U /\ Cardinality({y \in U : before(y, all[k])}) = k - 1
  <2>1. \E x \in U : Cardinality(Before(x, R, U)) = k - 1
    BY <1>1, <1>5, EveryPlaceTaken
  <2>2. \E x \in U : Cardinality({y \in U : before(y, x)}) = k - 1
    BY <1>6, <2>1
  <2>3. all[k] = CHOOSE x \in U : Cardinality({y \in U : before(y, x)}) = k - 1
    BY <1>2
  <2> QED BY <2>2, <2>3
<1>8. all \in [1 .. n -> U]
  BY <1>2, <1>7
<1>9. StandInPlace(all, n, R, U)
  BY <1>6, <1>7, <1>8 DEF StandInPlace
<1>10. /\ \A x \in U : \E k \in 1 .. n : all[k] = x
       /\ \A i, j \in 1 .. n : i < j => <<all[i], all[j]>> \in R
  BY <1>1, <1>5, <1>9, PlacesInOrder
<1>11. \A i, j \in 1 .. n : i < j => list[all[i]].score <= list[all[j]].score
  <2> SUFFICES ASSUME NEW i \in 1 .. n, NEW j \in 1 .. n, i < j
               PROVE  list[all[i]].score <= list[all[j]].score
    OBVIOUS
  <2>1. all[i] \in U /\ all[j] \in U
    BY <1>8
  <2>2. key[all[i]] \in Int /\ key[all[j]] \in Int /\ key[all[i]] <= key[all[j]]
    <3>1. key[all[i]] \in Int /\ key[all[j]] \in Int
      BY <1>3, <2>1
    <3>2. <<all[i], all[j]>> \in R
      BY <1>10
    <3>3. key[all[i]] < key[all[j]] \/ key[all[i]] = key[all[j]]
      BY <1>5, <2>1, <3>2
    <3> QED BY <3>1, <3>3
  <2> QED BY <1>3, <2>1, <2>2
<1> QED BY <1>8, <1>10, <1>11 DEF U, all

\* What SelectionIsRanked says of a list, its spot entries and the free pools
RankedOver(best, spot, free) ==
    /\ {best[i].pool : i \in spot} = {PoolList[i] : i \in free}
    /\ Cardinality(spot) = Cardinality(free)
    /\ \A i, j \in spot : i < j =>
         ~(best[j].price < best[i].price /\ best[j].risk < best[i].risk)
    /\ spot # {} =>
         /\ spot = 1 .. Len(best) - 1
         /\ best[Len(best)].pool.type = best[1].pool.type

\* select_best_instance() from the flags, prices and counts of the pools
LEMMA SelectedAreRanked ==
    ASSUME NEW flagged \in SUBSET (DOMAIN PoolList), NEW cached \in [DOMAIN PoolList -> Cached],
           NEW counts \in [DOMAIN PoolList -> Histories],
           NEW best, best = SelectBest(flagged, cached, counts),
           NEW spot, spot = {i \in DOMAIN best : best[i].lifecycle = "SPOT"}
    PROVE  RankedOver(best, spot, DOMAIN PoolList \ flagged)
<1> DEFINE F == DOMAIN PoolList \ flagged
           free == Increasing(F)
           cand(k) == Candidate(PoolList[free[k]], cached[free[k]], counts[free[k]])
           list == [k \in DOMAIN free |-> cand(k)]
           ranked == Ranked(list)
<1>1. F \in SUBSET Int /\ IsFiniteSet(F)
  <2>1. DOMAIN PoolList = 1 .. Len(PoolList) /\ Len(PoolList) \in Nat
    BY PoolListAssumption
  <2>2. IsFiniteSet(DOMAIN PoolList) /\ DOMAIN PoolList \in SUBSET Int
    BY <2>1, FS_Interval
  <2> QED BY <2>2, FS_Subset
<1>2. best = IF ranked = <<>> THEN <<>> ELSE Append(ranked, OnDemand(ranked[1]))
  BY DEF SelectBest
<1>3. \A i \in F : cached[i] \in Cached /\ counts[i] \in Histories
  OBVIOUS
<1> HIDE DEF F, free
<1>4. PICK n \in Nat : n = Cardinality(F)
  BY <1>1, NumbersArranged
<1>5. /\ free \in [1 .. n -> F]
      /\ \A x \in F : \E k \in 1 .. n : free[k] = x
  BY <1>1, <1>4, NumbersArranged DEF free
<1>6. DOMAIN list = 1 .. n /\ \A k \in 1 .. n : list[k] = cand(k)
  BY <1>5
<1>7. ASSUME NEW k \in 1 .. n
      PROVE  /\ list[k].pool = PoolList[free[k]] /\ list[k].lifecycle = "SPOT"
             /\ list[k].price \in Nat /\ list[k].score \in Int
             /\ list[k].risk \in Nat
             /\ list[k].score = Score(list[k].price, list[k].risk)
  <2>1. free[k] \in F
    BY <1>5
  <2>2. cached[free[k]] \in Cached /\ counts[free[k]] \in Histories
    BY <1>3, <2>1
  <2>3. list[k] = Candidate(PoolList[free[k]], cached[free[k]], counts[free[k]])
    BY <1>6
  <2> QED BY <2>2, <2>3, CandidateFacts
<1> HIDE DEF list, cand
<1>8. /\ Ranking(list) \in [1 .. n -> 1 .. n]
      /\ \A x \in 1 .. n : \E k \in 1 .. n : Ranking(list)[k] = x
      /\ \A i, j \in 1 .. n : i < j =>
                list[Ranking(list)[i]].score <= list[Ranking(list)[j]].score
  BY <1>6, <1>7, RankingFacts
<1> DEFINE at == Ranking(list)
<1>9. ranked = [k \in 1 .. n |-> list[at[k]]]
  BY <1>6 DEF Ranked
<1> HIDE DEF at, ranked
<1>10. \A k \in 1 .. n : at[k] \in 1 .. n
  BY <1>8 DEF at
<1>11. {PoolList[i] : i \in F} = {ranked[k].pool : k \in 1 .. n}
  <2>1. ASSUME NEW i \in F PROVE \E k \in 1 .. n : ranked[k].pool = PoolList[i]
    <3>1. PICK j \in 1 .. n : free[j] = i
      BY <1>5
    <3>2. PICK k \in 1 .. n : at[k] = j
      BY <1>8 DEF at
    <3> QED BY <1>7, <1>9, <3>1, <3>2
  <2>2. ASSUME NEW k \in 1 .. n PROVE \E i \in F : ranked[k].pool = PoolList[i]
    <3>1. ranked[k].pool = PoolList[free[at[k]]] /\ free[at[k]] \in F
      BY <1>5, <1>7, <1>9, <1>10
    <3> QED BY <3>1
  <2> QED BY <2>1, <2>2
<1>12. ASSUME NEW i \in 1 .. n, NEW j \in 1 .. n, i < j
       PROVE  ~(ranked[j].price < ranked[i].price /\ ranked[j].risk < ranked[i].risk)
  <2> SUFFICES ASSUME ranked[j].price < ranked[i].price, ranked[j].risk < ranked[i].risk
               PROVE  FALSE
    OBVIOUS
  <2>1. ranked[i] = list[at[i]] /\ ranked[j] = list[at[j]]
    BY <1>9
  <2>2. /\ ranked[i].price \in Nat /\ ranked[j].price \in Nat
        /\ ranked[i].score \in Int /\ ranked[j].score \in Int
        /\ ranked[i].score = Score(ranked[i].price, ranked[i].risk)
        /\ ranked[j].score = Score(ranked[j].price, ranked[j].risk)
    BY <1>7, <1>10, <2>1
  <2> at[i] \in 1 .. n /\ at[j] \in 1 .. n
    BY <1>10
  <2>3. ranked[i].risk \in Nat /\ ranked[j].risk \in Nat
    BY <1>7, <1>10, <2>1
  <2>6. ranked[j].score < ranked[i].score
    <3>1. Score(ranked[j].price, ranked[j].risk) < Score(ranked[i].price,
    ranked[i].risk)
      BY <2>2, <2>3, WorseScoresMore
    <3> QED BY <2>2, <3>1
  <2>7. ranked[i].score <= ranked[j].score
    BY <1>8, <1>12, <2>1 DEF at
  <2> QED BY <2>2, <2>6, <2>7
<1>13. \A k \in 1 .. n : ranked[k].lifecycle = "SPOT"
  BY <1>7, <1>9, <1>10
<1>14. IsFiniteSet(1 .. n) /\ Cardinality(1 .. n) = n
  BY FS_Interval
<1>15. CASE F = {}
  <2>1. n = 0
    BY <1>4, <1>15, FS_EmptySet
  <2>2. ranked = <<>>
    BY <1>9, <2>1
  <2>3. best = <<>> /\ spot = {}
    BY <1>2, <2>2
  <2>4. {best[i].pool : i \in spot} = {PoolList[i] : i \in F}
    BY <1>15, <2>3
  <2>5. Cardinality(spot) = Cardinality(F)
    BY <1>15, <2>3
  <2> QED BY <1>15, <2>3, <2>4, <2>5 DEF F, RankedOver
<1>16. CASE F # {}
  <2>1. n # 0
    BY <1>5, <1>16
  <2>2. Len(ranked) = n /\ ranked # <<>>
    BY <1>9, <2>1
  <2> DEFINE last == OnDemand(ranked[1])
  <2>3. last.lifecycle = "ON_DEMAND" /\ last.pool.type = ranked[1].pool.type
    BY DEF OnDemand
  <2> HIDE DEF last
  <2>4. best = Append(ranked, last)
    BY <1>2, <2>2 DEF last
  <2>5. ranked \in Seq({ranked[k] : k \in 1 .. n})
    BY <1>9, <2>2
  <2>6. /\ Len(best) = n + 1 /\ DOMAIN best = 1 .. n + 1 /\ best[n + 1] = last
        /\ \A k \in 1 .. n : best[k] = ranked[k]
    BY <2>2, <2>4, <2>5
  <2>7. spot = 1 .. n
    <3>1. "ON_DEMAND" # "SPOT"
      OBVIOUS
    <3>2. \A k \in 1 .. n + 1 : k \in 1 .. n \/ k = n + 1
      OBVIOUS
    <3>3. \A k \in 1 .. n : k \in 1 .. n + 1
      OBVIOUS
    <3> QED BY <1>13, <2>3, <2>6, <3>1, <3>2, <3>3
  <2>8. {best[i].pool : i \in spot} = {PoolList[i] : i \in F}
    BY <1>11, <2>6, <2>7
  <2>9. Cardinality(spot) = Cardinality(F)
    BY <1>4, <1>14, <2>7
  <2>10. \A i, j \in spot : i < j =>
                ~(best[j].price < best[i].price /\ best[j].risk < best[i].risk)
    BY <1>12, <2>6, <2>7
  <2>11. spot = 1 .. Len(best) - 1
    BY <2>6, <2>7
  <2>12. best[Len(best)].pool.type = best[1].pool.type
    BY <2>1, <2>3, <2>6
  <2> QED BY <1>16, <2>8, <2>9, <2>10, <2>11, <2>12 DEF F, RankedOver
<1> QED BY <1>15, <1>16

\* What was answered to a question about the pools
AnswersOfChoices ==
    question.name = "select" =>
      \E flagged \in SUBSET (DOMAIN PoolList), cached \in [DOMAIN PoolList -> Cached],
         counts \in [DOMAIN PoolList -> Histories] :
        /\ question = [name |-> "select", flagged |-> flagged, cached |-> cached,
                       counts |-> counts]
        /\ result = SelectBest(flagged, cached, counts)

LEMMA ChoicesAnswer == ModulesSpec => []AnswersOfChoices
<1>1. ModulesInit => AnswersOfChoices
  BY DEF ModulesInit, AnswersOfChoices
<1>2. AnswersOfChoices /\ [ModulesNext]_moduleVars => AnswersOfChoices'
  <2> SUFFICES ASSUME AnswersOfChoices, [ModulesNext]_moduleVars PROVE AnswersOfChoices'
    OBVIOUS
  <2>1. CASE UNCHANGED moduleVars
    BY <2>1 DEF moduleVars, AnswersOfChoices
  <2>2. CASE Resize \/ Predict
    <3>1. question'.name # "select"
      BY <2>2 DEF Resize, Predict
    <3> QED BY <3>1 DEF AnswersOfChoices
  <2>3. CASE Select
    <3>1. question'.name = "select"
      BY <2>3 DEF Select
    <3> QED BY <2>3, <3>1 DEF Select, AnswersOfChoices
  <2> QED BY <2>1, <2>2, <2>3 DEF ModulesNext
<1> QED BY <1>1, <1>2, PTL DEF ModulesSpec

LEMMA ChoicesAreRanked == AnswersOfChoices => SelectionIsRanked
<1> SUFFICES ASSUME AnswersOfChoices, question.name = "select" PROVE SelectionIsRanked
  BY DEF SelectionIsRanked
<1>1. PICK flagged \in SUBSET (DOMAIN PoolList), cached \in [DOMAIN PoolList -> Cached],
           counts \in [DOMAIN PoolList -> Histories] :
        /\ question = [name |-> "select", flagged |-> flagged, cached |-> cached,
                       counts |-> counts]
        /\ result = SelectBest(flagged, cached, counts)
  BY DEF AnswersOfChoices
<1>2. question.flagged = flagged
  BY <1>1
<1>3. PICK spot : spot = {i \in DOMAIN result : result[i].lifecycle = "SPOT"}
  OBVIOUS
<1>4. RankedOver(result, spot, DOMAIN PoolList \ flagged)
  BY <1>1, <1>3, SelectedAreRanked
<1> QED BY <1>2, <1>3, <1>4 DEF SelectionIsRanked, RankedOver

\* For any pools, prices and histories: the selection of
\* select_best_instance() has every free pool once, none after a dearer and
\* riskier one, and where there is one the on-demand entry of the best at its end.
THEOREM SelectionsAreRanked == ModulesSpec => []SelectionIsRanked
BY ChoicesAnswer, ChoicesAreRanked, PTL

-----------------------------------------------------------------------------
(***************************************************************************)
(* The parts side by side, as MCWorkers composes them                      *)
(***************************************************************************)
\* MCWorkers moves one part and leaves the others at rest: each of them behaves
\* as its own specification says.
LEMMA WorkerParts ==
    WorkersSpec =>
      /\ EventSpec /\ RiskSpec /\ PriceSpec /\ AdvisorSpec
      /\ ModulesSpec /\ Spec
<1>1. WorkersInit =>
        /\ EventInit /\ RiskInit /\ PriceInit /\ AdvisorInit
        /\ ModulesInit /\ Init
  BY DEF WorkersInit
<1>2. [WorkersNext]_<<workersVars, vars, part>> => [EventNext]_eventVars
  BY DEF WorkersNext, workersVars
<1>3. [WorkersNext]_<<workersVars, vars, part>> => [RiskNext]_riskVars
  BY DEF WorkersNext, workersVars
<1>4. [WorkersNext]_<<workersVars, vars, part>> => [PriceNext]_priceVars
  BY DEF WorkersNext, workersVars
<1>5. [WorkersNext]_<<workersVars, vars, part>> => [AdvisorNext]_advisorVars
  BY DEF WorkersNext, workersVars
<1>6. [WorkersNext]_<<workersVars, vars, part>> => [ModulesNext]_moduleVars
  BY DEF WorkersNext, workersVars
<1>7. [WorkersNext]_<<workersVars, vars, part>> => [Next]_vars
  BY DEF WorkersNext, workersVars
<1> QED BY <1>1, <1>2, <1>3, <1>4, <1>5, <1>6, <1>7, PTL
     DEF WorkersSpec, EventSpec, RiskSpec, PriceSpec, AdvisorSpec, ModulesSpec, Spec

\* Workers, prices, modules and scripts side by side: all the invariants of the
\* run, for every value of the constants.
THEOREM WorkersAreCorrect ==
    WorkersSpec =>
      /\ []EventsAreHandled /\ []RisksAreKnown /\ []PricesAreExplained /\ []TablesAgree
      /\ []SelectionIsRanked
      /\ []PreservedSurvive /\ []LaunchIsSound /\ []ReportIsTrue
BY WorkerParts, EventsHandledOncePerWorker, FlaggedRisksAreKnown,
   PricesAlwaysExplained, TablesAlwaysAgree, SelectionsAreRanked,
   VolumesSurvive, LaunchesAreSound, ReportsAreTrue, PTL
=============================================================================
