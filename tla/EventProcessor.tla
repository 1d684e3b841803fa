---------------------------- MODULE EventProcessor ----------------------------
(***************************************************************************)
(* backend/workers/tasks/event_processor.py: the Celery task process_event *)
(* in several workers.  AWS delivers an event at least once and in any     *)
(* order; a key in Redis that lives for an hour tells a second delivery    *)
(* from the first.  The key is tested and written in two calls, and it is  *)
(* written before the event is handled.  An event is its content, which is *)
(* what generate_event_id() hashes: two deliveries with the same content   *)
(* have the same key.                                                      *)
(*                                                                         *)
(* Each call of Redis is a step.  A call that fails raises and ends the    *)
(* task, and so does the death of the worker; Celery tries neither again.  *)
(* ActionLog and ClusterEvent are not defined in the source: the handler   *)
(* of an interruption and log_event() swallow the NameError.               *)
(***************************************************************************)
EXTENDS Naturals, Sequences, FiniteSets, NoneValue

CONSTANTS
    Workers,
    Events,         \* records [kind, instance, state]
    Instances,
    Keep,           \* length of the activity list that is kept, 100
    MaxDeliveries,  \* bound on the deliveries of all events
    MaxExpiries     \* bound on the expiries of keys

ASSUME EventAssumption == IsFiniteSet(Workers) /\ Keep \in Nat

VARIABLES
    deliveries,  \* the number of deliveries so far
    taken,       \* what each worker does
    processed,   \* the keys event:{id}
    states,      \* the keys instance_state:{id}
    activity,    \* the list asg_activity:{name}, newest first
    alerts,      \* instances whose termination was called unexpected
    expiries,
    \* history: handlings that began since the key last expired, how the
    \* handlings of an event ended, events one delivery of which was skipped,
    \* everything ever pushed, and pushes since the last trim
    handlings, ends, skipped, pushed, untrimmed

eventVars == <<deliveries, taken, processed, states, activity, alerts, expiries,
               handlings, ends, skipped, pushed, untrimmed>>

NoJob == [step |-> "idle", event |-> None]

At(w, step) == taken[w].step = step

MoveTo(w, step) == taken' = [taken EXCEPT ![w].step = step]

EventInit ==
    /\ deliveries = 0
    /\ taken = [w \in Workers |-> NoJob]
    /\ processed = {}
    /\ states = [i \in Instances |-> None]
    /\ activity = <<>>
    /\ alerts = {}
    /\ expiries = 0
    /\ handlings = [e \in Events |-> 0]
    /\ ends = [e \in Events |-> {}]
    /\ skipped = {}
    /\ pushed = <<>>
    /\ untrimmed = 0

-----------------------------------------------------------------------------
\* A worker takes a delivery, the first of the event or another one.
Deliver(w, e) ==
    /\ At(w, "idle") /\ deliveries < MaxDeliveries
    /\ deliveries' = deliveries + 1
    /\ taken' = [taken EXCEPT ![w] = [step |-> "test", event |-> e]]
    /\ UNCHANGED <<processed, states, activity, alerts, expiries, handlings,
                   ends, skipped, pushed, untrimmed>>

\* is_duplicate_event()
Test(w) ==
    /\ At(w, "test")
    /\ IF taken[w].event \in processed
         THEN /\ taken' = [taken EXCEPT ![w] = NoJob]
              /\ skipped' = skipped \cup {taken[w].event}
         ELSE MoveTo(w, "mark") /\ UNCHANGED skipped
    /\ UNCHANGED <<deliveries, processed, states, activity, alerts, expiries,
                   handlings, ends, pushed, untrimmed>>

\* Mutant: the key is never written.
MarkMutant(w) ==
    /\ At(w, "mark")
    /\ MoveTo(w, "route")
    /\ handlings' = [handlings EXCEPT ![taken[w].event] = @ + 1]
    /\ UNCHANGED <<deliveries, processed, states, activity, alerts, expiries, ends,
                   skipped, pushed, untrimmed>>

Mark(w) ==
    /\ At(w, "mark")
    /\ processed' = processed \cup {taken[w].event}
    /\ MoveTo(w, "route")
    /\ handlings' = [handlings EXCEPT ![taken[w].event] = @ + 1]
    /\ UNCHANGED <<deliveries, states, activity, alerts, expiries, ends,
                   skipped, pushed, untrimmed>>

-----------------------------------------------------------------------------
\* get_risk_tracker() takes one argument and is called with two: the handler
\* of an interruption flags no pool, sends nothing and returns an error.
Interruption(w) ==
    /\ At(w, "route") /\ taken[w].event.kind = "interruption"
    /\ MoveTo(w, "log")
    /\ UNCHANGED <<deliveries, processed, states, activity, alerts, expiries,
                   handlings, ends, skipped, pushed, untrimmed>>

\* handle_eks_event() changes nothing, and no other kind has a handler.
OtherEvent(w) ==
    /\ At(w, "route") /\ taken[w].event.kind \in {"eks", "unknown"}
    /\ MoveTo(w, "log")
    /\ UNCHANGED <<deliveries, processed, states, activity, alerts, expiries,
                   handlings, ends, skipped, pushed, untrimmed>>

\* handle_instance_state_change(): whatever state arrives last is cached.
StateChange(w) ==
    LET e == taken[w].event
    IN /\ At(w, "route") /\ e.kind = "state"
       /\ states' = [states EXCEPT ![e.instance] = e.state]
       /\ MoveTo(w, IF e.state = "terminated" THEN "alert" ELSE "log")
       /\ UNCHANGED <<deliveries, processed, activity, alerts, expiries,
                      handlings, ends, skipped, pushed, untrimmed>>

\* Nothing writes spot_interruption:{id}: every termination is unexpected.
Alert(w) ==
    /\ At(w, "alert")
    /\ alerts' = alerts \cup {taken[w].event.instance}
    /\ MoveTo(w, "log")
    /\ UNCHANGED <<deliveries, processed, states, activity, expiries,
                   handlings, ends, skipped, pushed, untrimmed>>

\* handle_autoscaling_event() pushes and trims in two calls.
Push(w) ==
    /\ At(w, "route") /\ taken[w].event.kind = "scaling"
    /\ activity' = <<taken[w].event>> \o activity
    /\ pushed' = <<taken[w].event>> \o pushed
    /\ untrimmed' = untrimmed + 1
    /\ MoveTo(w, "trim")
    /\ UNCHANGED <<deliveries, processed, states, alerts, expiries, handlings,
                   ends, skipped>>

\* ltrim 0 .. Keep - 1
Trimmed(list) ==
    IF Len(list) <= Keep THEN list ELSE SubSeq(list, 1, Keep)

Trim(w) ==
    /\ At(w, "trim")
    /\ activity' = Trimmed(activity)
    /\ untrimmed' = 0
    /\ MoveTo(w, "log")
    /\ UNCHANGED <<deliveries, processed, states, alerts, expiries, handlings,
                   ends, skipped, pushed>>

\* log_event() and the end of the task
Finish(w) ==
    /\ At(w, "log")
    /\ taken' = [taken EXCEPT ![w] = NoJob]
    /\ ends' = [ends EXCEPT ![taken[w].event] = @ \cup {"handled"}]
    /\ UNCHANGED <<deliveries, processed, states, activity, alerts, expiries,
                   handlings, skipped, pushed, untrimmed>>

\* A call of Redis raises, or the worker dies.
Break(w) ==
    /\ taken[w].step \in {"test", "mark", "route", "alert", "trim"}
    /\ taken' = [taken EXCEPT ![w] = NoJob]
    /\ ends' = [ends EXCEPT ![taken[w].event] =
                  IF taken[w].step \in {"test", "mark"} THEN @ ELSE @ \cup {"broken"}]
    /\ UNCHANGED <<deliveries, processed, states, activity, alerts, expiries,
                   handlings, skipped, pushed, untrimmed>>

\* The key of an event lives for an hour, the state of an instance for a day.
ExpireKey(e) ==
    /\ e \in processed /\ expiries < MaxExpiries
    /\ processed' = processed \ {e}
    /\ expiries' = expiries + 1
    /\ handlings' = [handlings EXCEPT ![e] = 0]
    /\ UNCHANGED <<deliveries, taken, states, activity, alerts, ends, skipped,
                   pushed, untrimmed>>

ExpireState(i) ==
    /\ states[i] # None /\ expiries < MaxExpiries
    /\ states' = [states EXCEPT ![i] = None]
    /\ expiries' = expiries + 1
    /\ UNCHANGED <<deliveries, taken, processed, activity, alerts, handlings, ends,
                   skipped, pushed, untrimmed>>

EventNext ==
    \/ \E w \in Workers :
         \/ \E e \in Events : Deliver(w, e)
         \/ Test(w) \/ Mark(w) \/ Interruption(w) \/ OtherEvent(w) \/ StateChange(w) \/ Alert(w)
         \/ Push(w) \/ Trim(w) \/ Finish(w) \/ Break(w)
    \/ \E e \in Events : ExpireKey(e)
    \/ \E i \in Instances : ExpireState(i)

EventSpec == EventInit /\ [][EventNext]_eventVars

-----------------------------------------------------------------------------
\* The test and the write of the key are two calls, so that an event may be
\* handled more than once while its key stands, but never more often than
\* there are workers: each handling in excess is one whose test came before
\* the first write.
HandledPerWorker == \A e \in Events : handlings[e] <= Cardinality(Workers)

\* A delivery is skipped only when another delivery of the event has been
\* handled, is being handled, or broke after the key was written: an event is
\* never lost unless a handler broke.
SkippedWasTaken ==
    \A e \in skipped :
      \/ ends[e] # {}
      \/ \E w \in Workers : taken[w].event = e /\ taken[w].step \notin {"test", "mark"}

\* The list of activities holds the newest ones in the order of their pushes,
\* and exceeds its length only by the pushes not followed by a trim.
LogKeepsNewest ==
    /\ Len(activity) <= Keep + untrimmed
    /\ activity = SubSeq(pushed, 1, Len(activity))
    /\ Len(activity) >= IF Len(pushed) < Keep THEN Len(pushed) ELSE Keep

\* The three together: an event is handled at most once by each worker while
\* its key stands, a delivery is skipped only when another one was taken, and
\* the activity list keeps the newest entries in their order.
EventsAreHandled == HandledPerWorker /\ SkippedWasTaken /\ LogKeepsNewest
=============================================================================
