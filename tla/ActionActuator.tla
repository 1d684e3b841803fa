----------------------------- MODULE ActionActuator -----------------------------
(***************************************************************************)
(* agent/actuator.py: the thread that polls the backend for actions,       *)
(* verifies, executes and reports them one after the other, and the queue  *)
(* it polls.  What an action does to the cluster is NodeOperations; here   *)
(* an execution succeeds or fails.                                         *)
(*                                                                         *)
(* The backend is external (the repository holds its table, agent_action,  *)
(* and no endpoint).  An action leaves its queue when a result is stored;  *)
(* `redeliver' says whether an action that was handed out without one is   *)
(* handed out again, or is "picked up" once and for all.                   *)
(***************************************************************************)
EXTENDS Naturals, Sequences

CONSTANTS
    Actions,       \* identifiers of actions
    Signed,        \* those that carry a signature made with the secret key
    SignedFields,  \* the fields that signature was computed over
    Malformed,     \* those that lack a parameter execute_action indexes
    MaxFaults      \* bound: requests that fail and crashes, together

ASSUME ConstantsAssumption ==
    /\ Signed \subseteq Actions /\ Malformed \subseteq Actions
    /\ MaxFaults \in Nat

VARIABLES
    \* the backend
    redeliver, \* is an unanswered action handed out again?  Never changes.
    queue,     \* the actions submitted, in order
    picked,    \* those that have been handed out
    stored,    \* the results stored for each action
    late,      \* reports under way whose answer the agent no longer awaits
    \* the agent
    pc,        \* where the actuator's thread is
    running,   \* ActionActuator.running
    batch,     \* the actions of this poll that are left, the one in hand included
    result,    \* result of the action being reported
    \* history
    executed,  \* how often each action was executed
    doubtful,  \* reports of each action that got no answer
    crashes,
    faults

backend == <<redeliver, queue, picked, stored, late>>
history == <<executed, doubtful, crashes, faults>>
vars == <<backend, pc, running, batch, result, history>>

Results == {"success", "failure"}

Init ==
    /\ redeliver \in BOOLEAN
    /\ queue = <<>> /\ picked = {}
    /\ stored = [a \in Actions |-> {}]
    /\ late = {}
    /\ pc = "new" /\ running = FALSE
    /\ batch = {} /\ result = "failure"
    /\ executed = [a \in Actions |-> 0]
    /\ doubtful = [a \in Actions |-> 0]
    /\ crashes = 0 /\ faults = 0

Submitted == {queue[i] : i \in DOMAIN queue}

\* a was submitted before b.
Older(a, b) ==
    \E i, j \in DOMAIN queue : i < j /\ queue[i] = a /\ queue[j] = b

Fault == faults < MaxFaults /\ faults' = faults + 1

-----------------------------------------------------------------------------
\* The backend

Submit(a) ==
    /\ a \notin Submitted
    /\ queue' = Append(queue, a)
    /\ UNCHANGED <<redeliver, picked, stored, late, pc, running, batch, result, history>>

\* What a poll that gets through is answered, the oldest action first.
Offered ==
    {a \in Submitted : stored[a] = {} /\ (redeliver \/ a \notin picked)}

Store(a, r) == stored' = [stored EXCEPT ![a] = @ \cup {r}]

LateReportArrives ==
    \E m \in late :
        /\ late' = late \ {m}
        /\ Store(m[1], m[2])
        /\ UNCHANGED <<redeliver, queue, picked, pc, running, batch, result, history>>

-----------------------------------------------------------------------------
\* The actuator's thread

RunBegin ==
    /\ pc = "new"
    /\ running' = TRUE
    /\ pc' = "loop"
    /\ UNCHANGED <<backend, batch, result, history>>

LoopTest ==
    /\ pc = "loop"
    /\ pc' = IF running THEN "poll" ELSE "dead"
    /\ UNCHANGED <<backend, running, batch, result, history>>

Poll ==
    /\ pc = "poll"
    /\ batch' = Offered
    /\ picked' = picked \cup Offered
    /\ pc' = "next"
    /\ UNCHANGED <<redeliver, queue, stored, late, running, result, history>>

\* poll_actions returns [] when the request fails, whether or not the backend
\* saw it.
PollFails ==
    /\ pc = "poll" /\ Fault
    /\ batch' = {}
    /\ picked' \in {picked, picked \cup Offered}
    /\ pc' = "next"
    /\ UNCHANGED <<redeliver, queue, stored, late, running, result, executed, doubtful,
                   crashes>>

\* Mutant: the newest action of the batch first.
CurrentMutant(a) == a \in batch /\ \A b \in batch \ {a} : Older(b, a)

\* The loop over the batch is at action a.
Current(a) == a \in batch /\ \A b \in batch \ {a} : Older(a, b)

\* Mutant: a reported action stays in the batch.
BatchAfterReportMutant(a) == IF result = "success" THEN batch ELSE batch \ {a}

BatchAfterReport(a) == batch \ {a}

\* verify_signature: the HMAC is computed over the whole action, of which the
\* signature is a field.
VerifiedFields == {"id", "type", "parameters", "signature"}

VerifySignature(a) == a \in Signed /\ SignedFields = VerifiedFields

BatchDone ==
    /\ pc = "next" /\ batch = {}
    /\ pc' = "loop"
    /\ UNCHANGED <<backend, running, batch, result, history>>

\* Mutant: the rejection reports what the previous action reported.
RejectedResultMutant == result

RejectedResult == "failure"

Reject(a) ==
    /\ pc = "next" /\ Current(a)
    /\ ~VerifySignature(a)
    /\ result' = RejectedResult
    /\ pc' = "report"
    /\ UNCHANGED <<backend, running, batch, history>>

Execute(a) ==
    /\ pc = "next" /\ Current(a)
    /\ VerifySignature(a) /\ a \notin Malformed
    /\ executed' = [executed EXCEPT ![a] = @ + 1]
    /\ result' \in Results
    /\ pc' = "report"
    /\ UNCHANGED <<backend, running, batch, doubtful, crashes, faults>>

\* execute_action raises: the handler is outside the loop over the batch.
ExecuteRaises(a) ==
    /\ pc = "next" /\ Current(a)
    /\ VerifySignature(a) /\ a \in Malformed
    /\ batch' = {}
    /\ pc' = "loop"
    /\ UNCHANGED <<backend, running, result, history>>

Report(a) ==
    /\ pc = "report" /\ Current(a)
    /\ Store(a, result)
    /\ batch' = BatchAfterReport(a)
    /\ pc' = "next"
    /\ UNCHANGED <<redeliver, queue, picked, late, running, result, history>>

\* Mutant: the exception of a failed report leaves run().
AfterFailedReportMutant == "dead"

AfterFailedReport == "next"

\* The report gets no answer: it is lost, or stored, or stored later.
ReportFails(a) ==
    /\ pc = "report" /\ Current(a) /\ Fault
    /\ doubtful' = [doubtful EXCEPT ![a] = @ + 1]
    /\ \/ UNCHANGED <<stored, late>>
       \/ Store(a, result) /\ UNCHANGED late
       \/ late' = late \cup {<<a, result>>} /\ UNCHANGED stored
    /\ batch' = BatchAfterReport(a)
    /\ pc' = AfterFailedReport
    /\ UNCHANGED <<redeliver, queue, picked, running, result, executed, crashes>>

-----------------------------------------------------------------------------
\* The rest of the process

Stop ==
    /\ running
    /\ running' = FALSE
    /\ UNCHANGED <<backend, pc, batch, result, history>>

\* The process dies and is started again.
Crash ==
    /\ pc # "new" /\ Fault
    /\ pc' = "new" /\ running' = FALSE
    /\ batch' = {} /\ result' = "failure"
    /\ crashes' = crashes + 1
    /\ UNCHANGED <<backend, executed, doubtful>>

Actuator ==
    \/ RunBegin \/ LoopTest \/ Poll \/ PollFails \/ BatchDone
    \/ \E a \in Actions :
          Reject(a) \/ Execute(a) \/ ExecuteRaises(a) \/ Report(a) \/ ReportFails(a)

Backend == LateReportArrives \/ \E a \in Actions : Submit(a)

Next == Actuator \/ Backend \/ Stop \/ Crash

Spec == Init /\ [][Next]_vars

\* The thread is scheduled and its requests have timeouts.
FairSpec == Spec /\ WF_vars(Actuator)
-----------------------------------------------------------------------------
TypeOK ==
    /\ redeliver \in BOOLEAN
    /\ queue \in Seq(Actions) /\ picked \subseteq Actions
    /\ stored \in [Actions -> SUBSET Results]
    /\ late \subseteq Actions \X Results
    /\ pc \in {"new", "loop", "poll", "next", "report", "dead"}
    /\ running \in BOOLEAN
    /\ batch \subseteq Actions /\ result \in Results
    /\ executed \in [Actions -> Nat] /\ doubtful \in [Actions -> Nat]
    /\ crashes \in Nat /\ faults \in 0 .. MaxFaults

\* The backend never reads "success" for an action that was not executed: each
\* report carries the result of its own action.
SuccessIsEarned ==
    \A a \in Actions : "success" \in stored[a] => executed[a] > 0

\* Every execution of an action beyond the first is owed to a report that got
\* no answer or to a crash, and then only if unanswered actions are handed out
\* again.
ExecutionsPaid ==
    \A a \in Actions :
        executed[a] <= 1 + (IF redeliver THEN doubtful[a] + crashes ELSE 0)

\* An action is never executed before an older one that could be executed.
ExecutedInOrder ==
    redeliver =>
        \A a, b \in Actions :
            (Older(a, b) /\ executed[b] > 0 /\ VerifySignature(a)) => executed[a] > 0

\* An action that raises when it is executed is in front of a, or is a itself.
Blocked(a) == \E m \in Malformed \cap Submitted :
                  VerifySignature(m) /\ (m = a \/ Older(m, a))

\* While the actuator runs and the backend hands unanswered actions out again,
\* every action ends with a result in the backend, unless it is malformed or queued
\* behind one that is: nothing that comes after an action can hold it up.
EveryActionIsAnswered ==
    (redeliver /\ <>[]running)
        => \A a \in Actions : (a \in Submitted /\ ~Blocked(a)) ~> (stored[a] # {})

\* An action that the backend signed is not rejected.
SignedIsExecuted ==
    (redeliver /\ <>[](running /\ Submitted \cap Malformed = {}))
        => \A a \in Signed : (a \in Submitted) ~> (executed[a] > 0)
=============================================================================
