------------------------ MODULE ActionActuatorProofs ------------------------
(***************************************************************************)
(* Proofs about ActionActuator for every set of actions, signed or not,    *)
(* malformed or not, and any number of crashes and lost requests.          *)
(*                                                                         *)
(* What the properties say about stored results has to be known of results *)
(* that are on their way, too: the one in hand and the late ones.  And an  *)
(* action that may still be executed must not have used up its debt.       *)
(***************************************************************************)
EXTENDS ActionActuator, TLAPS

InHand(a) == pc = "report" /\ Current(a)

\* The queue holds an action once, and the agent knows submitted actions only.
QueueOK ==
    /\ \A i, j \in DOMAIN queue : queue[i] = queue[j] => i = j
    /\ batch \subseteq Submitted /\ batch \subseteq picked
    /\ \A a \in Actions : executed[a] > 0 => a \in Submitted

\* A result of success was earned wherever it is.
Earned ==
    \A a \in Actions :
        ("success" \in stored[a] \/ <<a, "success">> \in late
            \/ (InHand(a) /\ result = "success")) => executed[a] > 0

\* What the faults of a behaviour may cost: further executions of action a.
Debt(a) == IF redeliver THEN doubtful[a] + crashes ELSE 0

\* The action waits in the batch or may be handed out by a later poll.
MayBeExecuted(a) ==
    /\ ~InHand(a)
    /\ a \in batch \/ (stored[a] = {} /\ (redeliver \/ a \notin picked))

Paid ==
    \A a \in Actions :
        /\ executed[a] <= 1 + Debt(a)
        /\ MayBeExecuted(a) => executed[a] <= Debt(a)

\* The actuator is through with the action.
Done(a) == executed[a] > 0 \/ ~VerifySignature(a)

\* There is a result of action a somewhere.
HasResult(a) ==
    stored[a] # {} \/ InHand(a) \/ \E r \in Results : <<a, r>> \in late

ResultsAreDone == \A a \in Actions : HasResult(a) => Done(a)

Ordered ==
    redeliver =>
        \A a, b \in Actions :
            Older(a, b) =>
                /\ b \in batch => a \in batch \/ Done(a)
                /\ executed[b] > 0 => Done(a)

IInv == TypeOK /\ QueueOK /\ Earned /\ Paid /\ ResultsAreDone /\ Ordered

-----------------------------------------------------------------------------
(***************************************************************************)
(* The order of the queue                                                  *)
(***************************************************************************)

LEMMA OlderIsStrict ==
    ASSUME TypeOK, QueueOK, NEW a, NEW b, Older(a, b)
    PROVE  a # b /\ ~Older(b, a)
<1>1. \A i \in DOMAIN queue : i \in Nat
  BY DEF TypeOK
<1>2. PICK i, j \in DOMAIN queue : i < j /\ queue[i] = a /\ queue[j] = b
  BY DEF Older
<1>3. a # b
  BY <1>1, <1>2 DEF QueueOK
<1>4. ASSUME Older(b, a) PROVE FALSE
  <2>1. PICK k, l \in DOMAIN queue : k < l /\ queue[k] = b /\ queue[l] = a
    BY <1>4 DEF Older
  <2>2. k = j /\ l = i
    BY <1>2, <2>1 DEF QueueOK
  <2> QED BY <1>1, <1>2, <2>1, <2>2
<1> QED BY <1>3, <1>4

LEMMA CurrentIsUnique ==
    ASSUME TypeOK, QueueOK, NEW a, NEW b, Current(a), Current(b)
    PROVE  a = b
<1>1. SUFFICES ASSUME a # b PROVE FALSE
  OBVIOUS
<1>2. Older(a, b) /\ Older(b, a)
  BY <1>1 DEF Current
<1> QED BY <1>2, OlderIsStrict

\* A step that leaves the queue alone.
LEMMA SameQueue ==
    ASSUME UNCHANGED queue
    PROVE  /\ Submitted' = Submitted
           /\ \A a, b : Older(a, b)' <=> Older(a, b)
           /\ batch' = batch => \A a : Current(a)' <=> Current(a)
<1>1. Submitted' = Submitted
  BY DEF Submitted
<1>2. \A a, b : Older(a, b)' <=> Older(a, b)
  BY DEF Older
<1>3. batch' = batch => \A a : Current(a)' <=> Current(a)
  BY <1>2 DEF Current
<1> QED BY <1>1, <1>2, <1>3

\* A submission puts an action behind those in the queue and does not change
\* what the agent has in hand.
LEMMA SubmitFacts ==
    ASSUME TypeOK, QueueOK, NEW x \in Actions, Submit(x)
    PROVE  /\ queue' \in Seq(Actions)
           /\ \A i, j \in DOMAIN queue' : queue'[i] = queue'[j] => i = j
           /\ Submitted' = Submitted \cup {x} /\ x \notin Submitted
           /\ \A a, b : Older(a, b)' => Older(a, b) \/ b = x
           /\ \A a : InHand(a)' <=> InHand(a)
<1>1. /\ queue \in Seq(Actions) /\ queue' = Append(queue, x) /\ x \notin Submitted
      /\ Len(queue) \in Nat /\ DOMAIN queue = 1 .. Len(queue)
  BY DEF TypeOK, Submit
<1>2. /\ queue' \in Seq(Actions) /\ DOMAIN queue' = 1 .. Len(queue) + 1
      /\ \A i \in DOMAIN queue : i \in DOMAIN queue' /\ queue'[i] = queue[i]
      /\ queue'[Len(queue) + 1] = x
  BY <1>1
<1>3. \A i \in DOMAIN queue' : i \in DOMAIN queue \/ i = Len(queue) + 1
  BY <1>1, <1>2
<1>4. \A i \in DOMAIN queue : queue[i] # x
  BY <1>1 DEF Submitted
<1>5. \A i, j \in DOMAIN queue' : queue'[i] = queue'[j] => i = j
  BY <1>2, <1>3, <1>4 DEF QueueOK
<1>6. Submitted' = Submitted \cup {x}
  <2>1. Submitted' \subseteq Submitted \cup {x}
    BY <1>2, <1>3 DEF Submitted
  <2>2. Submitted \cup {x} \subseteq Submitted'
    <3>1. Len(queue) + 1 \in DOMAIN queue'
      BY <1>1, <1>2
    <3> QED BY <1>2, <3>1 DEF Submitted
  <2> QED BY <2>1, <2>2
<1>7. \A a, b : Older(a, b) => Older(a, b)'
  BY <1>2 DEF Older
<1>8. ASSUME NEW a, NEW b, Older(a, b)', b # x PROVE Older(a, b)
  <2>1. PICK i, j \in DOMAIN queue' : i < j /\ queue'[i] = a /\ queue'[j] = b
    BY <1>8 DEF Older
  <2>2. j \in DOMAIN queue
    BY <1>2, <1>3, <1>8, <2>1
  <2>3. i \in DOMAIN queue
    BY <1>1, <1>3, <2>1, <2>2
  <2> QED BY <1>2, <2>1, <2>2, <2>3 DEF Older
<1>9. ASSUME NEW a PROVE InHand(a)' <=> InHand(a)
  <2>1. batch' = batch /\ pc' = pc /\ x \notin batch
    BY <1>1 DEF Submit, QueueOK
  <2> QED BY <1>7, <1>8, <2>1 DEF InHand, Current
<1> QED BY <1>1, <1>2, <1>5, <1>6, <1>8, <1>9

-----------------------------------------------------------------------------
(***************************************************************************)
(* Every action keeps the invariant                                        *)
(***************************************************************************)

LEMMA InitIInv == Init => IInv
<1> SUFFICES ASSUME Init PROVE IInv
  OBVIOUS
<1>1. TypeOK
  <2>1. queue \in Seq(Actions) /\ faults \in 0 .. MaxFaults
    BY ConstantsAssumption DEF Init
  <2>2. /\ stored \in [Actions -> SUBSET Results]
        /\ executed \in [Actions -> Nat] /\ doubtful \in [Actions -> Nat]
    BY DEF Init
  <2> QED BY <2>1, <2>2 DEF Init, TypeOK, Results
<1>2. \A a : ~InHand(a)
  BY DEF Init, InHand
<1>3. DOMAIN queue = {}
  BY DEF Init
<1>4. \A a, b : ~Older(a, b)
  BY <1>3 DEF Older
<1>5. QueueOK
  BY <1>3 DEF Init, QueueOK
<1>6. Earned /\ ResultsAreDone /\ Ordered
  BY <1>2, <1>4 DEF Init, Earned, ResultsAreDone, HasResult, Ordered
<1>7. Paid
  <2> SUFFICES ASSUME NEW a \in Actions
               PROVE  executed[a] <= 1 + Debt(a) /\ executed[a] <= Debt(a)
    BY DEF Paid
  <2>1. executed[a] = 0 /\ Debt(a) = 0
    BY DEF Init, Debt
  <2> QED BY <2>1
<1> QED BY <1>1, <1>5, <1>6, <1>7 DEF IInv

\* Debts are numbers and never shrink.
LEMMA DebtFacts ==
    ASSUME TypeOK, NEW a \in Actions
    PROVE  Debt(a) \in Nat /\ executed[a] \in Nat /\ doubtful[a] \in Nat
           /\ crashes \in Nat
BY DEF TypeOK, Debt

LEMMA SubmitStep ==
    ASSUME IInv, NEW x \in Actions, Submit(x) PROVE IInv'
<1> USE DEF IInv
<1>1. /\ queue' \in Seq(Actions)
      /\ \A i, j \in DOMAIN queue' : queue'[i] = queue'[j] => i = j
      /\ Submitted' = Submitted \cup {x} /\ x \notin Submitted
      /\ \A a, b : Older(a, b)' => Older(a, b) \/ b = x
      /\ \A a : InHand(a)' <=> InHand(a)
  BY SubmitFacts
<1>2. UNCHANGED <<redeliver, picked, stored, late, pc, running, batch, result,
                  executed, doubtful, crashes, faults>>
  BY DEF Submit, history
<1>3. TypeOK'
  BY <1>1, <1>2 DEF TypeOK
<1>4. QueueOK'
  BY <1>1, <1>2 DEF QueueOK
<1>5. Earned' /\ ResultsAreDone'
  BY <1>1, <1>2 DEF Earned, ResultsAreDone, HasResult, Done, VerifySignature
<1>6. Paid'
  <2>1. ASSUME NEW a \in Actions
        PROVE  Debt(a)' = Debt(a) /\ (MayBeExecuted(a)' <=> MayBeExecuted(a))
    BY <1>1, <1>2 DEF Debt, MayBeExecuted
  <2> QED BY <1>2, <2>1 DEF Paid
<1>7. Ordered'
  <2>1. SUFFICES ASSUME redeliver, NEW a \in Actions, NEW b \in Actions, Older(a, b)'
                 PROVE  /\ b \in batch => a \in batch \/ Done(a)
                        /\ executed[b] > 0 => Done(a)
    BY <1>2 DEF Ordered, Done, VerifySignature
  <2>2. CASE Older(a, b)
    BY <2>1, <2>2 DEF Ordered
  <2>3. CASE b = x
    BY <1>1, <2>3 DEF QueueOK
  <2> QED BY <1>1, <2>1, <2>2, <2>3
<1> QED BY <1>3, <1>4, <1>5, <1>6, <1>7

\* The steps that change none of the variables the invariant is about, except
\* for where the thread is outside a report and for the flag it tests.
LEMMA QuietStep ==
    ASSUME IInv,
           UNCHANGED <<backend, batch, result, history>>,
           running' \in BOOLEAN,
           pc' \in {"new", "loop", "poll", "next", "report", "dead"},
           pc = "report" <=> pc' = "report"
    PROVE  IInv'
<1> USE DEF IInv
<1>1. UNCHANGED <<redeliver, queue, picked, stored, late, batch, result, executed,
                  doubtful, crashes, faults>>
  BY DEF backend, history
<1>2. /\ Submitted' = Submitted
      /\ \A a, b : Older(a, b)' <=> Older(a, b)
      /\ \A a : Current(a)' <=> Current(a)
  BY <1>1, SameQueue
<1>3. \A a : InHand(a)' <=> InHand(a)
  BY <1>2 DEF InHand
<1>4. TypeOK'
  BY <1>1 DEF TypeOK
<1>5. QueueOK'
  BY <1>1, <1>2 DEF QueueOK
<1>6. Earned' /\ ResultsAreDone'
  BY <1>1, <1>3 DEF Earned, ResultsAreDone, HasResult, Done, VerifySignature
<1>7. Paid'
  <2>1. ASSUME NEW a \in Actions
        PROVE  Debt(a)' = Debt(a) /\ (MayBeExecuted(a)' <=> MayBeExecuted(a))
    BY <1>1, <1>3 DEF Debt, MayBeExecuted
  <2> QED BY <1>1, <2>1 DEF Paid
<1>8. Ordered'
  BY <1>1, <1>2 DEF Ordered, Done, VerifySignature
<1> QED BY <1>4, <1>5, <1>6, <1>7, <1>8

LEMMA LateReportArrivesStep == IInv /\ LateReportArrives => IInv'
<1> USE DEF IInv
<1> SUFFICES ASSUME IInv, LateReportArrives PROVE IInv'
  OBVIOUS
<1>1. PICK m \in late : late' = late \ {m} /\ Store(m[1], m[2])
  BY DEF LateReportArrives
<1>2. UNCHANGED <<redeliver, queue, picked, pc, running, batch, result, executed,
                  doubtful, crashes, faults>>
  BY DEF LateReportArrives, history
<1>3. /\ m \in Actions \X Results /\ m = <<m[1], m[2]>>
      /\ m[1] \in Actions /\ m[2] \in Results
  BY <1>1 DEF TypeOK
<1>4. /\ stored' \in [Actions -> SUBSET Results]
      /\ \A a \in Actions :
            stored'[a] = IF a = m[1] THEN stored[a] \cup {m[2]} ELSE stored[a]
  BY <1>1, <1>3 DEF TypeOK, Store
<1>5. /\ Submitted' = Submitted
      /\ \A a, b : Older(a, b)' <=> Older(a, b)
      /\ \A a : Current(a)' <=> Current(a)
  BY <1>2, SameQueue
<1>6. \A a : InHand(a)' <=> InHand(a)
  BY <1>2, <1>5 DEF InHand
<1>7. TypeOK'
  BY <1>1, <1>2, <1>4 DEF TypeOK
<1>8. QueueOK'
  BY <1>2, <1>5 DEF QueueOK
<1>9. Earned'
  <2> SUFFICES ASSUME NEW a \in Actions,
                      "success" \in stored'[a] \/ <<a, "success">> \in late'
                          \/ (InHand(a) /\ result = "success")
               PROVE  executed[a] > 0
    BY <1>2, <1>6 DEF Earned
  <2> QED BY <1>1, <1>3, <1>4 DEF Earned
<1>10. ResultsAreDone'
  <2> SUFFICES ASSUME NEW a \in Actions, HasResult(a)'
               PROVE  Done(a)
    BY <1>2 DEF ResultsAreDone, Done, VerifySignature
  <2>1. HasResult(a)
    BY <1>1, <1>3, <1>4, <1>6 DEF HasResult
  <2> QED BY <2>1 DEF ResultsAreDone
<1>11. Paid'
  <2>1. ASSUME NEW a \in Actions
        PROVE  Debt(a)' = Debt(a) /\ (MayBeExecuted(a)' => MayBeExecuted(a))
    BY <1>2, <1>4, <1>6 DEF Debt, MayBeExecuted
  <2> QED BY <1>2, <2>1 DEF Paid
<1>12. Ordered'
  BY <1>2, <1>5 DEF Ordered, Done, VerifySignature
<1> QED BY <1>7, <1>8, <1>9, <1>10, <1>11, <1>12

\* The actions of a poll are open ones, so executing them again is paid for.
LEMMA OfferedFacts ==
    ASSUME TypeOK, QueueOK
    PROVE  /\ Offered \subseteq Actions /\ Offered \subseteq Submitted
           /\ Submitted \subseteq Actions
           /\ \A a \in Offered : stored[a] = {} /\ (redeliver \/ a \notin picked)
<1>1. Submitted \subseteq Actions
  BY DEF TypeOK, Submitted
<1> QED BY <1>1 DEF Offered

LEMMA PollStep == IInv /\ Poll => IInv'
<1> USE DEF IInv
<1> SUFFICES ASSUME IInv, Poll PROVE IInv'
  OBVIOUS
<1>1. /\ pc = "poll" /\ pc' = "next"
      /\ batch' = Offered /\ picked' = picked \cup Offered
      /\ UNCHANGED <<redeliver, queue, stored, late, running, result, executed,
                     doubtful, crashes, faults>>
  BY DEF Poll, history
<1>2. Submitted' = Submitted /\ \A a, b : Older(a, b)' <=> Older(a, b)
  BY <1>1, SameQueue
<1>3. \A a : ~InHand(a) /\ ~InHand(a)'
  BY <1>1 DEF InHand
<1>4. /\ Offered \subseteq Actions /\ Offered \subseteq Submitted
      /\ Submitted \subseteq Actions
      /\ \A a \in Offered : stored[a] = {} /\ (redeliver \/ a \notin picked)
  BY OfferedFacts
<1>5. TypeOK'
  BY <1>1, <1>4 DEF TypeOK
<1>6. QueueOK'
  BY <1>1, <1>2, <1>4 DEF QueueOK
<1>7. Earned' /\ ResultsAreDone'
  BY <1>1, <1>3 DEF Earned, ResultsAreDone, HasResult, Done, VerifySignature
<1>8. Paid'
  <2>1. ASSUME NEW a \in Actions
        PROVE  Debt(a)' = Debt(a) /\ (MayBeExecuted(a)' => MayBeExecuted(a))
    BY <1>1, <1>3, <1>4 DEF Debt, MayBeExecuted
  <2> QED BY <1>1, <2>1 DEF Paid
<1>9. Ordered'
  <2> SUFFICES ASSUME redeliver, NEW a \in Actions, NEW b \in Actions, Older(a, b)
               PROVE  /\ b \in Offered => a \in Offered \/ Done(a)
                      /\ executed[b] > 0 => Done(a)
    BY <1>1, <1>2 DEF Ordered, Done, VerifySignature
  <2>1. a \in Submitted
    BY DEF Older, Submitted
  <2>2. a \in Offered \/ stored[a] # {}
    BY <2>1 DEF Offered
  <2> QED BY <2>2 DEF Ordered, ResultsAreDone, HasResult
<1> QED BY <1>5, <1>6, <1>7, <1>8, <1>9

LEMMA PollFailsStep == IInv /\ PollFails => IInv'
<1> USE DEF IInv
<1> SUFFICES ASSUME IInv, PollFails PROVE IInv'
  OBVIOUS
<1>1. /\ pc = "poll" /\ pc' = "next"
      /\ batch' = {} /\ picked' \in {picked, picked \cup Offered}
      /\ faults < MaxFaults /\ faults' = faults + 1
      /\ UNCHANGED <<redeliver, queue, stored, late, running, result, executed,
                     doubtful, crashes>>
  BY DEF PollFails, Fault
<1>2. Submitted' = Submitted /\ \A a, b : Older(a, b)' <=> Older(a, b)
  BY <1>1, SameQueue
<1>3. \A a : ~InHand(a) /\ ~InHand(a)'
  BY <1>1 DEF InHand
<1>4. TypeOK'
  <2>1. faults' \in 0 .. MaxFaults
    BY <1>1, ConstantsAssumption DEF TypeOK
  <2>2. picked' \subseteq Actions
    BY <1>1, OfferedFacts DEF TypeOK
  <2> QED BY <1>1, <2>1, <2>2 DEF TypeOK
<1>5. QueueOK'
  BY <1>1, <1>2 DEF QueueOK
<1>6. Earned' /\ ResultsAreDone'
  BY <1>1, <1>3 DEF Earned, ResultsAreDone, HasResult, Done, VerifySignature
<1>7. Paid'
  <2>1. ASSUME NEW a \in Actions
        PROVE  Debt(a)' = Debt(a) /\ (MayBeExecuted(a)' => MayBeExecuted(a))
    BY <1>1, <1>3 DEF Debt, MayBeExecuted
  <2> QED BY <1>1, <2>1 DEF Paid
<1>8. Ordered'
  BY <1>1, <1>2 DEF Ordered, Done, VerifySignature
<1> QED BY <1>4, <1>5, <1>6, <1>7, <1>8

\* After a rejection or an execution the action is in hand, and no other is.
LEMMA NowInHand ==
    ASSUME TypeOK, QueueOK, NEW a \in Actions, Current(a), pc' = "report",
           UNCHANGED <<queue, batch>>
    PROVE  \A b : InHand(b)' <=> b = a
<1>1. \A b : Current(b)' <=> Current(b)
  BY SameQueue
<1> QED BY <1>1, CurrentIsUnique DEF InHand

LEMMA RejectStep ==
    ASSUME IInv, NEW a \in Actions, Reject(a) PROVE IInv'
<1> USE DEF IInv
<1>1. /\ pc = "next" /\ pc' = "report" /\ Current(a) /\ ~VerifySignature(a)
      /\ result' = "failure"
      /\ UNCHANGED <<redeliver, queue, picked, stored, late, running, batch, executed,
                     doubtful, crashes, faults>>
  BY DEF Reject, RejectedResult, backend, history
<1>2. Submitted' = Submitted /\ \A b, c : Older(b, c)' <=> Older(b, c)
  BY <1>1, SameQueue
<1>3. \A b : ~InHand(b) /\ (InHand(b)' <=> b = a)
  BY <1>1, NowInHand DEF InHand
<1>4. TypeOK'
  BY <1>1 DEF TypeOK, Results
<1>5. QueueOK'
  BY <1>1, <1>2 DEF QueueOK
<1>6. Earned'
  BY <1>1 DEF Earned
<1>7. ResultsAreDone'
  <2> SUFFICES ASSUME NEW b \in Actions, HasResult(b)' PROVE Done(b)
    BY <1>1 DEF ResultsAreDone, Done, VerifySignature
  <2>1. HasResult(b) \/ b = a
    BY <1>1, <1>3 DEF HasResult
  <2> QED BY <1>1, <2>1 DEF ResultsAreDone, Done
<1>8. Paid'
  <2>1. ASSUME NEW b \in Actions
        PROVE  Debt(b)' = Debt(b) /\ (MayBeExecuted(b)' => MayBeExecuted(b))
    BY <1>1, <1>3 DEF Debt, MayBeExecuted
  <2> QED BY <1>1, <2>1 DEF Paid
<1>9. Ordered'
  BY <1>1, <1>2 DEF Ordered, Done, VerifySignature
<1> QED BY <1>4, <1>5, <1>6, <1>7, <1>8, <1>9

LEMMA ExecuteStep ==
    ASSUME IInv, NEW a \in Actions, Execute(a) PROVE IInv'
<1> USE DEF IInv
<1>1. /\ pc = "next" /\ pc' = "report" /\ Current(a) /\ VerifySignature(a)
      /\ result' \in Results
      /\ executed' = [executed EXCEPT ![a] = @ + 1]
      /\ UNCHANGED <<redeliver, queue, picked, stored, late, running, batch, doubtful,
                     crashes, faults>>
  BY DEF Execute, backend
<1>2. Submitted' = Submitted /\ \A b, c : Older(b, c)' <=> Older(b, c)
  BY <1>1, SameQueue
<1>3. \A b : ~InHand(b) /\ (InHand(b)' <=> b = a)
  BY <1>1, NowInHand DEF InHand
<1>4. /\ executed' \in [Actions -> Nat]
      /\ \A b \in Actions :
            executed'[b] = IF b = a THEN executed[b] + 1 ELSE executed[b]
  BY <1>1 DEF TypeOK
<1>5. \A b \in Actions : executed[b] \in Nat
  BY DEF TypeOK
<1>6. TypeOK'
  BY <1>1, <1>4 DEF TypeOK
<1>7. a \in batch
  BY <1>1 DEF Current
<1>8. QueueOK'
  BY <1>1, <1>2, <1>4, <1>7 DEF QueueOK
<1>9. executed'[a] > 0 /\ \A b \in Actions : executed[b] > 0 => executed'[b] > 0
  BY <1>4, <1>5
<1>10. Earned'
  <2> SUFFICES ASSUME NEW b \in Actions,
                      "success" \in stored[b] \/ <<b, "success">> \in late \/ b = a
               PROVE  executed'[b] > 0
    BY <1>1, <1>3 DEF Earned
  <2> QED BY <1>9 DEF Earned
<1>11. \A b \in Actions : Done(b) => Done(b)'
  BY <1>9 DEF Done, VerifySignature
<1>12. ResultsAreDone'
  <2> SUFFICES ASSUME NEW b \in Actions, HasResult(b)' PROVE Done(b)'
    BY DEF ResultsAreDone
  <2>1. HasResult(b) \/ b = a
    BY <1>1, <1>3 DEF HasResult
  <2> QED BY <1>9, <1>11, <2>1 DEF ResultsAreDone, Done
<1>13. Paid'
  <2> SUFFICES ASSUME NEW b \in Actions
               PROVE  /\ executed'[b] <= 1 + Debt(b)'
                      /\ MayBeExecuted(b)' => executed'[b] <= Debt(b)'
    BY DEF Paid
  <2>1. Debt(b)' = Debt(b) /\ Debt(b) \in Nat /\ executed[b] \in Nat
    BY <1>1, DebtFacts DEF Debt
  <2>2. CASE b = a
    <3>1. MayBeExecuted(a)
      BY <1>3, <1>7 DEF MayBeExecuted
    <3>2. executed[a] <= Debt(a) /\ ~MayBeExecuted(a)'
      BY <1>3, <3>1 DEF Paid, MayBeExecuted
    <3> QED BY <1>4, <2>1, <2>2, <3>2
  <2>3. CASE b # a
    <3>1. MayBeExecuted(b)' => MayBeExecuted(b)
      BY <1>1, <1>3 DEF MayBeExecuted
    <3> QED BY <1>4, <2>1, <2>3, <3>1 DEF Paid
  <2> QED BY <2>2, <2>3
<1>14. Ordered'
  <2> SUFFICES ASSUME redeliver, NEW b \in Actions, NEW c \in Actions, Older(b, c)
               PROVE  /\ c \in batch => b \in batch \/ Done(b)'
                      /\ executed'[c] > 0 => Done(b)'
    BY <1>1, <1>2 DEF Ordered
  <2>1. CASE c = a
    <3>1. b # a /\ ~Older(a, b)
      BY <2>1, OlderIsStrict
    <3>2. b \notin batch
      BY <1>1, <3>1 DEF Current
    <3> QED BY <1>7, <1>11, <2>1, <3>2 DEF Ordered
  <2>2. CASE c # a
    BY <1>4, <1>11, <2>2 DEF Ordered
  <2> QED BY <2>1, <2>2
<1> QED BY <1>6, <1>8, <1>10, <1>12, <1>13, <1>14

LEMMA ExecuteRaisesStep ==
    ASSUME IInv, NEW a \in Actions, ExecuteRaises(a) PROVE IInv'
<1> USE DEF IInv
<1>1. /\ pc = "next" /\ pc' = "loop" /\ batch' = {}
      /\ UNCHANGED <<redeliver, queue, picked, stored, late, running, result, executed,
                     doubtful, crashes, faults>>
  BY DEF ExecuteRaises, backend, history
<1>2. Submitted' = Submitted /\ \A b, c : Older(b, c)' <=> Older(b, c)
  BY <1>1, SameQueue
<1>3. \A b : ~InHand(b) /\ ~InHand(b)'
  BY <1>1 DEF InHand
<1>4. TypeOK'
  BY <1>1 DEF TypeOK
<1>5. QueueOK'
  BY <1>1, <1>2 DEF QueueOK
<1>6. Earned' /\ ResultsAreDone'
  BY <1>1, <1>3 DEF Earned, ResultsAreDone, HasResult, Done, VerifySignature
<1>7. Paid'
  <2>1. ASSUME NEW b \in Actions
        PROVE  Debt(b)' = Debt(b) /\ (MayBeExecuted(b)' => MayBeExecuted(b))
    BY <1>1, <1>3 DEF Debt, MayBeExecuted
  <2> QED BY <1>1, <2>1 DEF Paid
<1>8. Ordered'
  BY <1>1, <1>2 DEF Ordered, Done, VerifySignature
<1> QED BY <1>4, <1>5, <1>6, <1>7, <1>8

\* When the action in hand leaves the batch, the others wait as before.
LEMMA HandIsEmpty ==
    ASSUME TypeOK, QueueOK, NEW a \in Actions, InHand(a),
           pc' # "report", UNCHANGED <<queue, stored, picked, redeliver>>,
           batch' \subseteq batch \ {a}
    PROVE  /\ \A b : ~InHand(b)'
           /\ \A b : InHand(b) => b = a
           /\ \A b \in Actions : MayBeExecuted(b)' => MayBeExecuted(b) \/ b = a
           /\ a \in picked /\ a \notin batch'
<1>1. \A b : InHand(b) => b = a
  BY CurrentIsUnique DEF InHand
<1>2. \A b : ~InHand(b)'
  BY DEF InHand
<1>3. a \in picked
  BY DEF InHand, Current, QueueOK
<1>4. \A b \in Actions : MayBeExecuted(b)' => MayBeExecuted(b) \/ b = a
  BY <1>1, <1>2 DEF MayBeExecuted
<1> QED BY <1>1, <1>2, <1>3, <1>4

\* What the order of the queue says of a batch without the action in hand.
LEMMA StillOrdered ==
    ASSUME TypeOK, QueueOK, ResultsAreDone, Ordered, NEW a \in Actions, InHand(a),
           UNCHANGED <<queue, executed, redeliver>>, batch' = batch \ {a}
    PROVE  Ordered'
<1>1. \A b, c : Older(b, c)' <=> Older(b, c)
  BY SameQueue
<1>2. Done(a)
  BY DEF ResultsAreDone, HasResult
<1> QED BY <1>1, <1>2 DEF Ordered, Done, VerifySignature

LEMMA ReportStep ==
    ASSUME IInv, NEW a \in Actions, Report(a) PROVE IInv'
<1> USE DEF IInv
<1>1. /\ pc = "report" /\ pc' = "next" /\ Current(a)
      /\ Store(a, result) /\ batch' = batch \ {a}
      /\ UNCHANGED <<redeliver, queue, picked, late, running, result, executed,
                     doubtful, crashes, faults>>
  BY DEF Report, BatchAfterReport, history
<1>2. Submitted' = Submitted
  BY <1>1, SameQueue
<1>3. InHand(a) /\ a \in batch
  BY <1>1 DEF InHand, Current
<1>4. /\ \A b : ~InHand(b)'
      /\ \A b : InHand(b) => b = a
  BY <1>1, <1>3, CurrentIsUnique DEF InHand
<1>5. /\ stored' \in [Actions -> SUBSET Results]
      /\ \A b \in Actions :
            stored'[b] = IF b = a THEN stored[b] \cup {result} ELSE stored[b]
  BY <1>1 DEF TypeOK, Store
<1>6. TypeOK'
  BY <1>1, <1>5 DEF TypeOK
<1>7. QueueOK'
  BY <1>1, <1>2 DEF QueueOK
<1>8. Earned'
  <2> SUFFICES ASSUME NEW b \in Actions,
                      "success" \in stored'[b] \/ <<b, "success">> \in late
               PROVE  executed[b] > 0
    BY <1>1, <1>4 DEF Earned
  <2> QED BY <1>3, <1>5 DEF Earned
<1>9. ResultsAreDone'
  <2> SUFFICES ASSUME NEW b \in Actions, HasResult(b)' PROVE Done(b)
    BY <1>1 DEF ResultsAreDone, Done, VerifySignature
  <2>1. HasResult(b)
    BY <1>1, <1>3, <1>4, <1>5 DEF HasResult
  <2> QED BY <2>1 DEF ResultsAreDone
<1>10. Paid'
  <2>1. ASSUME NEW b \in Actions
        PROVE  Debt(b)' = Debt(b) /\ (MayBeExecuted(b)' => MayBeExecuted(b))
    BY <1>1, <1>4, <1>5 DEF Debt, MayBeExecuted
  <2> QED BY <1>1, <2>1 DEF Paid
<1>11. Ordered'
  BY <1>1, <1>3, StillOrdered
<1> QED BY <1>6, <1>7, <1>8, <1>9, <1>10, <1>11

\* A fault that only adds to the debts: the action in hand is paid for again.
LEMMA FaultIsPaid ==
    ASSUME TypeOK, Paid, NEW a \in Actions,
           UNCHANGED <<redeliver, executed>>,
           \A b \in Actions : Debt(b)' \in Nat /\ Debt(b) <= Debt(b)',
           redeliver => Debt(a)' = Debt(a) + 1,
           \A b \in Actions : MayBeExecuted(b)' => MayBeExecuted(b) \/ (b = a /\ redeliver)
    PROVE  Paid'
<1> SUFFICES ASSUME NEW b \in Actions
             PROVE  /\ executed[b] <= 1 + Debt(b)'
                    /\ MayBeExecuted(b)' => executed[b] <= Debt(b)'
  BY DEF Paid
<1>1. /\ Debt(b) \in Nat /\ Debt(b)' \in Nat /\ Debt(b) <= Debt(b)'
      /\ executed[b] \in Nat
  BY DebtFacts
<1>2. executed[b] <= 1 + Debt(b) /\ (MayBeExecuted(b) => executed[b] <= Debt(b))
  BY DEF Paid
<1>3. MayBeExecuted(b)' => executed[b] <= Debt(b)'
  BY <1>1, <1>2
<1> QED BY <1>1, <1>2, <1>3

LEMMA ReportFailsStep ==
    ASSUME IInv, NEW a \in Actions, ReportFails(a) PROVE IInv'
<1> USE DEF IInv
<1>1. /\ pc = "report" /\ pc' = "next" /\ Current(a)
      /\ batch' = batch \ {a}
      /\ faults < MaxFaults /\ faults' = faults + 1
      /\ doubtful' = [doubtful EXCEPT ![a] = @ + 1]
      /\ UNCHANGED <<redeliver, queue, picked, running, result, executed, crashes>>
  BY DEF ReportFails, AfterFailedReport, BatchAfterReport, Fault
<1>2. Submitted' = Submitted
  BY <1>1, SameQueue
<1>3. InHand(a) /\ a \in batch
  BY <1>1 DEF InHand, Current
<1>4. /\ \A b : ~InHand(b)'
      /\ \A b : InHand(b) => b = a
  BY <1>1, <1>3, CurrentIsUnique DEF InHand
<1>5. \/ UNCHANGED <<stored, late>>
      \/ Store(a, result) /\ UNCHANGED late
      \/ late' = late \cup {<<a, result>>} /\ UNCHANGED stored
  BY DEF ReportFails
<1>6. /\ stored' \in [Actions -> SUBSET Results]
      /\ \A b \in Actions : stored[b] \subseteq stored'[b]
      /\ \A b \in Actions : b # a => stored'[b] = stored[b]
      /\ stored'[a] \subseteq stored[a] \cup {result}
      /\ late' \subseteq late \cup {<<a, result>>}
      /\ late' \subseteq Actions \X Results
  <2>1. CASE UNCHANGED <<stored, late>>
    BY <2>1 DEF TypeOK
  <2>2. CASE Store(a, result) /\ UNCHANGED late
    BY <2>2 DEF TypeOK, Store
  <2>3. CASE late' = late \cup {<<a, result>>} /\ UNCHANGED stored
    BY <2>3 DEF TypeOK
  <2> QED BY <1>5, <2>1, <2>2, <2>3
<1>7. /\ doubtful' \in [Actions -> Nat]
      /\ \A b \in Actions :
            doubtful'[b] = IF b = a THEN doubtful[b] + 1 ELSE doubtful[b]
  BY <1>1 DEF TypeOK
<1>8. TypeOK'
  <2>1. faults' \in 0 .. MaxFaults
    BY <1>1, ConstantsAssumption DEF TypeOK
  <2> QED BY <1>1, <1>6, <1>7, <2>1 DEF TypeOK
<1>9. QueueOK'
  BY <1>1, <1>2 DEF QueueOK
<1>10. Earned'
  <2> SUFFICES ASSUME NEW b \in Actions,
                      "success" \in stored'[b] \/ <<b, "success">> \in late'
               PROVE  executed[b] > 0
    BY <1>1, <1>4 DEF Earned
  <2>1. \/ "success" \in stored[b] \/ <<b, "success">> \in late
        \/ b = a /\ result = "success"
    BY <1>6
  <2> QED BY <1>3, <2>1 DEF Earned
<1>11. ResultsAreDone'
  <2> SUFFICES ASSUME NEW b \in Actions, HasResult(b)' PROVE Done(b)
    BY <1>1 DEF ResultsAreDone, Done, VerifySignature
  <2>1. HasResult(b)
    <3>1. CASE b = a
      BY <1>3, <3>1 DEF HasResult
    <3>2. CASE b # a
      BY <1>4, <1>6, <3>2 DEF HasResult
    <3> QED BY <3>1, <3>2
  <2> QED BY <2>1 DEF ResultsAreDone
<1>12. Paid'
  <2>1. \A b \in Actions : doubtful[b] \in Nat /\ crashes \in Nat
    BY DEF TypeOK
  <2>2. /\ \A b \in Actions : Debt(b)' \in Nat /\ Debt(b) <= Debt(b)'
        /\ redeliver => Debt(a)' = Debt(a) + 1
    BY <1>1, <1>7, <2>1 DEF Debt
  <2>3. \A b \in Actions : MayBeExecuted(b)' => MayBeExecuted(b) \/ (b = a /\ redeliver)
    BY <1>1, <1>3, <1>4, <1>6 DEF MayBeExecuted, QueueOK
  <2> QED BY <1>1, <2>2, <2>3, FaultIsPaid
<1>13. Ordered'
  BY <1>1, <1>3, StillOrdered
<1> QED BY <1>8, <1>9, <1>10, <1>11, <1>12, <1>13

LEMMA CrashStep == IInv /\ Crash => IInv'
<1> USE DEF IInv
<1> SUFFICES ASSUME IInv, Crash PROVE IInv'
  OBVIOUS
<1>1. /\ pc' = "new" /\ running' = FALSE /\ batch' = {} /\ result' = "failure"
      /\ crashes' = crashes + 1 /\ faults < MaxFaults /\ faults' = faults + 1
      /\ UNCHANGED <<redeliver, queue, picked, stored, late, executed, doubtful>>
  BY DEF Crash, Fault, backend
<1>2. Submitted' = Submitted /\ \A b, c : Older(b, c)' <=> Older(b, c)
  BY <1>1, SameQueue
<1>3. \A b : ~InHand(b)'
  BY <1>1 DEF InHand
<1>4. TypeOK'
  <2>1. faults' \in 0 .. MaxFaults
    BY <1>1, ConstantsAssumption DEF TypeOK
  <2>2. crashes' \in Nat /\ result' \in Results
    BY <1>1 DEF TypeOK, Results
  <2> QED BY <1>1, <2>1, <2>2 DEF TypeOK
<1>5. QueueOK'
  BY <1>1, <1>2 DEF QueueOK
<1>6. Earned' /\ ResultsAreDone'
  BY <1>1, <1>3 DEF Earned, ResultsAreDone, HasResult, Done, VerifySignature
<1>7. Paid'
  <2>1. \A b \in Actions : doubtful[b] \in Nat /\ crashes \in Nat
    BY DEF TypeOK
  <2>2. \A b \in Actions :
            /\ Debt(b)' \in Nat /\ Debt(b) <= Debt(b)'
            /\ redeliver => Debt(b)' = Debt(b) + 1
    BY <1>1, <2>1 DEF Debt
  <2>3. CASE \A b \in Actions : MayBeExecuted(b)' => MayBeExecuted(b)
    <3> SUFFICES ASSUME NEW b \in Actions
                 PROVE  /\ executed[b] <= 1 + Debt(b)'
                        /\ MayBeExecuted(b)' => executed[b] <= Debt(b)'
      BY <1>1 DEF Paid
    <3>1. Debt(b) \in Nat /\ Debt(b)' \in Nat /\ Debt(b) <= Debt(b)' /\ executed[b] \in Nat
      BY <2>2, DebtFacts
    <3>2. executed[b] <= 1 + Debt(b) /\ (MayBeExecuted(b) => executed[b] <= Debt(b))
      BY DEF Paid
    <3> QED BY <2>3, <3>1, <3>2
  <2>4. CASE \E a \in Actions : MayBeExecuted(a)' /\ ~MayBeExecuted(a)
    <3>1. PICK a \in Actions : MayBeExecuted(a)' /\ ~MayBeExecuted(a)
      BY <2>4
    <3>2. InHand(a) /\ a \in picked
      BY <1>1, <3>1 DEF MayBeExecuted, InHand, Current, QueueOK
    <3>3. \A b \in Actions : InHand(b) => b = a
      BY <3>2, CurrentIsUnique DEF InHand
    <3>4. \A b \in Actions : MayBeExecuted(b)' => MayBeExecuted(b) \/ (b = a /\ redeliver)
      BY <1>1, <3>2, <3>3 DEF MayBeExecuted
    <3> QED BY <1>1, <2>2, <3>4, FaultIsPaid
  <2> QED BY <2>3, <2>4
<1>8. Ordered'
  BY <1>1, <1>2 DEF Ordered, Done, VerifySignature
<1> QED BY <1>4, <1>5, <1>6, <1>7, <1>8

LEMMA NextIInv == IInv /\ [Next]_vars => IInv'
<1> SUFFICES ASSUME IInv, [Next]_vars PROVE IInv'
  OBVIOUS
<1>0. TypeOK
  BY DEF IInv
<1>1. CASE RunBegin \/ LoopTest \/ BatchDone
  BY <1>0, <1>1, QuietStep DEF RunBegin, LoopTest, BatchDone, TypeOK
<1>2. CASE Stop
  BY <1>0, <1>2, QuietStep DEF Stop, TypeOK
<1>3. CASE UNCHANGED vars
  BY <1>0, <1>3, QuietStep DEF vars, TypeOK
<1>4. CASE Poll \/ PollFails
  BY <1>4, PollStep, PollFailsStep
<1>5. CASE \E a \in Actions :
              Reject(a) \/ Execute(a) \/ ExecuteRaises(a) \/ Report(a) \/ ReportFails(a)
  BY <1>5, RejectStep, ExecuteStep, ExecuteRaisesStep, ReportStep, ReportFailsStep
<1>6. CASE Backend
  BY <1>6, LateReportArrivesStep, SubmitStep DEF Backend
<1>7. CASE Crash
  BY <1>7, CrashStep
<1> QED BY <1>1, <1>2, <1>3, <1>4, <1>5, <1>6, <1>7 DEF Next, Actuator

LEMMA Invariance == Spec => []IInv
BY InitIInv, NextIInv, PTL DEF Spec

-----------------------------------------------------------------------------
(***************************************************************************)
(* The theorems                                                            *)
(***************************************************************************)

\* The variables of the actuator (ActionActuator) and of the queue it polls keep
\* their types.
THEOREM TypeCorrect == Spec => []TypeOK
<1>1. IInv => TypeOK
  BY DEF IInv
<1> QED BY <1>1, Invariance, PTL

\* However reports are lost or late and the process crashes, a stored "success"
\* is the result of an execution of that very action (run, report_action_result).
THEOREM SuccessesAreEarned == Spec => []SuccessIsEarned
<1>1. IInv => SuccessIsEarned
  BY DEF IInv, Earned, SuccessIsEarned
<1> QED BY <1>1, Invariance, PTL

\* Repeated executions never outnumber the lost reports of the action and the
\* crashes, and with a backend that hands an action out once there are none.
THEOREM RepetitionsArePaid == Spec => []ExecutionsPaid
<1>1. IInv => ExecutionsPaid
  <2> SUFFICES ASSUME IInv, NEW a \in Actions
               PROVE  executed[a] <= 1 + (IF redeliver THEN doubtful[a] + crashes ELSE 0)
    BY DEF ExecutionsPaid
  <2>1. executed[a] <= 1 + Debt(a)
    BY DEF IInv, Paid
  <2> QED BY <2>1 DEF Debt
<1> QED BY <1>1, Invariance, PTL

\* The loop over a batch never overtakes an action that could be executed, not
\* even by way of rejections, crashes and later polls.
THEOREM QueueIsServedInOrder == Spec => []ExecutedInOrder
<1>1. IInv => ExecutedInOrder
  BY DEF IInv, Ordered, Done, ExecutedInOrder
<1> QED BY <1>1, Invariance, PTL

NothingExecuted == \A a \in Actions : executed[a] = 0

\* A signer that leaves the signature out of what it signs never gets an action
\* executed: verify_signature computes the HMAC over the whole action.
THEOREM SignatureOverOtherFieldsIsRejected ==
    ASSUME SignedFields # VerifiedFields
    PROVE  Spec => []NothingExecuted
<1>1. Init => NothingExecuted
  BY DEF Init, NothingExecuted
<1>2. NothingExecuted /\ [Next]_vars => NothingExecuted'
  <2> SUFFICES ASSUME NothingExecuted, [Next]_vars PROVE executed' = executed
    BY DEF NothingExecuted
  <2>1. \A a : ~Execute(a)
    BY DEF Execute, VerifySignature
  <2> QED BY <2>1 DEF Next, vars, history, Backend, LateReportArrives, Submit,
                     Actuator, RunBegin, LoopTest, Poll, PollFails, BatchDone,
                     Reject, ExecuteRaises, Report, ReportFails, Stop, Crash
<1> QED BY <1>1, <1>2, PTL DEF Spec
=============================================================================
