------------------------- MODULE WebSocketClientProofs -------------------------
(***************************************************************************)
(* Proofs about WebSocketClient for every size of the buffer, any number   *)
(* of attempts, of receive loops, of messages and of outages.              *)
(*                                                                         *)
(* A message changes its place (buffer, rest of a flush, connection) in a  *)
(* step of one coroutine.  What could forget it is a flush that begins     *)
(* while another has not ended: the coroutine of run() is the only one to  *)
(* flush, and leaves a flush only when its list is empty.                  *)
(***************************************************************************)
EXTENDS WebSocketClient, FiniteSetTheorems, TLAPS

Handling == {u \in Tasks : task[u] = "handle"}

\* The parts of TypeOK that do not bear on each other.
FlagsOK == up \in BOOLEAN /\ {running, first} \subseteq BOOLEAN

PlacesOK ==
    /\ conn \in {"none", "open", "closing", "closed"}
    /\ stopped \in {"no", "closing", "done"}
    /\ loop \in {"ended", "connect", "flush", "test", "wait", "leaving"}
    /\ task \in [Tasks -> {"none", "test", "sleep", "recv", "stale", "handle"}]

ShapeOK == FlagsOK /\ PlacesOK /\ outages \in 0 .. MaxOutages

MessagesOK ==
    /\ sent \subseteq Messages /\ dropped \subseteq Messages
    /\ buffer \in Seq(Messages) /\ Len(buffer) <= MaxBuffer
    /\ flushing \in Seq(Messages)

\* Every message being handled has room for its answer.
ProducedOK ==
    /\ produced \in Nat
    /\ produced + Cardinality(Handling) <= MaxMessages

\* A reconnection is tried only while an attempt is left.
AttemptsOK ==
    /\ attempts \in 0 .. MaxAttempts
    /\ loop = "connect" /\ ~first => attempts < MaxAttempts

\* Only a flush has something left to flush.
OneFlush == flushing # <<>> => loop = "flush"

IInv ==
    /\ ShapeOK /\ MessagesOK /\ ProducedOK /\ AttemptsOK /\ OneFlush
    /\ NothingForgotten

-----------------------------------------------------------------------------
(***************************************************************************)
(* Sequences as sets of messages                                           *)
(***************************************************************************)

LEMMA ElementsOfEmpty == Elements(<<>>) = {}
BY DEF Elements

LEMMA ElementsOfAppend ==
    ASSUME NEW S, NEW s \in Seq(S), NEW m \in S
    PROVE  Elements(Append(s, m)) = Elements(s) \cup {m}
<1> DEFINE a == Append(s, m)
<1>1. Len(a) = Len(s) + 1 /\ Len(s) \in Nat
    OBVIOUS
<1>2. a[Len(s) + 1] = m /\ \A i \in 1 .. Len(s) : a[i] = s[i]
    OBVIOUS
<1>3. 1 .. Len(a) = (1 .. Len(s)) \cup {Len(s) + 1}
    BY <1>1
<1> HIDE DEF a
<1>4. Elements(a) = Elements(s) \cup {m}
    BY <1>1, <1>2, <1>3 DEF Elements
<1> QED BY <1>4 DEF a

LEMMA ElementsOfRest ==
    ASSUME NEW S, NEW s \in Seq(S), s # <<>>
    PROVE  Elements(s) \subseteq {Head(s)} \cup Elements(Tail(s))
<1> SUFFICES ASSUME NEW i \in 1 .. Len(s)
             PROVE  s[i] \in {Head(s)} \cup Elements(Tail(s))
    BY DEF Elements
<1>1. CASE i = 1
    BY <1>1
<1>2. CASE i # 1
    <2>1. i - 1 \in 1 .. Len(Tail(s)) /\ Tail(s)[i - 1] = s[i]
        BY <1>2
    <2> QED BY <2>1 DEF Elements
<1> QED BY <1>1, <1>2

-----------------------------------------------------------------------------
(***************************************************************************)
(* What the steps have in common                                           *)
(***************************************************************************)

LEMMA HandlingIsFinite == IsFiniteSet(Handling) /\ Cardinality(Handling) \in Nat
BY FS_Subset, FS_CardinalityType, ConstantsAssumption DEF Handling

\* A step after which no more messages are being handled.
LEMMA ProducedStays ==
    ASSUME ProducedOK, produced' = produced, Handling' \subseteq Handling
    PROVE  ProducedOK'
<1>1. Cardinality(Handling') <= Cardinality(Handling)
    BY FS_Subset, HandlingIsFinite
<1>2. Cardinality(Handling') \in Nat
    BY FS_Subset, FS_CardinalityType, HandlingIsFinite
<1> QED BY <1>1, <1>2, HandlingIsFinite, ConstantsAssumption DEF ProducedOK

LEMMA ProducedIsMessage ==
    ASSUME ProducedOK PROVE produced \in Messages
BY HandlingIsFinite, ConstantsAssumption DEF ProducedOK, Messages

\* A message that is sent is kept, and nothing else is lost.
LEMMA SendKeeps ==
    ASSUME MessagesOK, NEW m \in Messages, Send(m)
    PROVE  /\ sent' \subseteq Messages /\ dropped' \subseteq Messages
           /\ buffer' \in Seq(Messages) /\ Len(buffer') <= MaxBuffer
           /\ {m} \cup sent \cup Elements(buffer) \cup dropped
                \subseteq sent' \cup Elements(buffer') \cup dropped'
<1>1. CASE Buffer(m) /\ (sent' \in {sent, sent \cup {m}})
    <2>1. CASE Len(buffer) < MaxBuffer /\ buffer' = Append(buffer, m) /\ dropped' = dropped
        <3>1. Elements(buffer') = Elements(buffer) \cup {m}
            BY <2>1, ElementsOfAppend DEF MessagesOK
        <3>2. buffer' \in Seq(Messages) /\ Len(buffer') = Len(buffer) + 1
            BY <2>1 DEF MessagesOK
        <3>3. Len(buffer') <= MaxBuffer
            BY <3>2, <2>1, ConstantsAssumption DEF MessagesOK
        <3> QED BY <1>1, <2>1, <3>1, <3>2, <3>3 DEF MessagesOK
    <2>2. CASE dropped' = dropped \cup {m} /\ buffer' = buffer
        BY <1>1, <2>2 DEF MessagesOK
    <2> QED BY <1>1, <2>1, <2>2 DEF Buffer
<1>2. CASE sent' = sent \cup {m} /\ buffer' = buffer /\ dropped' = dropped
    BY <1>2 DEF MessagesOK
<1> QED BY <1>1, <1>2 DEF Send

\* A step that touches no message.
LEMMA NothingMoves ==
    ASSUME MessagesOK, NothingForgotten,
           UNCHANGED <<sent, buffer, flushing, produced, dropped>>
    PROVE  MessagesOK' /\ NothingForgotten'
BY DEF MessagesOK, NothingForgotten

-----------------------------------------------------------------------------
(***************************************************************************)
(* The steps                                                               *)
(***************************************************************************)

LEMMA InitIInv == Init => IInv
<1> SUFFICES ASSUME Init PROVE IInv
    OBVIOUS
<1>1. ShapeOK
    <2>1. FlagsOK
        BY DEF Init, FlagsOK
    <2>2. PlacesOK
        BY DEF Init, PlacesOK
    <2>3. outages \in 0 .. MaxOutages
        BY ConstantsAssumption DEF Init
    <2> QED BY <2>1, <2>2, <2>3 DEF ShapeOK
<1>2. MessagesOK
    BY ConstantsAssumption DEF Init, MessagesOK
<1>3. ProducedOK
    <2>1. Handling = {}
        BY DEF Init, Handling
    <2> QED BY <2>1, FS_EmptySet, ConstantsAssumption DEF Init, ProducedOK
<1>4. AttemptsOK /\ OneFlush
    BY ConstantsAssumption DEF Init, AttemptsOK, OneFlush
<1>5. NothingForgotten
    BY DEF Init, NothingForgotten
<1> QED BY <1>1, <1>2, <1>3, <1>4, <1>5 DEF IInv

\* The network, and a coroutine that only changes its place.
Quiet ==
    \/ GoDown \/ ComeUp \/ Drop \/ Break \/ Closed
    \/ RunBegin \/ ConnectFails \/ LoopTest \/ Wait \/ Leave
    \/ StopDisconnects \/ Hangup
    \/ \E t \in Tasks : ReceiveTest(t) \/ ReceiveWakes(t) \/ ReceiveBreaks(t)

LEMMA QuietStep == IInv /\ Quiet => IInv'
<1> SUFFICES ASSUME IInv, Quiet PROVE IInv'
    OBVIOUS
<1> USE DEF IInv
<1>1. UNCHANGED <<sent, buffer, flushing, produced, dropped>>
    BY DEF Quiet, GoDown, ComeUp, Drop, Break, Closed, RunBegin, ConnectFails,
        LoopTest, Wait, Leave, StopDisconnects, Hangup, ReceiveTest,
        ReceiveWakes, ReceiveBreaks, env
<1>2. MessagesOK' /\ NothingForgotten'
    BY <1>1, NothingMoves
<1>3. Handling' \subseteq Handling
    BY DEF Handling, ShapeOK, PlacesOK, Quiet, GoDown, ComeUp, Drop, Break, Closed,
        RunBegin, ConnectFails, LoopTest, Wait, Leave, StopDisconnects, Hangup,
        ReceiveTest, ReceiveWakes, ReceiveBreaks, Cut, Go
<1>4. ProducedOK'
    BY <1>1, <1>3, ProducedStays
<1>5. ShapeOK'
    <2>1. FlagsOK'
        BY DEF ShapeOK, FlagsOK, GoDown, ComeUp, Drop, Break,
            Quiet, Closed, RunBegin, ConnectFails, LoopTest, Wait, Leave,
            StopDisconnects, Hangup, ReceiveTest, ReceiveWakes, ReceiveBreaks,
            Cut, Go, env
    <2>2. PlacesOK'
        BY DEF ShapeOK, PlacesOK, GoDown, ComeUp, Drop, Break,
            Quiet, Closed, RunBegin, ConnectFails, LoopTest, Wait, Leave,
            StopDisconnects, Hangup, ReceiveTest, ReceiveWakes, ReceiveBreaks,
            Cut, Go, env
    <2>3. (outages \in 0 .. MaxOutages)'
        BY ConstantsAssumption DEF ShapeOK, GoDown, ComeUp, Drop, Break,
            Quiet, Closed, RunBegin, ConnectFails, LoopTest, Wait, Leave,
            StopDisconnects, Hangup, ReceiveTest, ReceiveWakes, ReceiveBreaks,
            Cut, Go, env
    <2> QED BY <2>1, <2>2, <2>3 DEF ShapeOK
<1>6. AttemptsOK'
    BY ConstantsAssumption DEF AttemptsOK, ShapeOK, FlagsOK, Quiet, GoDown, ComeUp, Drop,
        Break, Closed, RunBegin, ConnectFails, LoopTest, MayTryAgain, Wait,
        Leave, StopDisconnects, Hangup, ReceiveTest, ReceiveWakes,
        ReceiveBreaks
<1>7. OneFlush'
    BY DEF OneFlush, Quiet, GoDown, ComeUp, Drop, Break, Closed, RunBegin,
        ConnectFails, LoopTest, Wait, Leave, StopDisconnects, Hangup,
        ReceiveTest, ReceiveWakes, ReceiveBreaks
<1> QED BY <1>2, <1>4, <1>5, <1>6, <1>7

\* The buffer becomes the list of the flush: the list of the last flush is empty.
LEMMA ConnectSucceedsStep == IInv /\ ConnectSucceeds => IInv'
<1> SUFFICES ASSUME IInv, ConnectSucceeds PROVE IInv'
    OBVIOUS
<1> USE DEF IInv, ConnectSucceeds, TakeBuffer
<1>1. flushing = <<>> /\ flushing' = buffer /\ buffer' = <<>>
    BY DEF OneFlush
<1>2. NothingForgotten'
    BY <1>1, ElementsOfEmpty DEF NothingForgotten
<1>3. MessagesOK'
    BY <1>1, ConstantsAssumption DEF MessagesOK
<1>4. ProducedOK'
    BY ProducedStays DEF Handling
<1>5. ShapeOK'
    BY DEF ShapeOK, FlagsOK, PlacesOK, env
<1>6. AttemptsOK' /\ OneFlush'
    BY ConstantsAssumption DEF AttemptsOK, OneFlush
<1> QED BY <1>2, <1>3, <1>4, <1>5, <1>6

LEMMA FlushOneStep == IInv /\ FlushOne => IInv'
<1> SUFFICES ASSUME IInv, FlushOne PROVE IInv'
    OBVIOUS
<1> USE DEF IInv, FlushOne
<1>1. Head(flushing) \in Messages /\ Tail(flushing) \in Seq(Messages)
    BY DEF MessagesOK
<1>2. /\ sent' \subseteq Messages /\ dropped' \subseteq Messages
      /\ buffer' \in Seq(Messages) /\ Len(buffer') <= MaxBuffer
      /\ {Head(flushing)} \cup sent \cup Elements(buffer) \cup dropped
           \subseteq sent' \cup Elements(buffer') \cup dropped'
    BY <1>1, SendKeeps
<1>3. MessagesOK'
    BY <1>1, <1>2 DEF MessagesOK
<1>4. Elements(flushing) \subseteq {Head(flushing)} \cup Elements(flushing')
    BY ElementsOfRest DEF MessagesOK
<1>5. NothingForgotten'
    BY <1>2, <1>4 DEF NothingForgotten
<1>6. ProducedOK'
    BY ProducedStays DEF Handling
<1>7. ShapeOK' /\ AttemptsOK' /\ OneFlush'
    BY DEF ShapeOK, FlagsOK, PlacesOK, AttemptsOK, OneFlush, env
<1> QED BY <1>3, <1>5, <1>6, <1>7

\* The flush is left with an empty list.
LEMMA FlushDoneStep == IInv /\ FlushDone => IInv'
<1> SUFFICES ASSUME IInv, FlushDone PROVE IInv'
    OBVIOUS
<1> USE DEF IInv, FlushDone, StartReceiver
<1>1. MessagesOK' /\ NothingForgotten'
    BY NothingMoves
<1>2. Handling' \subseteq Handling
    BY DEF Handling, ShapeOK, PlacesOK
<1>3. ProducedOK'
    BY <1>2, ProducedStays
<1>4. ShapeOK'
    BY ConstantsAssumption DEF ShapeOK, FlagsOK, PlacesOK, env
<1>5. AttemptsOK' /\ OneFlush'
    BY DEF AttemptsOK, OneFlush
<1> QED BY <1>1, <1>3, <1>4, <1>5

\* There is room for the answer to one more message.
LEMMA ReceiveStep == ASSUME NEW t \in Tasks PROVE IInv /\ Receive(t) => IInv'
<1> SUFFICES ASSUME IInv, Receive(t) PROVE IInv'
    OBVIOUS
<1> USE DEF IInv, Receive, Go
<1>1. MessagesOK' /\ NothingForgotten'
    BY NothingMoves
<1>2. ShapeOK' /\ AttemptsOK' /\ OneFlush'
    BY DEF ShapeOK, FlagsOK, PlacesOK, AttemptsOK, OneFlush, env
<1>3. Handling' = Handling \cup {t} /\ t \notin Handling
    BY DEF Handling, ShapeOK, PlacesOK
<1>4. Cardinality(Handling') = Cardinality(Handling) + 1
    BY <1>3, FS_AddElement, HandlingIsFinite
<1>5. produced + Cardinality(Handling) < MaxMessages
    BY DEF Handling
<1>6. ProducedOK'
    BY <1>4, <1>5, HandlingIsFinite, ConstantsAssumption DEF ProducedOK
<1> QED BY <1>1, <1>2, <1>6

LEMMA AnswerStep == ASSUME NEW t \in Tasks PROVE IInv /\ Answer(t) => IInv'
<1> SUFFICES ASSUME IInv, Answer(t) PROVE IInv'
    OBVIOUS
<1> USE DEF IInv, Answer, Go
<1>1. Handling' = Handling \ {t} /\ t \in Handling
    BY DEF Handling, ShapeOK, PlacesOK
<1>2. Cardinality(Handling') = Cardinality(Handling) - 1
    BY <1>1, FS_RemoveElement, HandlingIsFinite
<1>3. ProducedOK'
    BY <1>2, HandlingIsFinite, ConstantsAssumption DEF ProducedOK
<1>4. produced' \in Messages
    <2>1. Cardinality(Handling') \in Nat
        BY <1>1, FS_RemoveElement, FS_CardinalityType, HandlingIsFinite
    <2> QED BY <1>3, <2>1, ConstantsAssumption DEF ProducedOK, Messages
<1>5. /\ sent' \subseteq Messages /\ dropped' \subseteq Messages
      /\ buffer' \in Seq(Messages) /\ Len(buffer') <= MaxBuffer
      /\ {produced'} \cup sent \cup Elements(buffer) \cup dropped
           \subseteq sent' \cup Elements(buffer') \cup dropped'
    BY <1>4, SendKeeps
<1>6. MessagesOK'
    BY <1>5 DEF MessagesOK
<1>7. 1 .. produced' = (1 .. produced) \cup {produced'}
    BY DEF ProducedOK
<1>8. NothingForgotten'
    BY <1>5, <1>7 DEF NothingForgotten
<1>9. ShapeOK' /\ AttemptsOK' /\ OneFlush'
    BY DEF ShapeOK, FlagsOK, PlacesOK, AttemptsOK, OneFlush, env
<1> QED BY <1>3, <1>6, <1>8, <1>9

LEMMA StopStep == IInv /\ Stop => IInv'
<1> SUFFICES ASSUME IInv, Stop PROVE IInv'
    OBVIOUS
<1> USE DEF IInv, Stop
<1>1. 0 \in Messages
    BY ConstantsAssumption DEF Messages
<1>2. /\ sent' \subseteq Messages /\ dropped' \subseteq Messages
      /\ buffer' \in Seq(Messages) /\ Len(buffer') <= MaxBuffer
      /\ sent \cup Elements(buffer) \cup dropped
           \subseteq sent' \cup Elements(buffer') \cup dropped'
    BY <1>1, SendKeeps
<1>3. MessagesOK' /\ NothingForgotten'
    BY <1>2 DEF MessagesOK, NothingForgotten
<1>4. ProducedOK'
    BY ProducedStays DEF Handling
<1>5. ShapeOK' /\ AttemptsOK' /\ OneFlush'
    BY DEF ShapeOK, FlagsOK, PlacesOK, AttemptsOK, OneFlush, env
<1> QED BY <1>3, <1>4, <1>5

LEMMA NextIInv == IInv /\ [Next]_vars => IInv'
<1> SUFFICES ASSUME IInv, [Next]_vars PROVE IInv'
    OBVIOUS
<1>1. CASE Quiet
    BY <1>1, QuietStep
<1>2. CASE ConnectSucceeds
    BY <1>2, ConnectSucceedsStep
<1>3. CASE FlushOne
    BY <1>3, FlushOneStep
<1>4. CASE FlushDone
    BY <1>4, FlushDoneStep
<1>5. CASE Stop
    BY <1>5, StopStep
<1>6. ASSUME NEW t \in Tasks, Receive(t) PROVE IInv'
    BY <1>6, ReceiveStep
<1>7. ASSUME NEW t \in Tasks, Answer(t) PROVE IInv'
    BY <1>7, AnswerStep
<1>8. CASE UNCHANGED vars
    <2>1. Handling' = Handling
        BY <1>8 DEF vars, Handling
    <2> QED BY <1>8, <2>1, ProducedStays
        DEF vars, env, IInv, ShapeOK, FlagsOK, PlacesOK, MessagesOK, AttemptsOK,
            OneFlush, NothingForgotten
<1> QED
    BY <1>1, <1>2, <1>3, <1>4, <1>5, <1>6, <1>7, <1>8
    DEF Next, Reconnect, ReceiveLoop, Quiet

LEMMA Invariance == Spec => []IInv
BY InitIInv, NextIInv, PTL DEF Spec

-----------------------------------------------------------------------------
(***************************************************************************)
(* The theorems                                                            *)
(***************************************************************************)

\* The variables of the client keep their types: the buffer stays within its
\* size and the attempts within their limit (__init__ and reconnect_loop).
THEOREM TypeCorrect == Spec => []TypeOK
<1>1. IInv => TypeOK
    <2> SUFFICES ASSUME IInv PROVE TypeOK
        OBVIOUS
    <2>1. produced \in 0 .. MaxMessages
        BY ProducedIsMessage DEF IInv, Messages
    <2> QED BY <2>1 DEF IInv, ShapeOK, FlagsOK, PlacesOK, MessagesOK, AttemptsOK, TypeOK
<1> QED BY <1>1, Invariance, PTL

\* No answer written by send_message is forgotten by the buffer, the flush or a
\* reconnection: it was handed to a connection, waits, or was dropped because
\* the buffer was full, for every size of the buffer and any number of loops.
THEOREM AnswersAreKept == Spec => []NothingForgotten
BY Invariance, PTL DEF IInv
=============================================================================
