---------------------------- MODULE WebSocketClient ----------------------------
(***************************************************************************)
(* agent/websocket_client.py: the coroutines of the WebSocket thread.  The *)
(* coroutine of run() connects, starts the first receive_loop and becomes  *)
(* the reconnect_loop, which connects again, flushes the buffer and starts *)
(* another receive_loop whenever the connection is closed.  A receive_loop *)
(* outlives the connection it read from when it was busy or asleep at the  *)
(* wrong moment, so several can be alive.  Every step is what a coroutine  *)
(* does between two awaits.                                                *)
(*                                                                         *)
(* The websockets library is external: a second recv() on a connection     *)
(* raises, a send on a connection that is closing raises, and `closed' is  *)
(* true when the closing is over.  agent/main.py starts the thread again   *)
(* when it has ended.                                                      *)
(***************************************************************************)
EXTENDS Naturals, Sequences, FiniteSets

CONSTANTS
    MaxBuffer,    \* max_buffer_size
    MaxAttempts,  \* max_reconnect_attempts
    Tasks,        \* receive_loop tasks; a bound on those alive at a time
    First,        \* the one run() starts and waits for
    MaxMessages,  \* bound: messages the backend sends
    MaxOutages    \* bound: times the backend or a connection goes away

ASSUME ConstantsAssumption ==
    /\ {MaxBuffer, MaxAttempts, MaxMessages, MaxOutages} \subseteq Nat
    /\ MaxAttempts > 0
    /\ First \in Tasks /\ IsFiniteSet(Tasks)

VARIABLES
    \* the backend and the connection
    up, outages,
    conn,      \* self.websocket
    sent,      \* messages handed to a connection
    \* the client
    running,   \* self.running
    stopped,   \* stop(): "no", "closing" before disconnect() or "done"
    loop,      \* where the coroutine of run() and reconnect_loop is
    first,     \* it is making the initial connection
    attempts,  \* reconnect_attempts
    buffer,    \* message_buffer
    flushing,  \* the rest of messages_to_send in flush_buffer
    task,      \* where each receive_loop is
    produced,  \* number of answers written so far
    dropped    \* messages dropped because the buffer was full

env == <<up, outages>>
vars == <<env, conn, sent, running, stopped, loop, first, attempts, buffer,
          flushing, task, produced, dropped>>

\* 0 is the message that stop() sends.
Messages == 0 .. MaxMessages

Init ==
    /\ up \in BOOLEAN /\ outages = 0
    /\ conn = "none" /\ sent = {}
    /\ running = FALSE /\ stopped = "no"
    /\ loop = "ended" /\ first = FALSE /\ attempts = 0
    /\ buffer = <<>> /\ flushing = <<>>
    /\ task = [t \in Tasks |-> "none"]
    /\ produced = 0 /\ dropped = {}

\* `not self.websocket or self.websocket.closed'
Disconnected == conn \in {"none", "closed"}

-----------------------------------------------------------------------------
\* The backend and the network

GoDown ==
    /\ up /\ outages < MaxOutages
    /\ up' = FALSE /\ outages' = outages + 1
    /\ UNCHANGED <<conn, sent, running, stopped, loop, first, attempts, buffer,
                   flushing, task, produced, dropped>>

ComeUp ==
    /\ ~up /\ up' = TRUE
    /\ UNCHANGED <<outages, conn, sent, running, stopped, loop, first, attempts,
                   buffer, flushing, task, produced, dropped>>

\* The closing of a connection begins: by accident ...
Drop ==
    /\ conn = "open" /\ up /\ outages < MaxOutages
    /\ conn' = "closing" /\ outages' = outages + 1
    /\ UNCHANGED <<up, sent, running, stopped, loop, first, attempts, buffer,
                   flushing, task, produced, dropped>>

\* ... or because the backend has gone, by a missed pong at the latest.
Break ==
    /\ conn = "open" /\ ~up
    /\ conn' = "closing"
    /\ UNCHANGED <<env, sent, running, stopped, loop, first, attempts, buffer,
                   flushing, task, produced, dropped>>

\* Whoever is in recv() on the connection has a ConnectionClosed coming.
Cut == task' = [t \in Tasks |-> IF task[t] = "recv" THEN "stale" ELSE task[t]]

Closed ==
    /\ conn = "closing"
    /\ conn' = "closed"
    /\ Cut
    /\ UNCHANGED <<env, sent, running, stopped, loop, first, attempts, buffer,
                   flushing, produced, dropped>>

-----------------------------------------------------------------------------
\* send_message and its buffer

Buffer(m) ==
    \/ /\ Len(buffer) < MaxBuffer
       /\ buffer' = Append(buffer, m)
       /\ UNCHANGED dropped
    \/ /\ Len(buffer) >= MaxBuffer
       /\ dropped' = dropped \cup {m}
       /\ UNCHANGED buffer

\* Mutant: a message whose send raised is forgotten.
SendMutant(m) ==
    \/ conn = "open" /\ sent' = sent \cup {m} /\ UNCHANGED <<buffer, dropped>>
    \/ conn = "closing" /\ UNCHANGED <<sent, buffer, dropped>>
    \/ Disconnected /\ Buffer(m) /\ UNCHANGED sent

\* A send that raises may have put the message on the wire.
Send(m) ==
    \/ conn = "open" /\ sent' = sent \cup {m} /\ UNCHANGED <<buffer, dropped>>
    \/ conn = "closing" /\ sent' \in {sent, sent \cup {m}} /\ Buffer(m)
    \/ Disconnected /\ Buffer(m) /\ UNCHANGED sent

-----------------------------------------------------------------------------
\* run() and reconnect_loop

\* The thread starts, or agent/main.py starts it again.
RunBegin ==
    /\ loop = "ended" /\ stopped = "no"
    /\ running' = TRUE
    /\ loop' = "connect" /\ first' = TRUE
    /\ UNCHANGED <<env, conn, sent, stopped, attempts, buffer, flushing, task,
                   produced, dropped>>

\* Mutant: the buffer is not flushed.
TakeBufferMutant == flushing' = <<>> /\ UNCHANGED buffer

TakeBuffer == flushing' = buffer /\ buffer' = <<>>

ConnectSucceeds ==
    /\ loop = "connect" /\ up
    /\ conn' = "open"
    /\ attempts' = 0
    /\ TakeBuffer
    /\ loop' = "flush"
    /\ UNCHANGED <<env, sent, running, stopped, first, task, produced, dropped>>

\* After a failed reconnection comes the backoff, after a failed initial
\* connection the end of run().
ConnectFails ==
    /\ loop = "connect" /\ ~up
    /\ \/ first /\ loop' = "leaving" /\ UNCHANGED attempts
       \/ ~first /\ loop' = "wait" /\ attempts' = attempts + 1
    /\ UNCHANGED <<env, conn, sent, running, stopped, first, buffer, flushing,
                   task, produced, dropped>>

FlushOne ==
    /\ loop = "flush" /\ flushing # <<>>
    /\ Send(Head(flushing))
    /\ flushing' = Tail(flushing)
    /\ UNCHANGED <<env, conn, running, stopped, loop, first, attempts, task,
                   produced>>

\* Mutant: the receive_loop that run() started is expected to carry on.
StartReceiverMutant ==
    IF first THEN task' = [task EXCEPT ![First] = "test"] ELSE UNCHANGED task

\* A new receive_loop.  (If Tasks are all alive it would be one more of them.)
StartReceiver ==
    IF first THEN task' = [task EXCEPT ![First] = "test"]
    ELSE \/ \E t \in Tasks \ {First} :
                task[t] = "none" /\ task' = [task EXCEPT ![t] = "test"]
         \/ (\A t \in Tasks \ {First} : task[t] # "none") /\ UNCHANGED task

FlushDone ==
    /\ loop = "flush" /\ flushing = <<>>
    /\ StartReceiver
    /\ first' = FALSE
    /\ loop' = IF first THEN "test" ELSE "wait"
    /\ UNCHANGED <<env, conn, sent, running, stopped, attempts, buffer,
                   flushing, produced, dropped>>

\* Mutant: a loop that never ends.
StillRunningMutant == TRUE

StillRunning == running

MayTryAgain == attempts < MaxAttempts

LoopTest ==
    /\ loop = "test"
    /\ \/ ~StillRunning /\ loop' = "leaving" /\ UNCHANGED running
       \/ StillRunning /\ ~Disconnected /\ loop' = "wait" /\ UNCHANGED running
       \/ /\ StillRunning /\ Disconnected /\ MayTryAgain
          /\ loop' = "connect" /\ UNCHANGED running
       \/ /\ StillRunning /\ Disconnected /\ ~MayTryAgain
          /\ loop' = "leaving" /\ running' = FALSE
    /\ UNCHANGED <<env, conn, sent, stopped, first, attempts, buffer, flushing,
                   task, produced, dropped>>

Wait ==
    /\ loop = "wait"
    /\ loop' = "test"
    /\ UNCHANGED <<env, conn, sent, running, stopped, first, attempts, buffer,
                   flushing, task, produced, dropped>>

\* gather() has its two results; the other tasks end with the event loop.
Leave ==
    /\ loop = "leaving" /\ task[First] = "none"
    /\ loop' = "ended"
    /\ task' = [t \in Tasks |-> "none"]
    /\ UNCHANGED <<env, conn, sent, running, stopped, first, attempts, buffer,
                   flushing, produced, dropped>>

-----------------------------------------------------------------------------
\* receive_loop

Go(t, from, to) == task[t] = from /\ task' = [task EXCEPT ![t] = to]

ReceiveTest(t) ==
    /\ \/ ~StillRunning /\ Go(t, "test", "none")
       \/ StillRunning /\ Disconnected /\ Go(t, "test", "sleep")
       \/ /\ StillRunning /\ ~Disconnected
          /\ \/ (\A u \in Tasks : task[u] # "recv") /\ Go(t, "test", "recv")
             \/ (\E u \in Tasks : task[u] = "recv") /\ Go(t, "test", "none")
    /\ UNCHANGED <<env, conn, sent, running, stopped, loop, first, attempts,
                   buffer, flushing, produced, dropped>>

ReceiveWakes(t) ==
    /\ Go(t, "sleep", "test")
    /\ UNCHANGED <<env, conn, sent, running, stopped, loop, first, attempts,
                   buffer, flushing, produced, dropped>>

\* ConnectionClosed: the loop breaks.
ReceiveBreaks(t) ==
    /\ Go(t, "stale", "none")
    /\ UNCHANGED <<env, conn, sent, running, stopped, loop, first, attempts,
                   buffer, flushing, produced, dropped>>

Receive(t) ==
    /\ conn = "open" /\ up
    /\ produced + Cardinality({u \in Tasks : task[u] = "handle"}) < MaxMessages
    /\ Go(t, "recv", "handle")
    /\ UNCHANGED <<env, conn, sent, running, stopped, loop, first, attempts,
                   buffer, flushing, produced, dropped>>

\* handle_action_command, handle_ping: the answer, after any wait.
Answer(t) ==
    /\ Go(t, "handle", "test")
    /\ produced' = produced + 1
    /\ Send(produced')
    /\ UNCHANGED <<env, conn, running, stopped, loop, first, attempts,
                   flushing>>

-----------------------------------------------------------------------------
\* stop(), called by the main thread

Stop ==
    /\ stopped = "no" /\ running
    /\ stopped' = "closing" /\ running' = FALSE
    /\ Send(0)
    /\ UNCHANGED <<env, conn, loop, first, attempts, flushing, task, produced>>

\* disconnect().  The close is awaited in another event loop than the one of
\* the connection, which ends when the backend answers the close frame.
StopDisconnects ==
    /\ stopped = "closing"
    /\ stopped' = "done"
    /\ conn' = "none"
    /\ UNCHANGED <<env, sent, running, loop, first, attempts, buffer, flushing,
                   task, produced, dropped>>

Hangup ==
    /\ stopped = "done"
    /\ \E t \in Tasks : task[t] = "recv"
    /\ Cut
    /\ UNCHANGED <<env, conn, sent, running, stopped, loop, first, attempts,
                   buffer, flushing, produced, dropped>>

Reconnect ==
    \/ RunBegin \/ ConnectSucceeds \/ ConnectFails \/ FlushOne \/ FlushDone
    \/ LoopTest \/ Wait \/ Leave

ReceiveLoop(t) ==
    \/ ReceiveTest(t) \/ ReceiveWakes(t) \/ ReceiveBreaks(t) \/ Answer(t)

Next ==
    \/ GoDown \/ ComeUp \/ Drop \/ Break \/ Closed
    \/ Reconnect \/ Stop \/ StopDisconnects \/ Hangup
    \/ \E t \in Tasks : ReceiveLoop(t) \/ Receive(t)

Spec == Init /\ [][Next]_vars

\* Every coroutine is scheduled; keepalive pings find a backend that is gone;
\* closing handshakes and calls of the main thread end.
Fairness ==
    /\ WF_vars(Reconnect) /\ WF_vars(Break) /\ WF_vars(Closed)
    /\ WF_vars(StopDisconnects) /\ WF_vars(Hangup)
    /\ \A t \in Tasks : WF_vars(ReceiveLoop(t))

FairSpec == Spec /\ Fairness
-----------------------------------------------------------------------------
TypeOK ==
    /\ up \in BOOLEAN /\ outages \in 0 .. MaxOutages
    /\ conn \in {"none", "open", "closing", "closed"}
    /\ sent \subseteq Messages /\ dropped \subseteq Messages
    /\ {running, first} \subseteq BOOLEAN
    /\ stopped \in {"no", "closing", "done"}
    /\ loop \in {"ended", "connect", "flush", "test", "wait", "leaving"}
    /\ attempts \in 0 .. MaxAttempts
    /\ buffer \in Seq(Messages) /\ Len(buffer) <= MaxBuffer
    /\ flushing \in Seq(Messages)
    /\ task \in [Tasks -> {"none", "test", "sleep", "recv", "stale", "handle"}]
    /\ produced \in 0 .. MaxMessages

Elements(s) == {s[i] : i \in 1 .. Len(s)}

\* An answer is never forgotten: it was handed to a connection, waits to be, or
\* was dropped because the buffer was full.
NothingForgotten ==
    \A m \in 1 .. produced :
        m \in sent \cup Elements(buffer) \cup Elements(flushing) \cup dropped

\* If the backend stays, a client that is not stopped ends up with a connection
\* and a loop that reads it, even if it has used up its attempts meanwhile.
Reconnects ==
    <>[](up /\ stopped = "no")
        => <>[](conn = "open" /\ \E t \in Tasks : task[t] \in {"recv", "handle", "test"})

\* ... and with nothing left in its buffer.
BufferDrains == <>[](up /\ stopped = "no") => <>[](buffer = <<>> /\ flushing = <<>>)

\* The thread of a stopped client ends.
StopEndsThread == (stopped # "no") ~> (loop = "ended")
=============================================================================
