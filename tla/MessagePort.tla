---------------------------- MODULE MessagePort ----------------------------
(***************************************************************************)
(* One message channel (WebCore/dom/MessagePort.cpp and dom/default/       *)
(* PlatformMessagePortChannel.cpp) between script execution contexts that  *)
(* run on threads of their own.  The channel has two ends; an end is held  *)
(* by a MessagePort of some context, and a context may send it to another. *)
(*                                                                         *)
(* Each end has a platform channel with its own mutex and no common lock.  *)
(* What an end does to the other it does in steps: read m_entangledChannel *)
(* under its own mutex, then call the other under that one's.  op says     *)
(* between which steps the thread that holds the end is.                   *)
(*                                                                         *)
(* A port is named by its end and a number: the end's ports are numbered   *)
(* in the order they are made, so a pointer to an old port is told from    *)
(* one to the port that replaced it.                                       *)
(***************************************************************************)
EXTENDS Naturals, Sequences, FiniteSets, SequencesExt

CONSTANTS
    Contexts,         \* script execution contexts, each with its thread
    Mortal,           \* those that may be destroyed
    InTransit,        \* place of an end that is in a message
    Orphan,           \* place of an end whose channel closed before it arrived
    Gone,             \* place of an end whose port or message was destroyed
    MaxMessages,      \* bound on messages to an end
    MaxTransfers      \* bound on how often ends are sent

ASSUME PlacesAssumption ==
    /\ Mortal \subseteq Contexts
    /\ InTransit \notin Contexts /\ Orphan \notin Contexts /\ Gone \notin Contexts
    /\ InTransit # Orphan /\ InTransit # Gone /\ Orphan # Gone
ASSUME BoundsAssumption == MaxMessages \in Nat /\ MaxTransfers \in Nat

Ends == {1, 2}
Other(e) == 3 - e

VARIABLES
    place,            \* the context whose port holds the end, or one of the places above
    port,             \* the number of the end's newest port
    started,          \* whether that port is started (m_started)
    op,               \* what the holder is in the middle of
    entangled,        \* whether m_entangledChannel is set
    outgoing,         \* whether m_outgoingQueue is set
    remotePort,       \* m_remotePort: the number of a port of the other end, or 0
    queue,            \* m_incomingQueue
    alive,            \* whether a context exists
    pending,          \* ProcessMessagesSoonTasks in a context's task queue
    dispatching,      \* the ports dispatchMessagePortEvents still has to serve
    posted,           \* history: messages posted to an end
    received,         \* history: the last of them that was dispatched
    transfers         \* how often ends were sent

channel == <<entangled, outgoing, remotePort>>
context == <<alive, pending, dispatching>>
history == <<posted, received>>
vars == <<place, port, started, op, channel, queue, context, history, transfers>>

TypeOK ==
    /\ place \in [Ends -> Contexts \cup {InTransit, Orphan, Gone}]
    /\ port \in [Ends -> Nat]
    /\ started \in [Ends -> BOOLEAN]
    /\ op \in [Ends -> {"none", "disentangling", "sending", "entangling",
                          "closing", "closingRemote"}]
    /\ entangled \in [Ends -> BOOLEAN] /\ outgoing \in [Ends -> BOOLEAN]
    /\ remotePort \in [Ends -> Nat]
    /\ queue \in [Ends -> Seq(Nat)]
    /\ alive \in [Contexts -> BOOLEAN]
    /\ pending \in [Contexts -> Nat]
    /\ dispatching \in [Contexts -> Seq(Ends)]
    /\ posted \in [Ends -> Nat] /\ received \in [Ends -> Nat]
    /\ transfers \in Nat

\* MessageChannel's constructor: createChannel entangles two ports of one
\* context, before anyone else knows of them.
Init ==
    /\ \E c \in Contexts : place = [e \in Ends |-> c]
    /\ port = [e \in Ends |-> 1]
    /\ started = [e \in Ends |-> FALSE]
    /\ op = [e \in Ends |-> "none"]
    /\ entangled = [e \in Ends |-> TRUE]
    /\ outgoing = [e \in Ends |-> TRUE]
    /\ remotePort = [e \in Ends |-> 1]
    /\ queue = [e \in Ends |-> <<>>]
    /\ alive = [c \in Contexts |-> TRUE]
    /\ pending = [c \in Contexts |-> 0]
    /\ dispatching = [c \in Contexts |-> <<>>]
    /\ posted = [e \in Ends |-> 0] /\ received = [e \in Ends |-> 0]
    /\ transfers = 0

-----------------------------------------------------------------------------
\* The thread of c is not inside an operation on a channel.
Free(c) == \A e \in Ends : place[e] = c => op[e] = "none"

\* Script of c can use the port that holds the end.
Usable(e, c) == place[e] = c /\ alive[c] /\ Free(c)

\* ScriptExecutionContext::processMessagePortMessagesSoon.
ProcessSoon(c) == pending' = [pending EXCEPT ![c] = @ + 1]

\* Mutant: a message is dropped while the other end has no port.
PostNeedsPort(e) ==
    /\ \E c \in Contexts : Usable(e, c)
    /\ outgoing[e]
    /\ posted[Other(e)] < MaxMessages
    /\ posted' = [posted EXCEPT ![Other(e)] = @ + 1]
    /\ queue' = IF remotePort[e] # 0
                THEN [queue EXCEPT ![Other(e)] = Append(@, posted'[Other(e)])] ELSE queue
    /\ IF queue[Other(e)] = <<>> /\ remotePort[e] # 0 THEN ProcessSoon(place[Other(e)])
       ELSE pending' = pending
    /\ UNCHANGED <<place, port, started, op, channel, alive, dispatching, received, transfers>>

\* MessagePort::postMessage, postMessageToRemote: under the end's mutex the
\* message is queued and, if the queue was empty, the other end's port told.
PostMessage(e) ==
    /\ \E c \in Contexts : Usable(e, c)
    /\ outgoing[e]
    /\ posted[Other(e)] < MaxMessages
    /\ posted' = [posted EXCEPT ![Other(e)] = @ + 1]
    /\ queue' = [queue EXCEPT ![Other(e)] = Append(@, posted'[Other(e)])]
    /\ IF queue[Other(e)] = <<>> /\ remotePort[e] # 0 THEN ProcessSoon(place[Other(e)])
       ELSE pending' = pending
    /\ UNCHANGED <<place, port, started, op, channel, alive, dispatching, received, transfers>>

\* MessagePort::start, and setting onmessage.
Start(e) ==
    /\ \E c \in Contexts : Usable(e, c) /\ ProcessSoon(c)
    /\ ~started[e]
    /\ started' = [started EXCEPT ![e] = TRUE]
    /\ UNCHANGED <<place, port, op, channel, queue, alive, dispatching, history, transfers>>

-----------------------------------------------------------------------------
(* An end changes its context.                                             *)

\* disentanglePorts, first step: read the other end.
Disentangle(e) ==
    /\ \E c \in Contexts : Usable(e, c)
    /\ transfers < MaxTransfers
    /\ transfers' = transfers + 1
    /\ op' = [op EXCEPT ![e] = IF entangled[e] THEN "disentangling" ELSE "sending"]
    /\ UNCHANGED <<place, port, started, channel, queue, context, history>>

\* A port that leaves its context is skipped by the dispatch under way, whose
\* copy of the context's ports has it once at most.
Without(ports, e) ==
    IF \E i \in 1..Len(ports) : ports[i] = e
    THEN RemoveAt(ports, CHOOSE i \in 1..Len(ports) : ports[i] = e) ELSE ports

\* Mutant: the other end is not told that the port lost the channel.
DisentangledKeepsPort(e) ==
    /\ op[e] \in {"disentangling", "sending"}
    /\ place' = [place EXCEPT ![e] = InTransit]
    /\ started' = [started EXCEPT ![e] = FALSE]
    /\ op' = [op EXCEPT ![e] = "none"]
    /\ dispatching' = [dispatching EXCEPT ![place[e]] = Without(@, e)]
    /\ UNCHANGED <<port, channel, queue, alive, pending, history, transfers>>

\* ... then setRemotePort(0) on it, if it was there; the port gives up its
\* context and its channel, which goes into the message.
Disentangled(e) ==
    /\ op[e] \in {"disentangling", "sending"}
    /\ remotePort' = IF op[e] = "disentangling"
                     THEN [remotePort EXCEPT ![Other(e)] = 0] ELSE remotePort
    /\ place' = [place EXCEPT ![e] = InTransit]
    /\ started' = [started EXCEPT ![e] = FALSE]
    /\ op' = [op EXCEPT ![e] = "none"]
    /\ dispatching' = [dispatching EXCEPT ![place[e]] = Without(@, e)]
    /\ UNCHANGED <<port, entangled, outgoing, queue, alive, pending, history, transfers>>

\* entanglePorts in the receiving context: a new port, and the first step of
\* entangleIfOpen.  If the channel is closed the port gets none.
Entangle(e, c) ==
    /\ place[e] = InTransit /\ op[e] = "none"
    /\ alive[c] /\ Free(c)
    /\ port' = [port EXCEPT ![e] = @ + 1]
    /\ IF entangled[e]
       THEN place' = [place EXCEPT ![e] = c] /\ op' = [op EXCEPT ![e] = "entangling"]
       ELSE place' = [place EXCEPT ![e] = Orphan] /\ op' = op
    /\ UNCHANGED <<started, channel, queue, context, history, transfers>>

\* Mutant: the other end is not told of the port.
EntangledUntold(e) ==
    /\ op[e] = "entangling"
    /\ op' = [op EXCEPT ![e] = "none"]
    /\ UNCHANGED <<place, port, started, channel, queue, context, history, transfers>>

\* ... then setRemotePort on the other end that was read.
Entangled(e) ==
    /\ op[e] = "entangling"
    /\ remotePort' = [remotePort EXCEPT ![Other(e)] = port[e]]
    /\ op' = [op EXCEPT ![e] = "none"]
    /\ UNCHANGED <<place, port, started, entangled, outgoing, queue, context, history, transfers>>

-----------------------------------------------------------------------------
(* Closing.                                                                *)

\* PlatformMessagePortChannel::close, first step: read the other end.
BeginClose(e) ==
    /\ entangled[e] /\ op[e] = "none"
    /\ op' = [op EXCEPT ![e] = "closing"]

\* MessagePort::close.
Close(e) ==
    /\ \E c \in Contexts : Usable(e, c)
    /\ BeginClose(e)
    /\ UNCHANGED <<place, port, started, channel, queue, context, history, transfers>>

\* A message is destroyed with the end in it: ~MessagePortChannel closes it.
MessageLost(e) ==
    /\ place[e] = InTransit /\ op[e] = "none"
    /\ IF entangled[e] THEN BeginClose(e) /\ place' = place
       ELSE place' = [place EXCEPT ![e] = Gone] /\ op' = op
    /\ UNCHANGED <<port, started, channel, queue, context, history, transfers>>

\* ~ScriptExecutionContext: its tasks go, its ports are closed one by one ...
DestroyContext(c) ==
    /\ c \in Mortal /\ alive[c] /\ Free(c)
    /\ alive' = [alive EXCEPT ![c] = FALSE]
    /\ dispatching' = [dispatching EXCEPT ![c] = <<>>]
    /\ UNCHANGED <<place, port, started, op, channel, queue, pending, history, transfers>>

\* ... by MessagePort::contextDestroyed.
ContextDestroyed(e) ==
    /\ \E c \in Contexts : place[e] = c /\ ~alive[c] /\ Free(c)
    /\ IF entangled[e] THEN BeginClose(e) /\ place' = place
       ELSE place' = [place EXCEPT ![e] = Gone] /\ op' = op
    /\ UNCHANGED <<port, started, channel, queue, context, history, transfers>>

\* closeInternal on one end, under its mutex.
CloseInternal(e) ==
    /\ entangled' = [entangled EXCEPT ![e] = FALSE]
    /\ outgoing' = [outgoing EXCEPT ![e] = FALSE]
    /\ remotePort' = [remotePort EXCEPT ![e] = 0]

CloseSelf(e) ==
    /\ op[e] = "closing"
    /\ CloseInternal(e)
    /\ op' = [op EXCEPT ![e] = "closingRemote"]
    /\ UNCHANGED <<place, port, started, queue, context, history, transfers>>

\* The holder of a closed end: a port of a context that exists keeps it.
PlaceOnceClosed(e) ==
    IF place[e] \in Contexts /\ alive[place[e]] THEN place[e] ELSE Gone

\* Mutant: the other end is not closed.
CloseOnlySelf(e) ==
    /\ op[e] = "closingRemote"
    /\ op' = [op EXCEPT ![e] = "none"]
    /\ place' = [place EXCEPT ![e] = PlaceOnceClosed(e)]
    /\ UNCHANGED <<port, started, channel, queue, context, history, transfers>>

CloseRemote(e) ==
    /\ op[e] = "closingRemote"
    /\ CloseInternal(Other(e))
    /\ op' = [op EXCEPT ![e] = "none"]
    /\ place' = [place EXCEPT ![e] = PlaceOnceClosed(e)]
    /\ UNCHANGED <<port, started, queue, context, history, transfers>>

-----------------------------------------------------------------------------
(* ProcessMessagesSoonTask.                                                *)

\* Mutant: messages are dispatched without a task.
DispatchUnasked(c) ==
    /\ alive[c] /\ Free(c)
    /\ dispatching[c] = <<>>
    /\ pending' = [pending EXCEPT ![c] = @ - 1]
    /\ \E order \in SetToSeqs({e \in Ends : place[e] = c}) :
          dispatching' = [dispatching EXCEPT ![c] = order]
    /\ UNCHANGED <<place, port, started, op, channel, queue, alive, history, transfers>>

\* dispatchMessagePortEvents takes a frozen copy of the context's ports, in no
\* particular order.
DispatchPorts(c) ==
    /\ alive[c] /\ Free(c)
    /\ pending[c] > 0 /\ dispatching[c] = <<>>
    /\ pending' = [pending EXCEPT ![c] = @ - 1]
    /\ \E order \in SetToSeqs({e \in Ends : place[e] = c}) :
          dispatching' = [dispatching EXCEPT ![c] = order]
    /\ UNCHANGED <<place, port, started, op, channel, queue, alive, history, transfers>>

Serving(e, c) == Usable(e, c) /\ dispatching[c] # <<>> /\ Head(dispatching[c]) = e

\* Mutant: one message and not all of them.
DispatchOneMessage(e) ==
    /\ \E c \in Contexts :
          /\ Serving(e, c)
          /\ dispatching' = [dispatching EXCEPT ![c] = Tail(@)]
    /\ started[e] /\ queue[e] # <<>>
    /\ received' = [received EXCEPT ![e] = Head(queue[e])]
    /\ queue' = [queue EXCEPT ![e] = Tail(@)]
    /\ UNCHANGED <<place, port, started, op, channel, alive, pending, posted, transfers>>

\* MessagePort::dispatchMessages: the next message; what its handler does are
\* the context's other actions.
DispatchMessage(e) ==
    /\ \E c \in Contexts : Serving(e, c)
    /\ started[e] /\ queue[e] # <<>>
    /\ received' = [received EXCEPT ![e] = Head(queue[e])]
    /\ queue' = [queue EXCEPT ![e] = Tail(@)]
    /\ UNCHANGED <<place, port, started, op, channel, context, posted, transfers>>

\* No message is left, or the port that is reached is not started: the next port.
DispatchedAll(e) ==
    /\ \E c \in Contexts :
          /\ Serving(e, c)
          /\ dispatching' = [dispatching EXCEPT ![c] = Tail(@)]
    /\ ~started[e] \/ queue[e] = <<>>
    /\ UNCHANGED <<place, port, started, op, channel, queue, alive, pending, history, transfers>>

Next ==
    \/ \E e \in Ends :
          \/ PostMessage(e) \/ Start(e)
          \/ Disentangle(e) \/ Disentangled(e) \/ Entangled(e)
          \/ Close(e) \/ MessageLost(e) \/ ContextDestroyed(e) \/ CloseSelf(e) \/ CloseRemote(e)
          \/ DispatchMessage(e) \/ DispatchedAll(e)
          \/ \E c \in Contexts : Entangle(e, c)
    \/ \E c \in Contexts : DispatchPorts(c) \/ DestroyContext(c)

\* Threads finish what they are in the middle of and serve their tasks;
\* nobody has to post, send, start or close.
Fairness ==
    /\ \A e \in Ends :
          /\ WF_vars(Disentangled(e)) /\ WF_vars(Entangled(e))
          /\ WF_vars(CloseSelf(e)) /\ WF_vars(CloseRemote(e)) /\ WF_vars(ContextDestroyed(e))
          /\ WF_vars(DispatchMessage(e)) /\ WF_vars(DispatchedAll(e))
    /\ \A c \in Contexts : WF_vars(DispatchPorts(c))

Spec == Init /\ [][Next]_vars /\ Fairness

-----------------------------------------------------------------------------
(* Properties.                                                             *)

LivePort(e, n) == n = port[e] /\ place[e] \in Contexts

\* A post tells only a port that still holds the other end and has a context,
\* however the two ends are sent, closed and destroyed meanwhile; and no port
\* is set where one is set already (the assertion in setRemotePort).
NotifiesLivePort ==
    \A e \in Ends :
        /\ outgoing[e] /\ remotePort[e] # 0 => LivePort(Other(e), remotePort[e])
        /\ op[Other(e)] = "entangling" => remotePort[e] = 0

\* Across all the ports an end has had, its messages are dispatched in order,
\* once, and the rest are in its queue.
QueueHoldsTheRest ==
    \A e \in Ends : queue[e] = [i \in 1..(posted[e] - received[e]) |-> received[e] + i]

\* A channel is closed at both ends or at neither, but for a thread that is
\* about to close the other one.
CloseIsMutual ==
    (\A e \in Ends : op[e] # "closingRemote") =>
        /\ entangled[1] = entangled[2]
        /\ \A e \in Ends : outgoing[e] = entangled[e]

\* A started port that stays where it is gets its messages.
MessagesArrive ==
    \A e \in Ends, c \in Contexts :
        (place[e] = c /\ alive[c] /\ started[e] /\ queue[e] # <<>>)
            ~> (queue[e] = <<>> \/ place[e] # c \/ ~alive[c])

\* Messages that were queued before the channel was closed are not lost.
MessagesSurviveClose == \A e \in Ends : place[e] = Orphan => queue[e] = <<>>

\* A platform channel points to the port that holds the other end or to none.
RemotePortIsLive ==
    \A e \in Ends : remotePort[e] # 0 => LivePort(Other(e), remotePort[e])

\* A started port with messages is asked to dispatch them, or is doing it, unless
\* it is leaving: so long as posts tell every port that got its end.
NoMessageStranded ==
    \A e \in Ends :
        (queue[e] # <<>> /\ started[e] /\ op[e] \notin {"disentangling", "sending"}
           /\ place[e] \in Contexts /\ alive[place[e]])
        => \/ pending[place[e]] > 0
           \/ \E i \in 1..Len(dispatching[place[e]]) : dispatching[place[e]][i] = e

(***************************************************************************)
(* What the channel promises, with its ports and its steps gone.           *)
(***************************************************************************)
Holder == [e \in Ends |->
    IF place[e] = Orphan \/ (place[e] \in Contexts /\ ~alive[place[e]]) THEN Gone ELSE place[e]]

Promise == INSTANCE DuplexChannel WITH holder <- Holder, open <- outgoing

\* However its ends are sent, closed and destroyed meanwhile, each takes what was
\* posted to it in order, and only where it is.
ImplementsChannel == Promise!Spec

=============================================================================
