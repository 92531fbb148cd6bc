------------------------- MODULE MessagePortProofs -------------------------
(***************************************************************************)
(* Proofs about MessagePort, for every set of contexts and every bound on  *)
(* messages and transfers. NotifiesLivePort and CloseIsMutual follow from  *)
(* one inductive invariant on the two ends, QueueHoldsTheRest from one of  *)
(* its own, NoMessageStranded from the two and from who is told of a       *)
(* message, TypeOK from the types of what they leave out; together they    *)
(* show that the channel keeps the promise of DuplexChannel.               *)
(***************************************************************************)
EXTENDS MessagePort, QueueFacts, FiniteSetTheorems, TLAPS

\* The type of what the two ends are made of.
ChannelType ==
    /\ place \in [Ends -> Contexts \cup {InTransit, Orphan, Gone}]
    /\ port \in [Ends -> Nat]
    /\ op \in [Ends -> {"none", "disentangling", "sending", "entangling", "closing", "closingRemote"}]
    /\ entangled \in [Ends -> BOOLEAN] /\ outgoing \in [Ends -> BOOLEAN]
    /\ remotePort \in [Ends -> Nat]

\* What an end's own step leaves: closing goes from the end to the other, and
\* an end that was read as closed stays closed.
Closing ==
    \A e \in Ends :
        /\ outgoing[e] = entangled[e]
        /\ op[e] \in {"closingRemote", "sending"} => ~entangled[e]
        /\ entangled[e] /\ ~entangled[Other(e)] => op[Other(e)] = "closingRemote"

\* The pointer at the other end: only a port that holds the end is there while
\* a post could use it, and none while the end travels in an open channel.
Pointers ==
    \A e \in Ends :
        /\ outgoing[e] /\ remotePort[e] # 0 => LivePort(Other(e), remotePort[e])
        /\ op[e] = "entangling" => place[e] \in Contexts /\ remotePort[Other(e)] = 0
        /\ place[e] = InTransit /\ entangled[e] => remotePort[Other(e)] = 0

ChannelInv == ChannelType /\ Closing /\ Pointers

LEMMA EndFacts ==
    /\ \A e \in Ends : Other(e) \in Ends /\ Other(e) # e /\ Other(Other(e)) = e
    /\ \A e, f \in Ends : f = e \/ f = Other(e)
  BY DEF Ends, Other

LEMMA ChannelInit == Init => ChannelInv
  BY EndFacts, PlacesAssumption
  DEF Init, ChannelInv, ChannelType, Closing, Pointers, LivePort

-----------------------------------------------------------------------------
(* Every action preserves the invariant.  Most leave the channel alone.    *)

Quiet == UNCHANGED <<place, port, op, channel>>

LEMMA QuietStep == ChannelInv /\ Quiet => ChannelInv'
  BY DEF Quiet, ChannelInv, ChannelType, Closing, Pointers, LivePort, channel

LEMMA DisentangleStep ==
    ASSUME NEW e \in Ends, ChannelInv, Disentangle(e) \/ Disentangled(e)
    PROVE  ChannelInv'
  <1>1. CASE Disentangle(e)
    <2>1. op[e] = "none" /\ op' = [op EXCEPT ![e] = IF entangled[e] THEN "disentangling" ELSE "sending"]
          /\ UNCHANGED <<place, port, channel>>
      BY <1>1 DEF Disentangle, Usable, Free
    <2> QED BY <2>1, EndFacts DEF ChannelInv, ChannelType, Closing, Pointers, LivePort, channel
  <1>2. CASE Disentangled(e)
    <2>1. /\ op[e] \in {"disentangling", "sending"} /\ op' = [op EXCEPT ![e] = "none"]
          /\ place' = [place EXCEPT ![e] = InTransit]
          /\ remotePort' = IF op[e] = "disentangling"
                           THEN [remotePort EXCEPT ![Other(e)] = 0] ELSE remotePort
          /\ UNCHANGED <<port, entangled, outgoing>>
      BY <1>2 DEF Disentangled
    <2>2. op[e] = "sending" => ~entangled[e] /\ ~outgoing[Other(e)]
      BY <2>1, EndFacts DEF ChannelInv, ChannelType, Closing
    <2>3. ChannelType' /\ Closing'
      BY <2>1, EndFacts DEF ChannelInv, ChannelType, Closing
    <2>4. Pointers'
      BY <2>1, <2>2, EndFacts, PlacesAssumption DEF ChannelInv, ChannelType, Closing, Pointers, LivePort
    <2> QED BY <2>3, <2>4 DEF ChannelInv
  <1> QED BY <1>1, <1>2

LEMMA EntangleStep ==
    ASSUME NEW e \in Ends, ChannelInv, Entangled(e) \/ \E c \in Contexts : Entangle(e, c)
    PROVE  ChannelInv'
  <1>1. ASSUME NEW c \in Contexts, Entangle(e, c) PROVE ChannelInv'
    <2>1. CASE entangled[e]
      BY <1>1, <2>1, EndFacts, PlacesAssumption
      DEF Entangle, ChannelInv, ChannelType, Closing, Pointers, LivePort, channel
    <2>2. CASE ~entangled[e]
      BY <1>1, <2>2, EndFacts, PlacesAssumption
      DEF Entangle, ChannelInv, ChannelType, Closing, Pointers, LivePort, channel
    <2> QED BY <2>1, <2>2
  <1>2. CASE Entangled(e)
    BY <1>2, EndFacts, PlacesAssumption
    DEF Entangled, ChannelInv, ChannelType, Closing, Pointers, LivePort
  <1> QED BY <1>1, <1>2

\* The first step of a close, and a holder that goes without one.
LEMMA BeginCloseStep ==
    ASSUME NEW e \in Ends, ChannelInv, Close(e) \/ MessageLost(e) \/ ContextDestroyed(e)
    PROVE  ChannelInv'
  <1>1. op[e] = "none" /\ UNCHANGED <<port, channel>>
    BY DEF Close, MessageLost, ContextDestroyed, BeginClose, Free
  <1>2. \/ op' = [op EXCEPT ![e] = "closing"] /\ place' = place
        \/ ~entangled[e] /\ op' = op /\ place' = [place EXCEPT ![e] = Gone]
    BY DEF Close, MessageLost, ContextDestroyed, BeginClose
  <1>3. ~entangled[e] => ~outgoing[Other(e)]
    BY <1>1, EndFacts DEF ChannelInv, ChannelType, Closing
  <1> QED BY <1>1, <1>2, <1>3, EndFacts, PlacesAssumption
          DEF ChannelInv, ChannelType, Closing, Pointers, LivePort, channel

LEMMA CloseStep ==
    ASSUME NEW e \in Ends, ChannelInv, CloseSelf(e) \/ CloseRemote(e)
    PROVE  ChannelInv'
  <1>1. CASE CloseSelf(e)
    BY <1>1, EndFacts, PlacesAssumption
    DEF CloseSelf, CloseInternal, ChannelInv, ChannelType, Closing, Pointers, LivePort
  <1>2. CASE CloseRemote(e)
    <2>1. place'[e] \in {place[e], Gone} /\ place' = [place EXCEPT ![e] = place'[e]]
      BY <1>2 DEF CloseRemote, PlaceOnceClosed, ChannelInv, ChannelType
    <2>2. /\ op[e] = "closingRemote" /\ op' = [op EXCEPT ![e] = "none"] /\ ~entangled[e]
          /\ entangled' = [entangled EXCEPT ![Other(e)] = FALSE]
          /\ outgoing' = [outgoing EXCEPT ![Other(e)] = FALSE]
          /\ remotePort' = [remotePort EXCEPT ![Other(e)] = 0] /\ port' = port
      BY <1>2 DEF CloseRemote, CloseInternal, ChannelInv, Closing
    <2>3. ChannelType'
      BY <2>1, <2>2, EndFacts DEF ChannelInv, ChannelType
    <2>4. \A f \in Ends : entangled'[f] = FALSE /\ outgoing'[f] = FALSE
      BY <2>2, EndFacts DEF ChannelInv, ChannelType, Closing
    <2>5. Closing'
      BY <2>4, EndFacts DEF Closing
    <2>6. Pointers'
      BY <1>2, <2>1, EndFacts, PlacesAssumption
      DEF CloseRemote, CloseInternal, ChannelInv, ChannelType, Closing, Pointers, LivePort
    <2> QED BY <2>3, <2>5, <2>6 DEF ChannelInv
  <1> QED BY <1>1, <1>2

LEMMA ChannelNext == ChannelInv /\ [Next]_vars => ChannelInv'
  <1> SUFFICES ASSUME ChannelInv, [Next]_vars PROVE ChannelInv'
    OBVIOUS
  <1>1. CASE UNCHANGED vars
    BY <1>1, QuietStep DEF Quiet, vars
  <1>2. ASSUME NEW e \in Ends,
               \/ PostMessage(e) \/ Start(e) \/ DispatchMessage(e) \/ DispatchedAll(e)
        PROVE  ChannelInv'
    BY <1>2, QuietStep DEF Quiet, PostMessage, Start, DispatchMessage, DispatchedAll
  <1>3. ASSUME NEW c \in Contexts, DispatchPorts(c) \/ DestroyContext(c) PROVE ChannelInv'
    BY <1>3, QuietStep DEF Quiet, DispatchPorts, DestroyContext
  <1> QED
    BY <1>1, <1>2, <1>3, DisentangleStep, EntangleStep, BeginCloseStep, CloseStep DEF Next

-----------------------------------------------------------------------------
(* The theorems.                                                           *)

THEOREM ChannelInvariant == Spec => []ChannelInv
  BY ChannelInit, ChannelNext, PTL DEF Spec

\* A post never tells a port that is gone or has sent its end away, whatever
\* the contexts' threads do in which order (postMessageToRemote against
\* disentangle, entangleIfOpen and close).
THEOREM PostsTellLivePorts == Spec => []NotifiesLivePort
  <1>1. ChannelInv => NotifiesLivePort
    BY EndFacts DEF ChannelInv, Pointers, NotifiesLivePort
  <1> QED BY <1>1, ChannelInvariant, PTL

\* However many threads close a channel, both ends are closed once no close is
\* under way (PlatformMessagePortChannel::close, closeInternal).
THEOREM ClosingIsMutual == Spec => []CloseIsMutual
  <1>1. ChannelInv => CloseIsMutual
    BY EndFacts DEF ChannelInv, ChannelType, Closing, CloseIsMutual, Ends, Other
  <1> QED BY <1>1, ChannelInvariant, PTL

-----------------------------------------------------------------------------
(* The messages of an end, across its ports.                               *)

Rest(n, m) == [i \in 1..(m - n) |-> n + i]

QueueInv ==
    /\ posted \in [Ends -> Nat] /\ received \in [Ends -> Nat]
    /\ queue \in [Ends -> Seq(Nat)]
    /\ \A e \in Ends : received[e] <= posted[e] /\ queue[e] = Rest(received[e], posted[e])

LEMMA RestAppend ==
    ASSUME NEW n \in Nat, NEW m \in Nat, n <= m
    PROVE  Append(Rest(n, m), m + 1) = Rest(n, m + 1)
  <1>1. m - n \in Nat /\ Rest(n, m) \in Seq(Nat) /\ Len(Rest(n, m)) = m - n
    BY DEF Rest
  <1> QED BY <1>1, SMTT(30) DEF Rest

LEMMA RestTail ==
    ASSUME NEW n \in Nat, NEW m \in Nat, n <= m, Rest(n, m) # <<>>
    PROVE  /\ n < m
           /\ Head(Rest(n, m)) = n + 1
           /\ Tail(Rest(n, m)) = Rest(n + 1, m)
  <1>1. m - n \in Nat /\ Rest(n, m) \in Seq(Nat) /\ Len(Rest(n, m)) = m - n
    BY DEF Rest
  <1>2. n < m
    BY <1>1
  <1> QED BY <1>1, <1>2, SMTT(30) DEF Rest

LEMMA QueueInit == Init => QueueInv
  BY DEF Init, QueueInv, Rest

LEMMA QueueNext == QueueInv /\ [Next]_vars => QueueInv'
  <1> SUFFICES ASSUME QueueInv, [Next]_vars PROVE QueueInv'
    OBVIOUS
  <1>1. ASSUME UNCHANGED <<queue, history>> PROVE QueueInv'
    BY <1>1 DEF QueueInv, history
  <1>2. ASSUME NEW e \in Ends, PostMessage(e) PROVE QueueInv'
    <2> DEFINE o == Other(e)
    <2>1. /\ posted' = [posted EXCEPT ![o] = @ + 1] /\ received' = received
          /\ queue' = [queue EXCEPT ![o] = Append(@, posted'[o])]
      BY <1>2 DEF PostMessage
    <2>2. o \in Ends
      BY EndFacts
    <2>3. Append(queue[o], posted'[o]) = Rest(received[o], posted[o] + 1)
      BY <2>1, <2>2, RestAppend DEF QueueInv
    <2> HIDE DEF o
    <2>4. posted' \in [Ends -> Nat] /\ received' \in [Ends -> Nat] /\ queue' \in [Ends -> Seq(Nat)]
      BY <2>1, <2>2 DEF QueueInv
    <2>5. ASSUME NEW f \in Ends PROVE received'[f] <= posted'[f] /\ queue'[f] = Rest(received'[f], posted'[f])
      <3>1. CASE f = o
        <4>1. queue'[o] = Append(queue[o], posted'[o]) /\ posted'[o] = posted[o] + 1
          BY <2>1, <2>2 DEF QueueInv
        <4>2. received[o] \in Nat /\ posted[o] \in Nat /\ received[o] <= posted[o]
          BY <2>2 DEF QueueInv
        <4>3. received'[o] = received[o]
          BY <2>1
        <4>4. queue'[o] = Rest(received'[o], posted'[o])
          BY <2>3, <4>1, <4>3
        <4>5. received'[o] <= posted'[o]
          BY <4>1, <4>2, <4>3
        <4> QED BY <3>1, <4>4, <4>5
      <3>2. CASE f # o
        BY <2>1, <2>2, <3>2 DEF QueueInv
      <3> QED BY <3>1, <3>2
    <2> QED BY <2>4, <2>5 DEF QueueInv
  <1>3. ASSUME NEW e \in Ends, DispatchMessage(e) PROVE QueueInv'
    <2>1. /\ queue[e] # <<>> /\ received' = [received EXCEPT ![e] = Head(queue[e])]
          /\ queue' = [queue EXCEPT ![e] = Tail(@)] /\ posted' = posted
      BY <1>3 DEF DispatchMessage
    <2>2. /\ received[e] < posted[e] /\ Head(queue[e]) = received[e] + 1
          /\ Tail(queue[e]) = Rest(received[e] + 1, posted[e])
      <3>1. /\ received[e] \in Nat /\ posted[e] \in Nat /\ received[e] <= posted[e]
            /\ queue[e] = Rest(received[e], posted[e])
        BY DEF QueueInv
      <3> QED
        BY <2>1, <3>1, RestTail
    <2>3. received[e] \in Nat /\ posted[e] \in Nat /\ queue[e] \in Seq(Nat)
      BY DEF QueueInv
    <2>4. posted' \in [Ends -> Nat] /\ received' \in [Ends -> Nat] /\ queue' \in [Ends -> Seq(Nat)]
      BY <2>1, <2>2, <2>3 DEF QueueInv
    <2>5. ASSUME NEW f \in Ends PROVE received'[f] <= posted'[f] /\ queue'[f] = Rest(received'[f], posted'[f])
      <3>1. CASE f = e
        BY <2>1, <2>2, <2>3, <3>1 DEF QueueInv
      <3>2. CASE f # e
        BY <2>1, <3>2 DEF QueueInv
      <3> QED BY <3>1, <3>2
    <2> QED BY <2>4, <2>5 DEF QueueInv
  <1>4. CASE UNCHANGED vars
    BY <1>1, <1>4 DEF vars
  <1>5. ASSUME NEW e \in Ends,
               \/ Start(e) \/ Disentangle(e) \/ Disentangled(e) \/ Entangled(e)
               \/ Close(e) \/ MessageLost(e) \/ ContextDestroyed(e) \/ CloseSelf(e)
               \/ CloseRemote(e) \/ DispatchedAll(e) \/ \E c \in Contexts : Entangle(e, c)
        PROVE  UNCHANGED <<queue, history>>
    BY <1>5 DEF Start, Disentangle, Disentangled, Entangled, Close, MessageLost, ContextDestroyed,
                CloseSelf, CloseRemote, DispatchedAll, Entangle
  <1>6. ASSUME NEW c \in Contexts, DispatchPorts(c) \/ DestroyContext(c)
        PROVE  UNCHANGED <<queue, history>>
    BY <1>6 DEF DispatchPorts, DestroyContext
  <1> QED BY <1>1, <1>2, <1>3, <1>4, <1>5, <1>6 DEF Next

LEMMA QueueInvariant == Spec => []QueueInv
  BY QueueInit, QueueNext, PTL DEF Spec

\* No message of an end is lost, repeated or overtaken on its way into the
\* ports the end has had: what was dispatched and what is queued are all that
\* was posted, in order.
THEOREM NoMessageIsLost == Spec => []QueueHoldsTheRest
  <1>1. QueueInv => QueueHoldsTheRest
    BY DEF QueueInv, QueueHoldsTheRest, Rest
  <1> QED BY <1>1, QueueInvariant, PTL

-----------------------------------------------------------------------------
(* Types of the rest.                                                      *)

ContextType ==
    /\ started \in [Ends -> BOOLEAN]
    /\ alive \in [Contexts -> BOOLEAN]
    /\ pending \in [Contexts -> Nat]
    /\ dispatching \in [Contexts -> Seq(Ends)]
    /\ transfers \in Nat

LEMMA WithoutType ==
    ASSUME NEW ports \in Seq(Ends), NEW e
    PROVE  Without(ports, e) \in Seq(Ends)
  <1>1. CASE \E i \in 1..Len(ports) : ports[i] = e
    <2> DEFINE i == CHOOSE i \in 1..Len(ports) : ports[i] = e
    <2>1. i \in 1..Len(ports)
      BY <1>1
    <2> HIDE DEF i
    <2>2. RemoveAt(ports, i) \in Seq(Ends)
      BY <2>1, RemoveIn DEF RemoveAt
    <2> QED
      BY <1>1, <2>2 DEF Without, i
  <1>2. CASE ~ \E i \in 1..Len(ports) : ports[i] = e
    BY <1>2 DEF Without
  <1> QED
    BY <1>1, <1>2

LEMMA OrderType ==
    ASSUME NEW S \in SUBSET Ends, NEW order \in SetToSeqs(S)
    PROVE  order \in Seq(Ends)
  <1>1. IsFiniteSet(Ends)
    <2>1. IsFiniteSet({1})
      BY FS_Singleton
    <2>2. IsFiniteSet({1} \cup {2})
      BY <2>1, FS_AddElement
    <2>3. Ends = {1} \cup {2}
      BY DEF Ends
    <2> QED
      BY <2>2, <2>3, Zenon
  <1>2. Cardinality(S) \in Nat
    BY <1>1, FS_Subset, FS_CardinalityType
  <1>3. order \in [1..Cardinality(S) -> S]
    BY DEF SetToSeqs
  <1>4. order \in [1..Cardinality(S) -> Ends]
    BY <1>3
  <1> QED
    BY <1>2, <1>4, SeqDef

LEMMA ContextNext == ContextType /\ [Next]_vars => ContextType'
  <1> SUFFICES ASSUME ContextType, [Next]_vars PROVE ContextType'
    OBVIOUS
  <1>1. ASSUME UNCHANGED <<started, alive, pending, dispatching, transfers>> PROVE ContextType'
    BY <1>1 DEF ContextType
  <1>2. ASSUME NEW e \in Ends, PostMessage(e) PROVE ContextType'
    <2>1. /\ UNCHANGED <<started, alive, dispatching, transfers>>
          /\ pending' \in {pending, [pending EXCEPT ![place[Other(e)]] = @ + 1]}
      BY <1>2 DEF PostMessage, ProcessSoon
    <2>2. pending' \in [Contexts -> Nat]
      <3>1. CASE pending' = pending
        BY <3>1 DEF ContextType
      <3>2. CASE pending' = [pending EXCEPT ![place[Other(e)]] = @ + 1]
        <4> DEFINE d == place[Other(e)]
        <4>1. pending' = [c \in Contexts |-> IF c = d THEN pending[d] + 1 ELSE pending[c]]
          BY <3>2 DEF ContextType
        <4> HIDE DEF d
        <4> QED
          BY <4>1 DEF ContextType
      <3> QED
        BY <2>1, <3>1, <3>2
    <2> QED
      BY <2>1, <2>2 DEF ContextType
  <1>3. ASSUME NEW e \in Ends, Start(e) PROVE ContextType'
    BY <1>3 DEF Start, ProcessSoon, ContextType
  <1>4. ASSUME NEW e \in Ends, Disentangle(e) PROVE ContextType'
    BY <1>4, BoundsAssumption DEF Disentangle, context, ContextType
  <1>5. ASSUME NEW e \in Ends, Disentangled(e) PROVE ContextType'
    <2>1. /\ UNCHANGED <<alive, pending, transfers>> /\ started' = [started EXCEPT ![e] = FALSE]
          /\ dispatching' = [dispatching EXCEPT ![place[e]] = Without(@, e)]
      BY <1>5 DEF Disentangled
    <2>2. place[e] \in Contexts => Without(dispatching[place[e]], e) \in Seq(Ends)
      BY WithoutType DEF ContextType
    <2>3. dispatching' \in [Contexts -> Seq(Ends)]
      BY <2>1, <2>2 DEF ContextType
    <2> QED
      BY <2>1, <2>3 DEF ContextType
  <1>6. ASSUME NEW c \in Contexts, DestroyContext(c) PROVE ContextType'
    <2>1. /\ UNCHANGED <<started, pending, transfers>> /\ alive' = [alive EXCEPT ![c] = FALSE]
          /\ dispatching' = [dispatching EXCEPT ![c] = <<>>] /\ <<>> \in Seq(Ends)
      BY <1>6, EmptySeq DEF DestroyContext
    <2> QED
      BY <2>1 DEF ContextType
  <1>7. ASSUME NEW c \in Contexts, DispatchPorts(c) PROVE ContextType'
    <2>1. PICK order \in SetToSeqs({e \in Ends : place[e] = c}) :
             dispatching' = [dispatching EXCEPT ![c] = order]
      BY <1>7 DEF DispatchPorts
    <2>2. order \in Seq(Ends)
      BY OrderType
    <2>3. /\ UNCHANGED <<started, alive, transfers>>
          /\ pending[c] > 0 /\ pending' = [pending EXCEPT ![c] = @ - 1]
      BY <1>7 DEF DispatchPorts
    <2>4. pending' \in [Contexts -> Nat]
      BY <2>3 DEF ContextType
    <2>5. dispatching' \in [Contexts -> Seq(Ends)]
      BY <2>1, <2>2 DEF ContextType
    <2> QED
      BY <2>3, <2>4, <2>5 DEF ContextType
  <1>8. ASSUME NEW e \in Ends, DispatchedAll(e) PROVE ContextType'
    <2>1. PICK c \in Contexts : Serving(e, c) /\ dispatching' = [dispatching EXCEPT ![c] = Tail(@)]
      BY <1>8 DEF DispatchedAll
    <2>2. Tail(dispatching[c]) \in Seq(Ends)
      BY <2>1, HeadTailProperties DEF Serving, ContextType
    <2>3. dispatching' \in [Contexts -> Seq(Ends)]
      BY <2>1, <2>2 DEF ContextType
    <2>4. UNCHANGED <<started, alive, pending, transfers>>
      BY <1>8 DEF DispatchedAll
    <2> QED
      BY <2>3, <2>4 DEF ContextType
  <1>9. ASSUME NEW e \in Ends,
               \/ Entangled(e) \/ Close(e) \/ MessageLost(e) \/ ContextDestroyed(e) \/ CloseSelf(e)
               \/ CloseRemote(e) \/ DispatchMessage(e) \/ \E c \in Contexts : Entangle(e, c)
        PROVE  ContextType'
    BY <1>1, <1>9 DEF Entangled, Close, MessageLost, ContextDestroyed, CloseSelf, CloseRemote,
                      DispatchMessage, Entangle, context
  <1>10. CASE UNCHANGED vars
    BY <1>1, <1>10 DEF vars, context
  <1> QED
    BY <1>2, <1>3, <1>4, <1>5, <1>6, <1>7, <1>8, <1>9, <1>10 DEF Next

LEMMA ContextInvariant == Spec => []ContextType
  <1>1. Init => ContextType
    BY EmptySeq DEF Init, ContextType
  <1> QED
    BY <1>1, ContextNext, PTL DEF Spec

\* Every variable keeps its type; in particular a context never takes more
\* ProcessMessagesSoonTasks than were posted to it.
THEOREM TypeCorrect == Spec => []TypeOK
  <1>1. ChannelInv /\ QueueInv /\ ContextType => TypeOK
    BY DEF ChannelInv, ChannelType, QueueInv, ContextType, TypeOK
  <1> QED
    BY <1>1, ChannelInvariant, QueueInvariant, ContextInvariant, PTL

-----------------------------------------------------------------------------
(* No message waits unasked.                                               *)

\* A started port is neither arriving nor in a message, and a port that has
\* arrived is known to the other end as long as that may post.
Arrived ==
    \A e \in Ends :
        /\ port[e] # 0
        /\ started[e] => op[e] # "entangling" /\ place[e] # InTransit
        /\ place[e] \in Contexts /\ op[e] # "entangling" /\ outgoing[Other(e)]
             => remotePort[Other(e)] # 0

LEMMA ArrivedNext == ChannelInv /\ ContextType /\ Arrived /\ [Next]_vars => Arrived'
  <1> SUFFICES ASSUME ChannelInv, ContextType, Arrived, [Next]_vars PROVE Arrived'
    OBVIOUS
  <1> USE EndFacts, PlacesAssumption
  <1>1. ASSUME UNCHANGED <<place, port, op, started, channel>> PROVE Arrived'
    BY <1>1 DEF Arrived, channel
  <1>2. ASSUME NEW e \in Ends, PostMessage(e) \/ DispatchMessage(e) \/ DispatchedAll(e)
        PROVE  Arrived'
    BY <1>1, <1>2 DEF PostMessage, DispatchMessage, DispatchedAll
  <1>3. ASSUME NEW e \in Ends, Start(e) PROVE Arrived'
    <2>1. \E c \in Contexts : place[e] = c /\ op[e] = "none"
      BY <1>3 DEF Start, Usable, Free
    <2> QED
      BY <1>3, <2>1 DEF Start, Arrived, ContextType, channel
  <1>4. ASSUME NEW e \in Ends, Disentangle(e) PROVE Arrived'
    <2>1. op[e] = "none" /\ op' = [op EXCEPT ![e] = IF entangled[e] THEN "disentangling" ELSE "sending"]
          /\ UNCHANGED <<place, port, started, channel>>
      BY <1>4 DEF Disentangle, Usable, Free
    <2> QED
      BY <2>1 DEF Arrived, ChannelInv, ChannelType, channel
  <1>5. ASSUME NEW e \in Ends, Disentangled(e) PROVE Arrived'
    BY <1>5 DEF Disentangled, Arrived, ChannelInv, ChannelType, ContextType
  <1>6. ASSUME NEW e \in Ends, NEW c \in Contexts, Entangle(e, c) PROVE Arrived'
    BY <1>6 DEF Entangle, Arrived, ChannelInv, ChannelType, channel
  <1>7. ASSUME NEW e \in Ends, Entangled(e) PROVE Arrived'
    BY <1>7 DEF Entangled, Arrived, ChannelInv, ChannelType
  <1>8. ASSUME NEW e \in Ends, Close(e) \/ MessageLost(e) \/ ContextDestroyed(e) PROVE Arrived'
    <2>1. op[e] = "none" /\ UNCHANGED <<port, started, channel>>
      BY <1>8 DEF Close, MessageLost, ContextDestroyed, BeginClose, Free
    <2>2. \/ op' = [op EXCEPT ![e] = "closing"] /\ place' = place
          \/ op' = op /\ place' = [place EXCEPT ![e] = Gone]
      BY <1>8 DEF Close, MessageLost, ContextDestroyed, BeginClose
    <2> QED
      BY <2>1, <2>2 DEF Arrived, ChannelInv, ChannelType, channel
  <1>9. ASSUME NEW e \in Ends, CloseSelf(e) PROVE Arrived'
    BY <1>9 DEF CloseSelf, CloseInternal, Arrived, ChannelInv, ChannelType
  <1>10. ASSUME NEW e \in Ends, CloseRemote(e) PROVE Arrived'
    <2>1. place'[e] \in {place[e], Gone} /\ place' = [place EXCEPT ![e] = place'[e]]
      BY <1>10 DEF CloseRemote, PlaceOnceClosed, ChannelInv, ChannelType
    <2> QED
      BY <1>10, <2>1 DEF CloseRemote, CloseInternal, Arrived, ChannelInv, ChannelType
  <1>11. ASSUME NEW c \in Contexts, DispatchPorts(c) \/ DestroyContext(c) PROVE Arrived'
    BY <1>1, <1>11 DEF DispatchPorts, DestroyContext
  <1>12. CASE UNCHANGED vars
    BY <1>1, <1>12 DEF vars
  <1> QED
    BY <1>2, <1>3, <1>4, <1>5, <1>6, <1>7, <1>8, <1>9, <1>10, <1>11, <1>12 DEF Next

\* The frozen copy has every port.
LEMMA OrderHasAll ==
    ASSUME NEW S \in SUBSET Ends, NEW order \in SetToSeqs(S), NEW e \in S
    PROVE  e \in In(order)
  <1>1. /\ order \in [1..Cardinality(S) -> S]
        /\ \A i, j \in 1..Cardinality(S) : i # j => order[i] # order[j]
    BY DEF SetToSeqs
  <1>2. CASE S = {e}
    <2>1. Cardinality(S) = 1
      BY <1>2, FS_Singleton
    <2>2. order[1] \in {e} /\ Len(order) = 1
      BY <1>1, <1>2, <2>1
    <2> QED
      BY <2>2 DEF In
  <1>3. CASE S # {e}
    <2>1. S = {e} \cup {Other(e)} /\ Other(e) # e
      BY <1>3, EndFacts
    <2>2. IsFiniteSet({e}) /\ Cardinality({e}) = 1
      BY FS_Singleton
    <2>3. Cardinality({e} \cup {Other(e)}) = Cardinality({e}) + 1
      BY <2>1, <2>2, FS_AddElement
    <2>4. Cardinality(S) = 2
      BY <2>1, <2>2, <2>3
    <2>5. /\ order[1] \in {e, Other(e)} /\ order[2] \in {e, Other(e)} /\ order[1] # order[2]
          /\ Len(order) = 2
      BY <1>1, <2>1, <2>4
    <2> QED
      BY <2>5 DEF In
  <1> QED
    BY <1>2, <1>3

\* A port that leaves takes no other with it.
LEMMA WithoutKeeps ==
    ASSUME NEW ports \in Seq(Ends), NEW e \in Ends, NEW f \in In(ports), f # e
    PROVE  f \in In(Without(ports, e))
  <1>1. CASE \E i \in 1..Len(ports) : ports[i] = e
    <2> DEFINE i == CHOOSE i \in 1..Len(ports) : ports[i] = e
               p == SubSeq(ports, 1, i - 1)
               q == SubSeq(ports, i + 1, Len(ports))
    <2>1. i \in 1..Len(ports) /\ ports[i] = e
      BY <1>1
    <2>2. Without(ports, e) = p \o q
      BY <1>1 DEF Without, RemoveAt
    <2> HIDE DEF i
    <2>3. Len(ports) \in Nat /\ \A k \in 1..Len(ports) : ports[k] \in Ends
      BY LenProperties, ElementOfSeq
    <2>4. p \in Seq(Ends) /\ Len(p) = i - 1 /\ \A k \in 1..(i - 1) : p[k] = ports[k]
      BY <2>1, <2>3, SubSeqProperties
    <2>5. /\ q \in Seq(Ends)
          /\ In(q) \cup {ports[k] : k \in 1..i} = In(ports)
      BY <2>1, <2>3, SplitIn
    <2> HIDE DEF p, q
    <2>6. f \in In(p) \cup In(q)
      <3>1. f \in In(q) \/ \E k \in 1..i : f = ports[k]
        BY <2>5
      <3>2. ASSUME NEW k \in 1..i, f = ports[k] PROVE f \in In(p)
        <4>1. k \in 1..Len(p) /\ p[k] = f
          BY <2>1, <2>3, <2>4, <3>2
        <4> QED
          BY <4>1 DEF In
      <3> QED
        BY <3>1, <3>2
    <2> QED
      BY <2>2, <2>4, <2>5, <2>6, ConcatIn
  <1>2. CASE ~\E i \in 1..Len(ports) : ports[i] = e
    BY <1>2 DEF Without
  <1> QED
    BY <1>1, <1>2

\* What a context still does for a port.
Asked(e) == pending[place[e]] > 0 \/ e \in In(dispatching[place[e]])
Waits(e) ==
    /\ queue[e] # <<>> /\ started[e] /\ op[e] \notin {"disentangling", "sending"}
    /\ place[e] \in Contexts /\ alive[place[e]]
AskedInv == \A e \in Ends : Waits(e) => Asked(e)

LEMMA AskedNext ==
    ChannelInv /\ QueueInv /\ ContextType /\ Arrived /\ AskedInv /\ [Next]_vars => AskedInv'
  <1> SUFFICES ASSUME ChannelInv, QueueInv, ContextType, Arrived, AskedInv, [Next]_vars
               PROVE  AskedInv'
    OBVIOUS
  <1> USE EndFacts, PlacesAssumption
  <1>0. /\ \A c \in Contexts : pending[c] \in Nat /\ dispatching[c] \in Seq(Ends)
        /\ place \in [Ends -> Contexts \cup {InTransit, Orphan, Gone}]
    BY DEF ContextType, ChannelInv, ChannelType
  <1>1. ASSUME \A f \in Ends : Waits(f)' => /\ Waits(f) /\ place'[f] = place[f]
                                          /\ pending'[place[f]] >= pending[place[f]]
                                          /\ In(dispatching[place[f]]) \subseteq In(dispatching'[place[f]])
        PROVE  AskedInv'
    <2> SUFFICES ASSUME NEW f \in Ends, Waits(f)' PROVE Asked(f)'
      BY DEF AskedInv
    <2>1. Waits(f) /\ place'[f] = place[f] /\ place[f] \in Contexts
      BY <1>1 DEF Waits
    <2>2. pending[place[f]] \in Nat /\ pending'[place[f]] >= pending[place[f]]
      BY <1>0, <1>1, <2>1
    <2>3. CASE pending[place[f]] > 0
      <3>1. pending'[place'[f]] > 0
        <4>1. pending \in [Contexts -> Nat] /\ pending' \in [Contexts -> Nat]
          BY ContextNext DEF ContextType
        <4> QED
          BY <2>1, <2>2, <2>3, <4>1
      <3> QED
        BY <3>1 DEF Asked
    <2>4. CASE f \in In(dispatching[place[f]])
      BY <1>1, <2>1, <2>4 DEF Asked
    <2> QED
      BY <2>1, <2>3, <2>4 DEF AskedInv, Asked
  <1>2. ASSUME UNCHANGED <<started, alive, pending, dispatching>>,
               \A f \in Ends : place'[f] \in {place[f], Gone} /\ (queue'[f] # <<>> => queue[f] # <<>>)
                                 /\ (op[f] \in {"disentangling", "sending"} => op'[f] = op[f])
        PROVE  AskedInv'
    <2>1. \A f \in Ends : Waits(f)' => Waits(f) /\ place'[f] = place[f]
      BY <1>2 DEF Waits
    <2>2. \A f \in Ends : Waits(f)' => pending'[place[f]] >= pending[place[f]]
      BY <1>0, <1>2, <2>1 DEF Waits
    <2> QED
      BY <1>1, <1>2, <2>1, <2>2
  <1>3. ASSUME NEW e \in Ends, PostMessage(e) PROVE AskedInv'
    <2> DEFINE o == Other(e)
    <2>1. /\ o \in Ends /\ outgoing[e] /\ Other(o) = e
          /\ UNCHANGED <<place, started, op, alive, dispatching>>
          /\ \A f \in Ends \ {o} : queue'[f] = queue[f]
      BY <1>3 DEF PostMessage, channel, QueueInv
    <2>2. pending' = IF queue[o] = <<>> /\ remotePort[e] # 0
                     THEN [pending EXCEPT ![place[o]] = @ + 1] ELSE pending
      BY <1>3 DEF PostMessage, ProcessSoon
    <2> HIDE DEF o
    <2>3. \A c \in Contexts : pending'[c] >= pending[c]
      BY <1>0, <2>2 DEF ContextType
    <2> SUFFICES ASSUME NEW f \in Ends, Waits(f)' PROVE Asked(f)'
      BY DEF AskedInv
    <2>4. CASE Waits(f)
      <3>1. place[f] \in Contexts /\ place'[f] = place[f]
        BY <2>1, <2>4 DEF Waits
      <3>2. pending[place[f]] \in Nat /\ pending'[place[f]] \in Nat
            /\ pending'[place[f]] >= pending[place[f]]
        BY <1>0, <2>3, <3>1, ContextNext DEF ContextType
      <3>3. pending[place[f]] > 0 => pending'[place[f]] > 0
        BY <3>2
      <3> QED
        BY <2>1, <2>4, <3>1, <3>3 DEF AskedInv, Asked
    <2>5. CASE ~Waits(f)
      <3>1. f = o /\ queue[o] = <<>> /\ started[o] /\ place[o] \in Contexts
        BY <2>1, <2>5 DEF Waits
      <3>2. remotePort[e] # 0
        BY <2>1, <3>1 DEF Arrived
      <3>3. pending'[place[o]] = pending[place[o]] + 1
        BY <2>2, <3>1, <3>2 DEF ContextType
      <3>4. pending[place[o]] \in Nat
        BY <1>0, <3>1
      <3>5. pending'[place[o]] > 0
        BY <3>3, <3>4
      <3> QED
        BY <2>1, <3>1, <3>5 DEF Asked
    <2> QED
      BY <2>4, <2>5
  <1>4. ASSUME NEW e \in Ends, Start(e) PROVE AskedInv'
    <2>1. PICK c \in Contexts : Usable(e, c) /\ ProcessSoon(c)
      BY <1>4 DEF Start
    <2>2. /\ UNCHANGED <<place, op, queue, alive, dispatching>>
          /\ \A f \in Ends \ {e} : started'[f] = started[f]
      BY <1>4 DEF Start, ContextType
    <2>3. place[e] = c /\ \A d \in Contexts : pending'[d] = IF d = c THEN pending[d] + 1 ELSE pending[d]
      BY <2>1 DEF Usable, ProcessSoon, ContextType
    <2> SUFFICES ASSUME NEW f \in Ends, Waits(f)' PROVE Asked(f)'
      BY DEF AskedInv
    <2>4. CASE place[f] = c
      <3>1. pending'[c] > 0
        BY <1>0, <2>3
      <3> QED
        BY <2>2, <2>4, <3>1 DEF Asked
    <2>5. CASE place[f] # c
      <3>1. Waits(f) /\ place[f] \in Contexts /\ f # e
        BY <2>2, <2>3, <2>5 DEF Waits
      <3>2. pending'[place[f]] = pending[place[f]]
        BY <2>3, <2>5, <3>1
      <3> QED
        BY <2>2, <3>1, <3>2 DEF Asked, AskedInv
    <2> QED
      BY <2>4, <2>5
  <1>5. ASSUME NEW e \in Ends, Disentangle(e) PROVE AskedInv'
    <2>1. op[e] = "none" /\ op' = [op EXCEPT ![e] = IF entangled[e] THEN "disentangling" ELSE "sending"]
          /\ UNCHANGED <<place, started, queue, alive, pending, dispatching>>
      BY <1>5 DEF Disentangle, Usable, Free, context
    <2>2. \A f \in Ends : op[f] \in {"disentangling", "sending"} => op'[f] = op[f]
      BY <2>1 DEF ChannelInv, ChannelType
    <2> QED
      BY <1>2, <2>1, <2>2
  <1>6. ASSUME NEW e \in Ends, Disentangled(e) PROVE AskedInv'
    <2>1. /\ \A f \in Ends : place'[f] = IF f = e THEN InTransit ELSE place[f]
          /\ \A f \in Ends \ {e} : started'[f] = started[f] /\ op'[f] = op[f]
          /\ UNCHANGED <<queue, alive, pending>>
      BY <1>6 DEF Disentangled, ContextType, ChannelInv, ChannelType
    <2>2. dispatching' = [dispatching EXCEPT ![place[e]] = Without(@, e)]
      BY <1>6 DEF Disentangled
    <2> SUFFICES ASSUME NEW f \in Ends, Waits(f)' PROVE Asked(f)'
      BY DEF AskedInv
    <2>3. f # e /\ Waits(f) /\ place'[f] = place[f] /\ place[f] \in Contexts
      BY <2>1 DEF Waits
    <2>4. f \in In(dispatching[place[f]]) => f \in In(dispatching'[place[f]])
      <3>1. CASE place[f] = place[e]
        <4>1. dispatching'[place[f]] = Without(dispatching[place[f]], e)
          BY <2>2, <2>3, <3>1 DEF ContextType
        <4> QED
          BY <1>0, <2>3, <4>1, WithoutKeeps
      <3>2. CASE place[f] # place[e]
        BY <2>2, <2>3, <3>2 DEF ContextType
      <3> QED
        BY <3>1, <3>2
    <2> QED
      BY <2>1, <2>3, <2>4 DEF AskedInv, Asked
  <1>7. ASSUME NEW e \in Ends, NEW c \in Contexts, Entangle(e, c) PROVE AskedInv'
    <2>1. /\ UNCHANGED <<started, queue, alive, pending, dispatching>> /\ ~started[e]
          /\ \A f \in Ends \ {e} : place'[f] = place[f] /\ op'[f] = op[f]
      BY <1>7 DEF Entangle, context, Arrived, ChannelInv, ChannelType
    <2>2. \A f \in Ends : Waits(f)' => f # e /\ Waits(f) /\ place'[f] = place[f] /\ place[f] \in Contexts
      BY <2>1 DEF Waits
    <2> QED
      BY <2>1, <2>2 DEF AskedInv, Asked
  <1>8. ASSUME NEW e \in Ends, Entangled(e) \/ Close(e) \/ MessageLost(e) \/ ContextDestroyed(e)
                               \/ CloseSelf(e)
        PROVE  AskedInv'
    <2>1. /\ op[e] \notin {"disentangling", "sending"}
          /\ \A f \in Ends \ {e} : op'[f] = op[f]
      BY <1>8 DEF Entangled, Close, MessageLost, ContextDestroyed, BeginClose, Free, CloseSelf,
         ChannelInv, ChannelType
    <2>2. UNCHANGED <<started, queue, alive, pending, dispatching>>
      BY <1>8 DEF Entangled, Close, MessageLost, ContextDestroyed, CloseSelf, context
    <2>3. \A f \in Ends : place'[f] \in {place[f], Gone}
      BY <1>0, <1>8 DEF Entangled, Close, MessageLost, ContextDestroyed, CloseSelf
    <2> QED
      BY <1>2, <2>1, <2>2, <2>3
  <1>9. ASSUME NEW e \in Ends, CloseRemote(e) PROVE AskedInv'
    <2>1. /\ op[e] = "closingRemote" /\ \A f \in Ends \ {e} : op'[f] = op[f]
          /\ UNCHANGED <<started, queue, alive, pending, dispatching>>
          /\ \A f \in Ends : place'[f] \in {place[f], Gone}
      BY <1>0, <1>9 DEF CloseRemote, PlaceOnceClosed, context, ChannelInv, ChannelType
    <2> QED
      BY <1>2, <2>1
  <1>10. ASSUME NEW e \in Ends, DispatchMessage(e) PROVE AskedInv'
    <2>1. /\ queue[e] # <<>> /\ \A f \in Ends \ {e} : queue'[f] = queue[f]
          /\ UNCHANGED <<place, started, op, alive, pending, dispatching>>
      BY <1>10 DEF DispatchMessage, context, QueueInv
    <2> QED
      BY <1>2, <2>1
  <1>11. ASSUME NEW e \in Ends, DispatchedAll(e) PROVE AskedInv'
    <2>1. PICK c \in Contexts : Serving(e, c) /\ dispatching' = [dispatching EXCEPT ![c] = Tail(@)]
      BY <1>11 DEF DispatchedAll
    <2>2. /\ ~started[e] \/ queue[e] = <<>>
          /\ UNCHANGED <<place, started, op, queue, alive, pending>>
      BY <1>11 DEF DispatchedAll
    <2> SUFFICES ASSUME NEW f \in Ends, Waits(f)' PROVE Asked(f)'
      BY DEF AskedInv
    <2>3. Waits(f) /\ f # e /\ place[f] \in Contexts
      BY <2>2 DEF Waits
    <2>4. f \in In(dispatching[c]) => f \in In(Tail(dispatching[c]))
      <3>1. /\ dispatching[c] \in Seq(Ends) /\ dispatching[c] # <<>> /\ Head(dispatching[c]) = e
        BY <1>0, <2>1 DEF Serving
      <3> DEFINE s == dispatching[c]
                 r == Tail(s)
      <3>2. /\ r \in Seq(Ends) /\ Len(r) = Len(s) - 1 /\ Len(s) \in Nat \ {0}
            /\ \A i \in 1..Len(r) : r[i] = s[i + 1] /\ s[1] = e
        BY <3>1, HeadTailProperties, EmptySeq
      <3>3. s[1] = e
        BY <3>1
      <3> HIDE DEF s, r
      <3>4. ASSUME NEW i \in 1..Len(s), s[i] = f PROVE f \in In(r)
        <4>1. i - 1 \in 1..Len(r) /\ r[i - 1] = s[i]
          BY <2>3, <3>2, <3>3, <3>4
        <4> QED
          BY <3>4, <4>1 DEF In
      <3>5. f \in In(s) => f \in In(r)
        BY <3>4 DEF In
      <3> QED
        BY <3>5 DEF s, r
    <2>5. f \in In(dispatching[place[f]]) => f \in In(dispatching'[place[f]])
      BY <2>1, <2>3, <2>4 DEF ContextType
    <2> QED
      BY <2>2, <2>3, <2>5 DEF AskedInv, Asked
  <1>12. ASSUME NEW c \in Contexts, DispatchPorts(c) PROVE AskedInv'
    <2> DEFINE S == {e \in Ends : place[e] = c}
    <2>1. PICK order \in SetToSeqs(S) : dispatching' = [dispatching EXCEPT ![c] = order]
      BY <1>12 DEF DispatchPorts
    <2>2. /\ UNCHANGED <<place, started, op, queue, alive>>
          /\ \A d \in Contexts \ {c} : pending'[d] = pending[d]
      BY <1>12 DEF DispatchPorts, ContextType
    <2> SUFFICES ASSUME NEW f \in Ends, Waits(f)' PROVE Asked(f)'
      BY DEF AskedInv
    <2>3. Waits(f) /\ place[f] \in Contexts
      BY <2>2 DEF Waits
    <2>4. CASE place[f] = c
      <3>1. f \in S
        BY <2>3, <2>4 DEF Waits
      <3>2. f \in In(order)
        BY <3>1, OrderHasAll
      <3> QED
        BY <2>1, <2>2, <2>3, <2>4, <3>2 DEF Asked, ContextType
    <2>5. CASE place[f] # c
      BY <2>1, <2>2, <2>3, <2>5 DEF Asked, AskedInv, ContextType
    <2> QED
      BY <2>4, <2>5
  <1>13. ASSUME NEW c \in Contexts, DestroyContext(c) PROVE AskedInv'
    <2>1. /\ UNCHANGED <<place, started, op, queue, pending>>
          /\ \A d \in Contexts : alive'[d] = IF d = c THEN FALSE ELSE alive[d]
          /\ \A d \in Contexts \ {c} : dispatching'[d] = dispatching[d]
      BY <1>13 DEF DestroyContext, ContextType
    <2>2. \A f \in Ends : Waits(f)' => Waits(f) /\ place[f] \in Contexts \ {c}
      BY <2>1 DEF Waits
    <2> QED
      BY <2>1, <2>2 DEF Asked, AskedInv
  <1>14. CASE UNCHANGED vars
    BY <1>2, <1>14 DEF vars, context
  <1> QED
    BY <1>3, <1>4, <1>5, <1>6, <1>7, <1>8, <1>9, <1>10, <1>11, <1>12, <1>13, <1>14 DEF Next

\* Whatever the two contexts do in which order, a started port that has messages
\* has a ProcessMessagesSoonTask to come, or its context is dispatching to it:
\* the wakeup that postMessageToRemote skips is never the one that was needed.
THEOREM NoMessageIsStranded == Spec => []NoMessageStranded
  <1>1. Init => Arrived /\ AskedInv
    BY EndFacts DEF Init, Arrived, AskedInv, Waits
  <1>2. AskedInv => NoMessageStranded
    BY DEF AskedInv, Waits, Asked, NoMessageStranded, In
  <1> QED
    BY <1>1, <1>2, ArrivedNext, AskedNext, ChannelInvariant, QueueInvariant, ContextInvariant, PTL
    DEF Spec

-----------------------------------------------------------------------------
(* The channel keeps its promise.                                          *)

\* What takes an end from its context or to it finds the context alive.
HoldersAlive ==
    \A e \in Ends : op[e] \in {"disentangling", "sending", "entangling"} =>
        place[e] \in Contexts /\ alive[place[e]]

LEMMA HoldersAliveNext ==
    ChannelType /\ ContextType /\ HoldersAlive /\ [Next]_vars => HoldersAlive'
  <1> SUFFICES ASSUME ChannelType, ContextType, HoldersAlive, [Next]_vars PROVE HoldersAlive'
    OBVIOUS
  <1> USE DEF ChannelType, ContextType
  <1>1. ASSUME UNCHANGED <<place, op, alive>> PROVE HoldersAlive'
    BY <1>1 DEF HoldersAlive
  <1>2. ASSUME NEW e \in Ends, UNCHANGED alive,
               \A f \in Ends \ {e} : place'[f] = place[f] /\ op'[f] = op[f],
               op'[e] \in {"disentangling", "sending", "entangling"} =>
                   place'[e] \in Contexts /\ alive[place'[e]]
        PROVE  HoldersAlive'
    BY <1>2 DEF HoldersAlive
  <1>3. ASSUME NEW e \in Ends,
               PostMessage(e) \/ Start(e) \/ DispatchMessage(e) \/ DispatchedAll(e)
        PROVE  HoldersAlive'
    BY <1>1, <1>3 DEF PostMessage, Start, DispatchMessage, DispatchedAll, context
  <1>4. ASSUME NEW e \in Ends, Disentangle(e) PROVE HoldersAlive'
    BY <1>2, <1>4 DEF Disentangle, Usable, context
  <1>5. ASSUME NEW e \in Ends, NEW c \in Contexts, Entangle(e, c) PROVE HoldersAlive'
    BY <1>2, <1>5 DEF Entangle, context
  <1>6. ASSUME NEW e \in Ends,
               \/ Disentangled(e) \/ Entangled(e) \/ Close(e) \/ MessageLost(e)
               \/ ContextDestroyed(e) \/ CloseSelf(e) \/ CloseRemote(e)
        PROVE  HoldersAlive'
    <2>1. /\ alive' = alive /\ op'[e] \in {"none", "closing", "closingRemote"}
          /\ \A f \in Ends \ {e} : place'[f] = place[f] /\ op'[f] = op[f]
      BY <1>6 DEF Disentangled, Entangled, Close, MessageLost, ContextDestroyed, BeginClose, Free,
         CloseSelf, CloseRemote, context
    <2> QED
      BY <1>2, <2>1
  <1>7. ASSUME NEW c \in Contexts, DispatchPorts(c) PROVE HoldersAlive'
    BY <1>1, <1>7 DEF DispatchPorts
  <1>8. ASSUME NEW c \in Contexts, DestroyContext(c) PROVE HoldersAlive'
    BY <1>8 DEF DestroyContext, Free, HoldersAlive
  <1>9. CASE UNCHANGED vars
    BY <1>1, <1>9 DEF vars, context
  <1> QED
    BY <1>3, <1>4, <1>5, <1>6, <1>7, <1>8, <1>9 DEF Next

\* Where an end is, when one end alone moves.
LEMMA HolderMoves ==
    ASSUME ChannelType, ChannelType', NEW e \in Ends, UNCHANGED alive,
           \A f \in Ends \ {e} : place'[f] = place[f]
    PROVE  Holder' = [Holder EXCEPT ![e] = Holder'[e]]
  BY DEF Holder

LEMMA PromiseStep ==
    ChannelInv /\ ChannelInv' /\ QueueInv /\ ContextType /\ HoldersAlive /\ [Next]_vars
      => [Promise!Next]_(Promise!vars)
  <1> SUFFICES ASSUME ChannelInv, ChannelInv', QueueInv, ContextType, HoldersAlive, [Next]_vars
               PROVE  [Promise!Next]_(Promise!vars)
    OBVIOUS
  <1> USE EndFacts, PlacesAssumption
  <1>1. Promise!Ends = Ends /\ \A e \in Ends : Promise!Other(e) = Other(e)
    BY DEF Promise!Ends, Ends, Promise!Other, Other
  <1>2. ASSUME NEW e \in Ends, NEW c \in Contexts, Usable(e, c) PROVE Holder[e] = c
    BY <1>2 DEF Usable, Holder
  <1>3. ASSUME UNCHANGED <<place, alive, outgoing, queue, posted, received>>
        PROVE  UNCHANGED Promise!vars
    BY <1>3 DEF Promise!vars, Holder
  <1>4. ASSUME NEW e \in Ends, PostMessage(e) PROVE Promise!Next
    <2>1. /\ Holder[e] \in Contexts /\ outgoing[e]
          /\ posted' = [posted EXCEPT ![Other(e)] = @ + 1]
          /\ queue' = [queue EXCEPT ![Other(e)] = Append(@, posted'[Other(e)])]
          /\ UNCHANGED <<place, alive, outgoing, received>>
      BY <1>2, <1>4 DEF PostMessage, channel
    <2>2. posted'[Other(e)] = posted[Other(e)] + 1 /\ Holder' = Holder
      BY <2>1 DEF QueueInv, Holder
    <2>3. Promise!Post(e)
      BY <1>1, <2>1, <2>2 DEF Promise!Post
    <2> QED
      BY <1>1, <2>3 DEF Promise!Next
  <1>5. ASSUME NEW e \in Ends, DispatchMessage(e) PROVE Promise!Next
    <2>1. /\ Holder[e] \in Contexts /\ queue[e] # <<>>
          /\ received' = [received EXCEPT ![e] = Head(queue[e])]
          /\ queue' = [queue EXCEPT ![e] = Tail(@)]
          /\ UNCHANGED <<place, alive, outgoing, posted>>
      BY <1>2, <1>5 DEF DispatchMessage, Serving, channel, context
    <2>2. Head(queue[e]) = received[e] + 1 /\ Holder' = Holder
      BY <2>1, RestTail DEF QueueInv, Holder
    <2>3. Promise!Receive(e)
      BY <1>1, <2>1, <2>2 DEF Promise!Receive
    <2> QED
      BY <1>1, <2>3 DEF Promise!Next
  <1>6. ASSUME NEW e \in Ends, Disentangled(e) PROVE Promise!Next
    <2>1. /\ Holder[e] \in Contexts /\ Holder'[e] = InTransit
          /\ Holder' = [Holder EXCEPT ![e] = Holder'[e]]
          /\ UNCHANGED <<outgoing, queue, posted, received>>
      BY <1>6, HolderMoves DEF Disentangled, HoldersAlive, ChannelInv, ChannelType, Holder, history
    <2>2. Promise!Send(e)
      BY <2>1 DEF Promise!Send, Promise!Move
    <2> QED
      BY <1>1, <2>2 DEF Promise!Next
  <1>7. ASSUME NEW e \in Ends, NEW c \in Contexts, Entangle(e, c) PROVE Promise!Next
    <2>1. /\ Holder[e] = InTransit
          /\ Holder'[e] = IF outgoing[e] THEN c ELSE Gone
          /\ UNCHANGED <<outgoing, queue, posted, received, alive>>
          /\ \A f \in Ends \ {e} : place'[f] = place[f]
      BY <1>7 DEF Entangle, ChannelInv, ChannelType, Closing, Holder, history, channel, context
    <2>2. Holder' = [Holder EXCEPT ![e] = Holder'[e]]
      BY <2>1, HolderMoves DEF ChannelInv
    <2>3. Promise!Arrive(e) \/ Promise!Lose(e)
      BY <2>1, <2>2 DEF Promise!Arrive, Promise!Lose, Promise!Move
    <2> QED
      BY <1>1, <2>3 DEF Promise!Next
  <1>8. ASSUME NEW e \in Ends, MessageLost(e) PROVE [Promise!Next]_(Promise!vars)
    <2>1. UNCHANGED <<outgoing, queue, posted, received, alive>>
      BY <1>8 DEF MessageLost, history, channel, context
    <2>2. CASE entangled[e]
      BY <1>3, <1>8, <2>1, <2>2 DEF MessageLost
    <2>3. CASE ~entangled[e]
      <3>1. /\ Holder[e] = InTransit /\ ~outgoing[e] /\ Holder'[e] = Gone
            /\ \A f \in Ends \ {e} : place'[f] = place[f]
        BY <1>8, <2>3 DEF MessageLost, ChannelInv, ChannelType, Closing, Holder
      <3>2. Promise!Lose(e)
        BY <2>1, <3>1, HolderMoves DEF Promise!Lose, Promise!Move, ChannelInv
      <3> QED
        BY <1>1, <3>2 DEF Promise!Next
    <2> QED
      BY <2>2, <2>3
  <1>9. ASSUME NEW e \in Ends, ContextDestroyed(e) PROVE UNCHANGED Promise!vars
    <2>1. /\ UNCHANGED <<outgoing, queue, posted, received, alive>>
          /\ place[e] \in Contexts /\ ~alive[place[e]] /\ place'[e] \in {place[e], Gone}
          /\ \A f \in Ends \ {e} : place'[f] = place[f]
      BY <1>9 DEF ContextDestroyed, BeginClose, history, channel, context, ChannelInv, ChannelType
    <2>2. Holder[e] = Gone /\ Holder'[e] = Gone
      BY <2>1 DEF Holder
    <2>3. Holder' = Holder
      BY <2>1, <2>2, HolderMoves DEF ChannelInv, Holder
    <2> QED
      BY <2>1, <2>3 DEF Promise!vars
  <1>10. ASSUME NEW e \in Ends, CloseSelf(e) PROVE Promise!Next
    <2>1. /\ outgoing' = [outgoing EXCEPT ![e] = FALSE] /\ Holder' = Holder
          /\ UNCHANGED <<queue, posted, received>>
      BY <1>10 DEF CloseSelf, CloseInternal, history, context, Holder
    <2>2. Promise!Shut(e)
      BY <2>1 DEF Promise!Shut
    <2> QED
      BY <1>1, <2>2 DEF Promise!Next
  <1>11. ASSUME NEW e \in Ends, CloseRemote(e) PROVE Promise!Next
    <2>1. /\ outgoing' = [outgoing EXCEPT ![Other(e)] = FALSE] /\ ~outgoing[e]
          /\ UNCHANGED <<queue, posted, received, alive>>
          /\ place' = [place EXCEPT ![e] = PlaceOnceClosed(e)]
      BY <1>11 DEF CloseRemote, CloseInternal, history, context, ChannelInv, Closing
    <2>2. Holder'[e] = IF Holder[e] = InTransit THEN Gone ELSE Holder[e]
      BY <2>1 DEF PlaceOnceClosed, Holder, ChannelInv, ChannelType
    <2>3. Holder' = [Holder EXCEPT ![e] = Holder'[e]]
      BY <2>1, HolderMoves DEF ChannelInv, ChannelType
    <2>4. Holder' = Holder \/ (Holder[e] = InTransit /\ Holder' = [Holder EXCEPT ![e] = Gone])
      <3>1. Holder = [f \in Ends |-> Holder[f]]
        BY DEF Holder
      <3> QED
        BY <2>2, <2>3, <3>1
    <2>5. Promise!Shut(Other(e))
      BY <1>1, <2>1, <2>4 DEF Promise!Shut
    <2> QED
      BY <1>1, <2>5 DEF Promise!Next
  <1>12. ASSUME NEW c \in Contexts, DestroyContext(c) PROVE Promise!Next
    <2>1. /\ UNCHANGED <<place, outgoing, queue, posted, received>>
          /\ alive[c] /\ \A d \in Contexts : alive'[d] = IF d = c THEN FALSE ELSE alive[d]
      BY <1>12 DEF DestroyContext, channel, history, ContextType
    <2>2. \A e \in Ends : Holder'[e] = IF Holder[e] = c THEN Gone ELSE Holder[e]
      BY <2>1, ZenonT(40) DEF Holder, ChannelInv, ChannelType
    <2>3. Holder' = [e \in Ends |-> IF Holder[e] = c THEN Gone ELSE Holder[e]]
      BY <2>2 DEF Holder
    <2>4. Promise!Destroy(c)
      BY <1>1, <2>1, <2>3 DEF Promise!Destroy
    <2> QED
      BY <2>4 DEF Promise!Next
  <1>13. ASSUME NEW e \in Ends,
                Start(e) \/ Disentangle(e) \/ Entangled(e) \/ Close(e) \/ DispatchedAll(e)
         PROVE  UNCHANGED Promise!vars
    BY <1>3, <1>13 DEF Start, Disentangle, Entangled, Close, DispatchedAll, channel, context, history
  <1>14. ASSUME NEW c \in Contexts, DispatchPorts(c) PROVE UNCHANGED Promise!vars
    BY <1>3, <1>14 DEF DispatchPorts, channel, history
  <1>15. CASE UNCHANGED vars
    BY <1>3, <1>15 DEF vars, channel, context, history
  <1> QED
    BY <1>4, <1>5, <1>6, <1>7, <1>8, <1>9, <1>10, <1>11, <1>12, <1>13, <1>14, <1>15 DEF Next

\* The ends are sent, entangled and closed in steps under two mutexes, and still
\* each gets what was posted to it in order, only from where it is, and nothing
\* is posted through an end that was closed.
THEOREM ChannelIsKept == Spec => ImplementsChannel
  <1>1. Init => HoldersAlive /\ Promise!Init
    <2> SUFFICES ASSUME Init PROVE HoldersAlive /\ Promise!Init
      OBVIOUS
    <2>1. PICK c \in Contexts : place = [e \in Ends |-> c]
      BY DEF Init
    <2>2. Promise!Ends = Ends /\ Holder = [e \in Ends |-> c]
      BY <2>1, PlacesAssumption DEF Init, Holder, Promise!Ends, Ends
    <2> QED
      BY <2>2 DEF Init, HoldersAlive, Promise!Init
  <1>2. ChannelInv => ChannelType
    BY DEF ChannelInv
  <1> QED
    BY <1>1, <1>2, HoldersAliveNext, PromiseStep, ChannelInvariant, QueueInvariant, ContextInvariant,
       PTL DEF Spec, ImplementsChannel, Promise!Spec

=============================================================================
