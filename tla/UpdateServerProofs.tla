------------------------- MODULE UpdateServerProofs -------------------------
(***************************************************************************)
(* Proofs about the update server and its broker, and about the process    *)
(* they run in.  Of TopologyProofs they use RoutesAsListed, which is about *)
(* any topology: the constants of TopologyIndex play no part.              *)
(***************************************************************************)
EXTENDS ServerProcess, BrokerProofs, TopologyProofs

(***************************************************************************)
(* The server uses the broker as the broker's own specification allows:    *)
(* every step of the server is a step of the broker or leaves it alone, so *)
(* what is true of the broker with any callers is true inside the server.  *)
(***************************************************************************)
LEMMA StepIsBrokerStep == [Next]_vars => [BrokerNext]_brokerVars
<1> SUFFICES ASSUME [Next]_vars
             PROVE  [BrokerNext]_brokerVars
  OBVIOUS
<1>1. CASE UNCHANGED vars
  BY <1>1 DEF vars
<1>2. CASE Next
  <2> USE <1>2 DEF Next, BrokerNext, Methods, Stream
  <2>1. CASE Listen \/ SetListener \/ GoBroker \/ ServeFails \/ StopBegin
             \/ StopListener
    BY <2>1 DEF Listen, SetListener, GoBroker, ServeFails, StopBegin,
                StopListener
  <2>2. CASE StopBroker
    BY <2>2 DEF StopBroker
  <2>3. CASE BrokerLoop
    BY <2>3 DEF BrokerLoop
  <2>4. ASSUME NEW s \in Stream, Accept(s) \/ ConnLost(s) \/ SendRelease(s)
        PROVE  [BrokerNext]_brokerVars
    BY <2>4 DEF Accept, ConnLost, SendRelease
  <2>5. ASSUME NEW s \in Stream, OpenStream(s) \/ Subscribe(s)
        PROVE  [BrokerNext]_brokerVars
    BY <2>5 DEF OpenStream, Subscribe
  <2>6. ASSUME NEW s \in Stream, ReceiveRelease(s)
        PROVE  [BrokerNext]_brokerVars
    BY <2>6 DEF ReceiveRelease
  <2>7. ASSUME NEW s \in Stream, Return(s) \/ Unsubscribe(s)
        PROVE  [BrokerNext]_brokerVars
    BY <2>7 DEF Return, Unsubscribe
  <2>8. ASSUME NEW m \in Message, PropagateGithubRelease(m) \/ Broadcast(m)
        PROVE  [BrokerNext]_brokerVars
    BY <2>8 DEF PropagateGithubRelease, Broadcast
  <2>9. QED
    BY <2>1, <2>2, <2>3, <2>4, <2>5, <2>6, <2>7, <2>8
<1>3. QED
  BY <1>1, <1>2

(* The server implements the specification of its broker.                  *)
THEOREM ServerImplementsBroker == Spec => BrokerSpec
<1>1. Init => BrokerInit
  BY DEF Init
<1>2. QED
  BY <1>1, StepIsBrokerStep, PTL DEF Spec, BrokerSpec

-----------------------------------------------------------------------------
(***************************************************************************)
(* Type correctness.  A handler about to send has a release for its host   *)
(* in hand.                                                                *)
(***************************************************************************)
TypeInv ==
  /\ ServerTypeOK
  /\ BrokerTypeInv

(* The last element of a queue that is not empty is an element.            *)
LEMMA LastIsElement ==
  ASSUME NEW S, NEW q \in Seq(S), q # <<>>
  PROVE  Last(q) \in S
<1>1. Len(q) \in 1 .. Len(q)
  BY EmptySeq
<1>2. QED
  BY <1>1, ElementOfSeq DEF Last

(* A queue something was appended to is not empty, and ends with it.       *)
LEMMA LastOfAppend ==
  ASSUME NEW S, NEW q \in Seq(S), NEW e \in S
  PROVE  Append(q, e) # <<>> /\ Last(Append(q, e)) = e
<1>1. /\ Len(Append(q, e)) = Len(q) + 1
      /\ Len(q) \in Nat
      /\ Append(q, e)[Len(q) + 1] = e
  BY AppendProperties
<1>2. Len(<<>>) = 0
  BY EmptySeq
<1>3. QED
  BY <1>1, <1>2 DEF Last

(* A new server has its types.                                             *)
LEMMA InitTypeInv == Init => TypeInv
<1> SUFFICES ASSUME Init
             PROVE  TypeInv
  OBVIOUS
<1>1. BrokerTypeInv
  BY BrokerInitTypeInv DEF Init
<1>2. TypeOK
  BY <1>1 DEF BrokerTypeInv
<1>3. ServerTypeOK
  BY <1>2, EmptySeq DEF Init, ServerTypeOK
<1>4. \A s \in Stream : at[s] # "send"
  BY DEF Init
<1>5. QED
  BY <1>1, <1>3, <1>4 DEF TypeInv

(* What the server adds to the broker keeps its type.                      *)
ServerPart ==
  /\ start \in {"idle", "bound", "listening", "serving", "returned",
                "listenError", "serveError"}
  /\ listener \in {"none", "open", "closed"}
  /\ lnSet \in BOOLEAN
  /\ isClosed \in BOOLEAN
  /\ stop \in {"idle", "flagged", "lnClosed"}
  /\ conn \in [Stream -> {"none", "up", "down"}]
  /\ at \in [Stream -> {"recv", "send", "return"}]
  /\ sent \in [Stream -> Seq(Message)]
  /\ \A s \in Stream : at[s] = "send" => got[s] # <<>> /\ Wants(s, Last(got[s]))

(* Every step of the server keeps them.                                    *)
LEMMA StepTypeInv == TypeInv /\ [Next]_vars => TypeInv'
<1> SUFFICES ASSUME TypeInv, [Next]_vars
             PROVE  TypeInv'
  OBVIOUS
<1>1. BrokerTypeInv'
  <2>1. BrokerTypeInv /\ UNCHANGED brokerVars => BrokerTypeInv'
    BY DEF BrokerTypeInv, TypeOK, brokerVars, startVars, requests, clients
  <2>2. QED
    BY <2>1, StepIsBrokerStep, LoopTypeInv, MethodsTypeInv
       DEF TypeInv, BrokerNext
<1>2. ServerPart'
  <2> ServerPart /\ TypeOK
    BY DEF TypeInv, ServerTypeOK, ServerPart
  <2> USE DEF ServerPart, lifecycle, streams
  <2>1. CASE UNCHANGED vars
    BY <2>1 DEF vars, brokerVars, clients
  <2>2. CASE Listen \/ SetListener \/ GoBroker \/ ServeFails \/ StopBegin
             \/ StopListener
    BY <2>2 DEF Listen, SetListener, GoBroker, ServeFails, StopBegin,
                StopListener, brokerVars, clients
  <2>3. CASE StopBroker
    BY <2>3 DEF StopBroker, StopFlag, StopClose, clients
  <2>4. CASE BrokerLoop
    <3>1. UNCHANGED got
      BY <2>4 DEF BrokerLoop, Loop, StartLoop, SelectSub, SelectSubClosed,
                  SelectUnsub, SelectUnsubClosed, SelectBroadcast,
                  TakeBroadcast, SelectBroadcastClosed, SelectStop, Fanout,
                  CloseSub, clients
    <3>2. QED
      BY <2>4, <3>1 DEF BrokerLoop
  <2>5. ASSUME NEW s \in Stream, Accept(s) \/ ConnLost(s)
        PROVE  ServerPart'
    BY <2>5 DEF Accept, ConnLost, brokerVars, clients
  <2>6. ASSUME NEW s \in Stream, OpenStream(s) \/ Subscribe(s)
        PROVE  ServerPart'
    BY <2>6 DEF OpenStream, Subscribe, SubscribeCheck, SubscribeSend
  <2>7. ASSUME NEW s \in Stream, ReceiveRelease(s)
        PROVE  ServerPart'
    <3>1. PICK v \in Message \cup {Nil} :
            /\ Receive(s, v)
            /\ at' = [at EXCEPT ![s] = IF v = Nil THEN "return"
                                       ELSE IF Wants(s, v) THEN "send"
                                                           ELSE "recv"]
      BY <2>7 DEF ReceiveRelease
    <3>2. at' \in [Stream -> {"recv", "send", "return"}]
      BY <3>1
    <3>3. ASSUME NEW t \in Stream, at'[t] = "send"
          PROVE  got'[t] # <<>> /\ Wants(t, Last(got'[t]))
      <4>1. CASE t = s
        <5>1. v # Nil /\ Wants(s, v)
          BY <3>1, <3>3, <4>1
        <5>2. v \in Message
          BY <5>1
        <5>3. got' = [got EXCEPT ![s] = Append(@, v)]
          BY <3>1, <5>1 DEF Receive
        <5>4. got'[s] = Append(got[s], v) /\ got[s] \in Seq(Message)
          BY <5>3 DEF TypeOK, Stream
        <5>5. \A q \in Seq(Message) :
                 Append(q, v) # <<>> /\ Last(Append(q, v)) = v
          BY <5>2, LastOfAppend
        <5>6. QED
          BY <4>1, <5>1, <5>4, <5>5
      <4>2. CASE t # s
        BY <3>1, <3>3, <4>2 DEF Receive, TypeOK, Stream
      <4>3. QED
        BY <4>1, <4>2
    <3>4. QED
      BY <2>7, <3>2, <3>3 DEF ReceiveRelease
  <2>8. ASSUME NEW s \in Stream, SendRelease(s)
        PROVE  ServerPart'
    <3>1. Last(got[s]) \in Message
      BY <2>8, LastIsElement DEF SendRelease, TypeOK, Stream
    <3>2. Append(sent[s], Last(got[s])) \in Seq(Message)
      BY <3>1, AppendProperties
    <3>3. sent' \in [Stream -> Seq(Message)]
      BY <2>8, <3>2 DEF SendRelease
    <3>4. UNCHANGED got
      BY <2>8 DEF SendRelease, brokerVars, clients
    <3>5. QED
      BY <2>8, <3>3, <3>4 DEF SendRelease
  <2>9. ASSUME NEW s \in Stream, Return(s) \/ Unsubscribe(s)
        PROVE  ServerPart'
    BY <2>9 DEF Return, Unsubscribe, UnsubscribeCheck, UnsubscribeSend
  <2>10. ASSUME NEW m \in Message, PropagateGithubRelease(m) \/ Broadcast(m)
         PROVE  ServerPart'
    BY <2>10 DEF PropagateGithubRelease, Broadcast, BroadcastCheck, BroadcastSend
  <2>11. QED
    BY <2>1, <2>2, <2>3, <2>4, <2>5, <2>6, <2>7, <2>8, <2>9, <2>10 DEF Next
<1>3. QED
  BY <1>1, <1>2 DEF TypeInv, ServerTypeOK, ServerPart, BrokerTypeInv

(* The state of the whole server has its type in every behaviour.          *)
THEOREM ServerTypeCorrect == Spec => []ServerTypeOK
<1>1. TypeInv => ServerTypeOK
  BY DEF TypeInv
<1>2. QED
  BY InitTypeInv, StepTypeInv, <1>1, PTL DEF Spec

-----------------------------------------------------------------------------
(***************************************************************************)
(* Until Stop reaches the broker nothing panics and the count is exact.    *)
(* The invariant says where a stream's channel can be: nowhere before it   *)
(* is subscribed, then in exactly one of subC, the map of subscribers and  *)
(* the closed channels, and in unsubC only while it is in the map.  The    *)
(* last holds although the loop reads subC and unsubC in any order,        *)
(* because a handler that leaves has received from its channel, and only   *)
(* a channel in the map is ever sent to.                                   *)
(***************************************************************************)
Pending == ToSet(subC)
Leaving == ToSet(unsubC)

Placed(s) ==
  /\ caller[s] \in {"idle", "subscribing", "refused"} =>
       s \notin Pending \cup Leaving \cup subs \cup closed
  /\ caller[s] = "open" => s \in Pending \cup subs
  /\ caller[s] = "unsubscribing" => s \in subs
  /\ caller[s] = "left" => s \in subs \cup closed
  /\ s \in Pending => caller[s] = "open" /\ s \notin subs
  /\ s \in Leaving => caller[s] = "left" /\ s \in subs
  /\ s \in closed => caller[s] = "left" /\ s \notin subs
  /\ s \notin subs \cup closed => buf[s] = <<>> /\ at[s] = "recv"

Running ==
  /\ fault = "none"
  /\ loop \in {"new", "select", "fanout"}
  /\ isStopped <=> loop = "new"
  /\ loop = "new" => subs = {}
  /\ Nil \notin subs
  /\ IsInjective(subC)
  /\ IsInjective(unsubC)
  /\ count = Cardinality(subs)
  /\ \A s \in Stream : Placed(s)

RunningInv == TypeInv /\ (stopStep = 0 => Running)

(* Taking the head of a queue without repetition takes one element from    *)
(* the set of its elements ...                                             *)
LEMMA TailOfDistinct ==
  ASSUME NEW S, NEW q \in Seq(S), q # <<>>, IsInjective(q)
  PROVE  /\ Head(q) \in ToSet(q)
         /\ ToSet(Tail(q)) = ToSet(q) \ {Head(q)}
         /\ IsInjective(Tail(q))
<1> DEFINE t == Tail(q)
<1>1. /\ Len(q) \in Nat /\ Len(q) > 0
      /\ Len(t) = Len(q) - 1
      /\ DOMAIN q = 1 .. Len(q) /\ DOMAIN t = 1 .. Len(t)
      /\ Head(q) = q[1]
      /\ \A i \in 1 .. Len(t) : t[i] = q[i + 1]
  BY HeadTailProperties, EmptySeq
<1> HIDE DEF t
<1>2. Head(q) \in ToSet(q)
  BY <1>1 DEF ToSet
<1>3. \A i \in 1 .. Len(t) : i + 1 \in 1 .. Len(q) /\ i + 1 # 1
  BY <1>1
<1>4. ASSUME NEW x \in ToSet(t)
      PROVE  x \in ToSet(q) \ {Head(q)}
  <2>1. PICK i \in 1 .. Len(t) : x = q[i + 1]
    BY <1>1 DEF ToSet
  <2>2. x \in ToSet(q)
    BY <1>1, <1>3, <2>1 DEF ToSet
  <2>3. x # q[1]
    BY <1>1, <1>3, <2>1 DEF IsInjective
  <2>4. QED
    BY <1>1, <2>2, <2>3
<1>5. ASSUME NEW x \in ToSet(q) \ {Head(q)}
      PROVE  x \in ToSet(t)
  <2>1. PICK j \in 1 .. Len(q) : x = q[j]
    BY <1>1 DEF ToSet
  <2>2. j # 1
    BY <1>1, <2>1
  <2>3. j - 1 \in 1 .. Len(t) /\ t[j - 1] = x
    BY <1>1, <2>1, <2>2
  <2>4. QED
    BY <1>1, <2>3 DEF ToSet
<1>6. ToSet(t) = ToSet(q) \ {Head(q)}
  BY <1>4, <1>5
<1>7. IsInjective(t)
  <2> SUFFICES ASSUME NEW i \in 1 .. Len(t), NEW j \in 1 .. Len(t), t[i] = t[j]
               PROVE  i = j
    BY <1>1 DEF IsInjective
  <2>1. q[i + 1] = q[j + 1]
    BY <1>1
  <2>2. i + 1 = j + 1
    BY <1>1, <1>3, <2>1 DEF IsInjective
  <2>3. QED
    BY <2>2
<1>8. QED
  BY <1>2, <1>6, <1>7 DEF t

(* ... and appending an element that is not in it adds one.                *)
LEMMA AppendToDistinct ==
  ASSUME NEW S, NEW q \in Seq(S), NEW e \in S, e \notin ToSet(q),
         IsInjective(q)
  PROVE  /\ ToSet(Append(q, e)) = ToSet(q) \cup {e}
         /\ IsInjective(Append(q, e))
<1> DEFINE a == Append(q, e)
<1>1. /\ Len(q) \in Nat
      /\ DOMAIN q = 1 .. Len(q) /\ DOMAIN a = 1 .. Len(q) + 1
      /\ \A i \in 1 .. Len(q) : a[i] = q[i]
      /\ a[Len(q) + 1] = e
  BY AppendProperties
<1> HIDE DEF a
<1>2. \A i \in 1 .. Len(q) : q[i] \in ToSet(q) /\ q[i] # e
  BY <1>1 DEF ToSet
<1>3. \A i \in 1 .. Len(q) + 1 : i \in 1 .. Len(q) \/ i = Len(q) + 1
  BY <1>1
<1>4. ToSet(a) = ToSet(q) \cup {e}
  <2>1. ASSUME NEW x \in ToSet(a)
        PROVE  x \in ToSet(q) \cup {e}
    BY <1>1, <1>2, <1>3 DEF ToSet
  <2>2. ASSUME NEW x \in ToSet(q)
        PROVE  x \in ToSet(a)
    BY <1>1 DEF ToSet
  <2>3. e \in ToSet(a)
    BY <1>1 DEF ToSet
  <2>4. QED
    BY <2>1, <2>2, <2>3
<1>5. IsInjective(a)
  <2> SUFFICES ASSUME NEW i \in 1 .. Len(q) + 1, NEW j \in 1 .. Len(q) + 1,
                      a[i] = a[j]
               PROVE  i = j
    BY <1>1 DEF IsInjective
  <2>1. CASE i \in 1 .. Len(q) /\ j \in 1 .. Len(q)
    BY <1>1, <2>1 DEF IsInjective
  <2>2. CASE i \in 1 .. Len(q) /\ j = Len(q) + 1
    BY <1>1, <1>2, <2>2
  <2>3. CASE i = Len(q) + 1 /\ j \in 1 .. Len(q)
    BY <1>1, <1>2, <2>3
  <2>4. QED
    BY <1>3, <2>1, <2>2, <2>3
<1>6. QED
  BY <1>4, <1>5 DEF a

(* A new server has placed no channel anywhere.                            *)
LEMMA InitRunning == Init => Running
<1> SUFFICES ASSUME Init
             PROVE  Running
  OBVIOUS
<1>1. /\ subs = {} /\ closed = {} /\ subC = <<>> /\ unsubC = <<>>
      /\ count = 0 /\ fault = "none" /\ loop = "new" /\ isStopped = TRUE
      /\ \A s \in Stream : caller[s] = "idle" /\ buf[s] = <<>> /\ at[s] = "recv"
  BY DEF Init, BrokerInit, Stream
<1>2. ToSet(subC) = {} /\ ToSet(unsubC) = {} /\ IsInjective(subC)
      /\ IsInjective(unsubC)
  BY <1>1 DEF ToSet, IsInjective
<1>3. Cardinality(subs) = 0
  BY <1>1, FS_EmptySet
<1>4. ASSUME NEW s \in Stream
      PROVE  Placed(s)
  BY <1>1, <1>2 DEF Placed, Pending, Leaving
<1>5. QED
  BY <1>1, <1>2, <1>3, <1>4 DEF Running

(* A running state stays so when nothing the invariant speaks of changes.  *)
runningVars == <<fault, loop, isStopped, subs, subC, unsubC, count, closed,
                 caller, buf, at>>

LEMMA RunningUnchanged == Running /\ UNCHANGED runningVars => Running'
BY DEF Running, Placed, Pending, Leaving, runningVars

(* The steps of the loop, before Stop has closed any control channel.      *)
LEMMA LoopRunning ==
  ASSUME BrokerTypeInv, stopStep = 0, Running, BrokerLoop
  PROVE  Running'
<1> USE DEF Stream
<1> TypeOK /\ (loop \in {"new", "select", "done"} => todo = {})
  BY DEF BrokerTypeInv
<1> IsFiniteSet(subs)
  BY BrokerAssumption, FS_Subset, FS_AddElement DEF BrokerAssumption, TypeOK
<1>0. UNCHANGED at
  BY DEF BrokerLoop, streams
<1>1. CASE StartLoop
  BY <1>0, <1>1 DEF StartLoop, Running, Placed, Pending, Leaving, requests, clients
<1>2. CASE SelectSub
  <2> DEFINE h == Head(subC)
  <2>1. /\ h \in Pending /\ h \in Channel
        /\ Pending' = Pending \ {h} /\ IsInjective(subC')
    BY <1>2, TailOfDistinct, TailBound, BrokerAssumption
       DEF SelectSub, Running, TypeOK, Pending, BrokerAssumption
  <2>2. /\ subs' = subs \cup {h} /\ count' = count + 1
        /\ UNCHANGED <<fault, loop, isStopped, unsubC, closed, caller, buf>>
    BY <1>2 DEF SelectSub, clients
  <2> HIDE DEF h
  <2>3. h \notin subs /\ caller[h] = "open"
    BY <2>1 DEF Running, Placed
  <2>4. Cardinality(subs') = Cardinality(subs) + 1
    BY <2>2, <2>3, FS_AddElement
  <2>5. ASSUME NEW s \in Stream
        PROVE  Placed(s)'
    BY <1>0, <2>1, <2>2, <2>3 DEF Running, Placed, Leaving
  <2>6. Nil \notin subs' /\ loop' # "new"
    BY <1>2, <2>1, <2>2, BrokerAssumption DEF SelectSub, Running, BrokerAssumption
  <2>7. QED
    BY <2>1, <2>2, <2>4, <2>5, <2>6 DEF Running
<1>3. CASE SelectUnsub
  <2> DEFINE h == Head(unsubC)
  <2>1. /\ h \in Leaving /\ h \in Channel
        /\ Leaving' = Leaving \ {h} /\ IsInjective(unsubC')
    BY <1>3, TailOfDistinct, TailBound, BrokerAssumption
       DEF SelectUnsub, Running, TypeOK, Leaving, BrokerAssumption
  <2>2. h \in subs /\ caller[h] = "left" /\ h \notin closed
    BY <2>1 DEF Running, Placed
  <2>3. /\ subs' = subs \ {h} /\ closed' = closed \cup {h} /\ count' = count - 1
        /\ UNCHANGED <<fault, loop, isStopped, subC, caller, buf>>
    BY <1>3, <2>2 DEF SelectUnsub, Forget, clients
  <2> HIDE DEF h
  <2>4. Cardinality(subs') = Cardinality(subs) - 1
    BY <2>2, <2>3, FS_RemoveElement
  <2>5. ASSUME NEW s \in Stream
        PROVE  Placed(s)'
    BY <1>0, <2>1, <2>2, <2>3 DEF Running, Placed, Pending
  <2>6. Nil \notin subs' /\ loop' # "new"
    BY <1>3, <2>3 DEF SelectUnsub, Running
  <2>7. QED
    BY <2>1, <2>3, <2>4, <2>5, <2>6 DEF Running
<1>4. CASE SelectBroadcast
  BY <1>0, <1>4 DEF SelectBroadcast, TakeBroadcast, BeginFanout, Running,
                    Placed, Pending, Leaving, clients
<1>5. ASSUME NEW c \in Channel \cup {Nil}, Fanout(c)
      PROVE  Running'
  <2>1. c \in subs /\ c \in Channel /\ c \notin closed
    BY <1>5 DEF Fanout, TypeOK, Running, Placed
  <2>2. /\ loop' \in {"select", "fanout"} /\ loop = "fanout"
        /\ buf' = buf \/ buf' = [buf EXCEPT ![c] = Append(@, msg)]
        /\ UNCHANGED <<fault, isStopped, subs, count, subC, unsubC, closed, caller>>
    BY <1>5, <2>1 DEF Fanout, requests, clients
  <2>3. ASSUME NEW s \in Stream
        PROVE  Placed(s)'
    BY <1>0, <2>1, <2>2 DEF Running, Placed, Pending, Leaving, TypeOK
  <2>4. QED
    BY <2>2, <2>3 DEF Running
<1>6. ~ (SelectSubClosed \/ SelectUnsubClosed \/ SelectBroadcastClosed \/ SelectStop)
  BY DEF SelectSubClosed, SelectUnsubClosed, SelectBroadcastClosed, SelectStop,
         SubCClosed, UnsubCClosed, BroadcastCClosed, StopCClosed
<1>7. ASSUME NEW c \in Channel \cup {Nil}
      PROVE  ~ CloseSub(c)
  BY DEF CloseSub, Running
<1>8. QED
  BY <1>1, <1>2, <1>3, <1>4, <1>5, <1>6, <1>7 DEF BrokerLoop, Loop

(* The steps of a stream's handler and of its connection.                  *)
LEMMA StreamRunning ==
  ASSUME TypeInv, stopStep = 0, Running, NEW s \in Stream,
         \/ Accept(s) \/ ConnLost(s) \/ OpenStream(s) \/ Subscribe(s)
         \/ ReceiveRelease(s) \/ SendRelease(s) \/ Return(s) \/ Unsubscribe(s)
  PROVE  Running'
<1> USE DEF Stream, lifecycle, streams
<1> TypeOK /\ at \in [Stream -> {"recv", "send", "return"}]
  BY DEF TypeInv, ServerTypeOK
<1>1. CASE Accept(s) \/ ConnLost(s)
  BY <1>1, RunningUnchanged
     DEF Accept, ConnLost, runningVars, brokerVars, startVars, requests, clients
<1>2. CASE OpenStream(s)
  <2>1. /\ caller[s] = "idle"
        /\ caller' = [caller EXCEPT ![s] = IF isStopped THEN "refused"
                                                        ELSE "subscribing"]
        /\ UNCHANGED <<fault, loop, isStopped, subs, subC, unsubC, count, closed,
                        buf, at>>
    BY <1>2 DEF OpenStream, SubscribeCheck, startVars, requests
  <2>2. ASSUME NEW t \in Stream
        PROVE  Placed(t)'
    BY <2>1 DEF Running, Placed, Pending, Leaving, TypeOK
  <2>3. QED
    BY <2>1, <2>2 DEF Running
<1>3. CASE Subscribe(s)
  <2>1. /\ caller[s] = "subscribing" /\ subC' = Append(subC, s)
        /\ caller' = [caller EXCEPT ![s] = "open"]
        /\ UNCHANGED <<fault, loop, isStopped, subs, unsubC, count, closed, buf, at>>
    BY <1>3 DEF Subscribe, SubscribeSend, SubCClosed, startVars
  <2>2. s \notin Pending \cup Leaving \cup subs \cup closed
    BY <2>1 DEF Running, Placed
  <2>3. Pending' = Pending \cup {s} /\ IsInjective(subC')
    BY <2>1, <2>2, AppendToDistinct DEF Running, Pending, TypeOK
  <2>4. ASSUME NEW t \in Stream
        PROVE  Placed(t)'
    BY <2>1, <2>2, <2>3 DEF Running, Placed, Leaving, TypeOK
  <2>5. QED
    BY <2>1, <2>3, <2>4 DEF Running
<1>4. CASE ReceiveRelease(s)
  <2>1. /\ caller[s] = "open"
        /\ buf[s] # <<>> \/ s \in closed
        /\ UNCHANGED <<fault, loop, isStopped, subs, subC, unsubC, count, closed,
                        caller>>
        /\ \A t \in Stream : t # s => at'[t] = at[t] /\ buf'[t] = buf[t]
    BY <1>4 DEF ReceiveRelease, Receive, startVars, requests, TypeOK
  <2>2. s \in subs
    BY <2>1 DEF Running, Placed
  <2>3. ASSUME NEW t \in Stream
        PROVE  Placed(t)'
    BY <2>1, <2>2 DEF Running, Placed, Pending, Leaving
  <2>4. QED
    BY <2>1, <2>3 DEF Running
<1>5. CASE SendRelease(s)
  <2>1. /\ at[s] = "send"
        /\ \A t \in Stream : t # s => at'[t] = at[t]
        /\ UNCHANGED <<fault, loop, isStopped, subs, subC, unsubC, count, closed,
                        caller, buf>>
    BY <1>5 DEF SendRelease, brokerVars, startVars, requests, clients
  <2>2. s \in subs \cup closed
    BY <2>1 DEF Running, Placed
  <2>3. ASSUME NEW t \in Stream
        PROVE  Placed(t)'
    BY <2>1, <2>2 DEF Running, Placed, Pending, Leaving
  <2>4. QED
    BY <2>1, <2>3 DEF Running
<1>6. CASE Return(s)
  <2>1. /\ at[s] = "return" /\ caller[s] = "open"
        /\ caller' = [caller EXCEPT ![s] = IF isStopped THEN "left"
                                                        ELSE "unsubscribing"]
        /\ UNCHANGED <<fault, loop, isStopped, subs, subC, unsubC, count, closed,
                        buf, at>>
    BY <1>6 DEF Return, UnsubscribeCheck, startVars, requests
  <2>2. s \in subs /\ s \notin closed /\ s \notin Pending /\ s \notin Leaving
    BY <2>1 DEF Running, Placed
  <2>3. ~ isStopped
    BY <2>2 DEF Running
  <2>4. ASSUME NEW t \in Stream
        PROVE  Placed(t)'
    BY <2>1, <2>2, <2>3 DEF Running, Placed, Pending, Leaving, TypeOK
  <2>5. QED
    BY <2>1, <2>4 DEF Running
<1>7. CASE Unsubscribe(s)
  <2>1. /\ caller[s] = "unsubscribing" /\ unsubC' = Append(unsubC, s)
        /\ caller' = [caller EXCEPT ![s] = "left"]
        /\ UNCHANGED <<fault, loop, isStopped, subs, subC, count, closed, buf, at>>
    BY <1>7 DEF Unsubscribe, UnsubscribeSend, UnsubCClosed, startVars
  <2>2. s \in subs /\ s \notin Leaving \cup closed \cup Pending
    BY <2>1 DEF Running, Placed
  <2>3. Leaving' = Leaving \cup {s} /\ IsInjective(unsubC')
    BY <2>1, <2>2, AppendToDistinct DEF Running, Leaving, TypeOK
  <2>4. ASSUME NEW t \in Stream
        PROVE  Placed(t)'
    BY <2>1, <2>2, <2>3 DEF Running, Placed, Pending, TypeOK
  <2>5. QED
    BY <2>1, <2>3, <2>4 DEF Running
<1>8. QED
  BY <1>1, <1>2, <1>3, <1>4, <1>5, <1>6, <1>7

(* Every step before the broker is stopped preserves the invariant.        *)
LEMMA StepRunningInv == RunningInv /\ [Next]_vars => RunningInv'
<1> SUFFICES ASSUME RunningInv, [Next]_vars
             PROVE  RunningInv'
  OBVIOUS
<1>1. TypeInv'
  BY StepTypeInv DEF RunningInv
<1>2. ASSUME stopStep' = 0
      PROVE  Running'
  <2> TypeInv /\ BrokerTypeInv /\ TypeOK
    BY DEF RunningInv, TypeInv, ServerTypeOK
  <2>1. CASE StopBroker
    <3>1. stopStep' # 0
      BY <2>1 DEF StopBroker, StopFlag, StopClose, TypeOK
    <3>2. QED
      BY <1>2, <3>1
  <2>2. CASE ~ StopBroker
    <3>1. CASE \/ UNCHANGED vars
               \/ Listen \/ SetListener \/ GoBroker \/ ServeFails
               \/ StopBegin \/ StopListener
      <4>1. UNCHANGED brokerVars /\ UNCHANGED at
        BY <3>1 DEF vars, Listen, SetListener, GoBroker, ServeFails, StopBegin,
                    StopListener, streams
      <4>2. stopStep = 0 /\ UNCHANGED runningVars
        BY <1>2, <4>1 DEF brokerVars, startVars, requests, clients, runningVars
      <4>3. QED
        BY <4>2, RunningUnchanged DEF RunningInv
    <3>2. CASE BrokerLoop
      <4>1. UNCHANGED stopStep
        BY <3>2 DEF BrokerLoop, Loop, StartLoop, SelectSub, SelectSubClosed,
                    SelectUnsub, SelectUnsubClosed, SelectBroadcast,
                    TakeBroadcast, SelectBroadcastClosed, SelectStop, Fanout,
                    CloseSub
      <4>2. QED
        BY <1>2, <3>2, <4>1, LoopRunning DEF RunningInv
    <3>3. ASSUME NEW s \in Stream,
                 \/ Accept(s) \/ ConnLost(s) \/ OpenStream(s) \/ Subscribe(s)
                 \/ ReceiveRelease(s) \/ SendRelease(s) \/ Return(s)
                 \/ Unsubscribe(s)
          PROVE  Running'
      <4>1. UNCHANGED stopStep
        BY <3>3 DEF Accept, ConnLost, OpenStream, Subscribe, ReceiveRelease,
                    SendRelease, Return, Unsubscribe, SubscribeCheck,
                    SubscribeSend, Receive, UnsubscribeCheck, UnsubscribeSend,
                    brokerVars
      <4>2. QED
        BY <1>2, <3>3, <4>1, StreamRunning DEF RunningInv
    <3>4. ASSUME NEW m \in Message, PropagateGithubRelease(m) \/ Broadcast(m)
          PROVE  Running'
      <4>1. UNCHANGED <<stopStep, runningVars>>
        BY <3>4 DEF PropagateGithubRelease, Broadcast, BroadcastCheck,
                    BroadcastSend, startVars, requests, streams, runningVars
      <4>2. QED
        BY <1>2, <4>1, RunningUnchanged DEF RunningInv
    <3>5. QED
      BY <2>2, <3>1, <3>2, <3>3, <3>4 DEF Next
  <2>3. QED
    BY <2>1, <2>2
<1>3. QED
  BY <1>1, <1>2 DEF RunningInv

(* So it holds until then.                                                 *)
LEMMA RunningInvariant == Spec => []RunningInv
<1>1. Init => RunningInv
  BY InitTypeInv, InitRunning DEF RunningInv
<1>2. QED
  BY <1>1, StepRunningInv, PTL DEF Spec

(* Until Stop sets the broker's flag nothing panics, for any number of     *)
(* streams and releases and any capacity of the channels.                  *)
THEOREM NoFaultBeforeStop == Spec => []NoFaultWhileRunning
<1>1. RunningInv => NoFaultWhileRunning
  BY DEF RunningInv, Running, NoFaultWhileRunning
<1>2. QED
  BY RunningInvariant, <1>1, PTL

(* Until then the connection count is the number of channels in the map,   *)
(* and these are the subscribed ones that are neither waiting in subC nor  *)
(* closed.                                                                 *)
THEOREM CountExactBeforeStop == Spec => []CountIsExact
<1>1. RunningInv => CountIsExact
  <2> SUFFICES ASSUME RunningInv, stopStep = 0
               PROVE  CountIsExact
    BY DEF CountIsExact
  <2>1. Running /\ TypeOK
    BY DEF RunningInv, TypeInv, ServerTypeOK
  <2>2. subs \subseteq Stream
    BY <2>1 DEF Running, TypeOK, Stream
  <2>3. ASSUME NEW s \in Stream
        PROVE  s \in subs <=> Subscribed(s) /\ s \notin ToSet(subC) \cup closed
    <3>1. Placed(s) /\ caller[s] \in {"idle", "subscribing", "open",
                                      "unsubscribing", "left", "refused"}
      BY <2>1 DEF Running, TypeOK, Stream
    <3>2. QED
      BY <3>1 DEF Placed, Pending, Subscribed
  <2>4. QED
    BY <2>1, <2>2, <2>3 DEF CountIsExact, NumConnections, Running
<1>2. QED
  BY RunningInvariant, <1>1, PTL

-----------------------------------------------------------------------------
(***************************************************************************)
(* Stop sets isClosed before it closes the listener, so the listener of a  *)
(* server that runs is open unless isClosed already holds.                 *)
(***************************************************************************)
ClosedAfterFlag ==
  /\ stop # "idle" => isClosed
  /\ start \in {"bound", "listening", "serving"} => listener = "open" \/ isClosed

(* A serving Start loses its listener only after Stop has set its flag.    *)
LEMMA StepClosedAfterFlag == ClosedAfterFlag /\ [Next]_vars => ClosedAfterFlag'
<1> SUFFICES ASSUME ClosedAfterFlag, [Next]_vars
             PROVE  ClosedAfterFlag'
  OBVIOUS
<1> USE DEF ClosedAfterFlag, lifecycle
<1>1. CASE UNCHANGED vars
  BY <1>1 DEF vars
<1>2. CASE Listen \/ SetListener \/ GoBroker \/ ServeFails
  BY <1>2 DEF Listen, SetListener, GoBroker, ServeFails
<1>3. CASE StopBegin \/ StopListener
  BY <1>3 DEF StopBegin, StopListener
<1>4. ASSUME UNCHANGED lifecycle
      PROVE  ClosedAfterFlag'
  BY <1>4
<1>5. CASE StopBroker \/ BrokerLoop
  BY <1>4, <1>5 DEF StopBroker, BrokerLoop
<1>6. ASSUME NEW s \in Stream,
             \/ Accept(s) \/ ConnLost(s) \/ OpenStream(s) \/ Subscribe(s)
             \/ ReceiveRelease(s) \/ SendRelease(s) \/ Return(s) \/ Unsubscribe(s)
      PROVE  UNCHANGED lifecycle
  BY <1>6 DEF Accept, ConnLost, OpenStream, Subscribe, ReceiveRelease,
              SendRelease, Return, Unsubscribe
<1>7. ASSUME NEW m \in Message, PropagateGithubRelease(m) \/ Broadcast(m)
      PROVE  UNCHANGED lifecycle
  BY <1>7 DEF PropagateGithubRelease, Broadcast
<1>8. QED
  BY <1>1, <1>2, <1>3, <1>4, <1>5, <1>6, <1>7 DEF Next

LEMMA OnlyOpenListenersFail ==
  ClosedAfterFlag /\ [Next]_vars
    => [start' = "serveError" /\ start # "serveError" => listener = "open"]_vars
<1> SUFFICES ASSUME ClosedAfterFlag, [Next]_vars,
                    start' = "serveError", start # "serveError"
             PROVE  listener = "open"
  OBVIOUS
<1>1. CASE ServeFails
  BY <1>1 DEF ServeFails, ClosedAfterFlag
<1>2. CASE UNCHANGED start
  BY <1>2
<1>3. CASE Listen \/ SetListener \/ GoBroker
  BY <1>3 DEF Listen, SetListener, GoBroker
<1>4. CASE StopBegin \/ StopListener \/ StopBroker \/ BrokerLoop
  BY <1>2, <1>4 DEF StopBegin, StopListener, StopBroker, BrokerLoop, lifecycle
<1>5. ASSUME NEW s \in Stream,
             \/ Accept(s) \/ ConnLost(s) \/ OpenStream(s) \/ Subscribe(s)
             \/ ReceiveRelease(s) \/ SendRelease(s) \/ Return(s) \/ Unsubscribe(s)
      PROVE  UNCHANGED start
  BY <1>5 DEF Accept, ConnLost, OpenStream, Subscribe, ReceiveRelease,
              SendRelease, Return, Unsubscribe, lifecycle
<1>6. ASSUME NEW m \in Message, PropagateGithubRelease(m) \/ Broadcast(m)
      PROVE  UNCHANGED start
  BY <1>6 DEF PropagateGithubRelease, Broadcast, lifecycle
<1>7. QED
  BY <1>1, <1>2, <1>3, <1>4, <1>5, <1>6 DEF Next, vars, lifecycle

(* Start never reports as an error that Stop closed its listener.          *)
THEOREM StopNotReportedAsError == Spec => StopIsNotAnError
<1>1. Init => ClosedAfterFlag
  BY DEF Init, ClosedAfterFlag
<1>2. QED
  BY <1>1, StepClosedAfterFlag, OnlyOpenListenersFail, PTL DEF Spec, StopIsNotAnError

-----------------------------------------------------------------------------
(* What is proved of the broker with any callers holds in the server.      *)
LEMMA ServerKeepsFeed == Spec => [](FeedInv /\ Accounted)
BY ServerImplementsBroker, AlwaysAccounted, PTL

(* The release streams of a server, before what its handlers do with them, *)
(* are the feed that ReleaseFeed specifies.                                *)
THEOREM ServerImplementsFeed == Spec => FeedSpec
BY ServerImplementsBroker, BrokerImplementsFeed, PTL

LEMMA OnlyUntakenFromInv == FeedInv /\ Accounted => OnlyUntakenStreamsHang
<1> SUFFICES ASSUME FeedInv, Accounted, loop = "done",
                    NEW s \in Stream, Subscribed(s), s \notin closed
             PROVE  s \in ToSet(subC)
  BY DEF OnlyUntakenStreamsHang
<1>1. Known(s) /\ subs \subseteq todo \cup closed \cup {Nil} /\ todo = {}
  BY FeedTypes DEF Accounted, Subscribed, Stream
<1>2. PICK i \in 1..Len(subC) : subC[i] = s
  BY <1>1, NilIsNoMessage DEF Known, Stream
<1>3. DOMAIN subC = 1..Len(subC)
  BY FeedTypes, LenProperties
<1>4. QED
  BY <1>2, <1>3 DEF ToSet

(* When the loop has ended, a stream that subscribed and whose channel was *)
(* not closed is still in subC: no subscriber the loop took is left.       *)
THEOREM OnlyUntakenHang == Spec => []OnlyUntakenStreamsHang
BY OnlyUntakenFromInv, ServerKeepsFeed, PTL

-----------------------------------------------------------------------------
(* What a handler sent is what it received and its host wants, up to the   *)
(* release it is holding.                                                  *)
SentOf(s) ==
  /\ Ordered(sent[s], log, since[s], Len(log))
  /\ \A i \in 1..Len(sent[s]) :
       /\ Wants(s, sent[s][i])
       /\ \E k \in 1..Len(got[s]) :
            got[s][k] = sent[s][i] /\ (at[s] = "send" => k < Len(got[s]))
  /\ \A k \in 1..Len(got[s]) :
       Wants(s, got[s][k]) =>
         \/ \E i \in 1..Len(sent[s]) : sent[s][i] = got[s][k]
         \/ at[s] # "recv" /\ k = Len(got[s])
  /\ at[s] = "send" => Wants(s, got[s][Len(got[s])])

SentInv == \A s \in Stream : SentOf(s)

\* What the proofs below need of the state.
LEMMA StreamTypes ==
  ASSUME TypeInv, FeedInv
  PROVE  /\ sent \in [Stream -> Seq(Message)]
         /\ at \in [Stream -> {"recv", "send", "return"}]
         /\ got \in [Stream -> Seq(Message)] /\ since \in [Stream -> Nat]
         /\ log \in Seq(Message) /\ Len(log) \in Nat
         /\ \A s \in Stream : Len(sent[s]) \in Nat /\ Len(got[s]) \in Nat
         /\ \A s \in Stream : at[s] = "send" => got[s] # <<>>
<1>1. /\ sent \in [Stream -> Seq(Message)]
      /\ at \in [Stream -> {"recv", "send", "return"}]
      /\ \A s \in Stream : at[s] = "send" => got[s] # <<>>
  BY DEF TypeInv, ServerTypeOK
<1>2. got \in [Stream -> Seq(Message)] /\ since \in [Stream -> Nat]
      /\ log \in Seq(Message) /\ Len(log) \in Nat
  BY FeedTypes DEF Stream
<1>3. ASSUME NEW s \in Stream
      PROVE  Len(sent[s]) \in Nat /\ Len(got[s]) \in Nat
  <2>1. sent[s] \in Seq(Message) /\ got[s] \in Seq(Message)
    BY <1>1, <1>2
  <2>2. QED
    BY <2>1, LenProperties
<1>4. QED
  BY <1>1, <1>2, <1>3

\* A step that leaves a stream's histories and the log alone.
LEMMA SentFrame ==
  ASSUME NEW s \in Stream, SentOf(s), sent'[s] = sent[s], got'[s] = got[s],
         at'[s] = at[s], since'[s] = since[s], log' = log
  PROVE  SentOf(s)'
BY DEF SentOf

\* An entry from behind all those listed may be listed next.
LEMMA OrderedNext ==
  ASSUME NEW h \in Seq(Message), NEW e \in Message, NEW l, NEW lo \in Nat,
         NEW hi \in Nat, Ordered(h, l, lo, hi),
         \E p \in lo + 1 .. hi : l[p] = e,
         \A i \in 1..Len(h), p, q \in 1..Len(l) : h[i] = l[p] /\ e = l[q] => p < q
  PROVE  Ordered(Append(h, e), l, lo, hi)
<1> DEFINE g == Append(h, e)
<1>1. /\ Len(g) = Len(h) + 1 /\ Len(h) \in Nat
      /\ \A i \in 1..Len(h) : g[i] = h[i]
      /\ g[Len(h) + 1] = e
  BY AppendProperties, LenProperties
<1> HIDE DEF g
<1>2. \A i \in 1..Len(g) : i \in 1..Len(h) \/ i = Len(h) + 1
  BY <1>1
<1>3. \A i \in 1..Len(g) : \E p \in lo + 1 .. hi : l[p] = g[i]
  BY <1>1, <1>2 DEF Ordered
<1>4. ASSUME NEW i \in 1..Len(g), NEW j \in 1..Len(g), NEW p \in 1..Len(l),
             NEW q \in 1..Len(l), i < j, g[i] = l[p], g[j] = l[q]
      PROVE  p < q
  <2>1. i \in 1..Len(h) /\ g[i] = h[i]
    BY <1>1, <1>4
  <2>2. CASE j \in 1..Len(h)
    BY <2>1, <2>2, <1>1, <1>4 DEF Ordered
  <2>3. CASE j = Len(h) + 1
    BY <2>1, <2>3, <1>1, <1>4
  <2>4. QED
    BY <1>2, <2>2, <2>3
<1>5. QED
  BY <1>3, <1>4 DEF Ordered, g

\* The loop takes a message: what was sent is in order in the longer log.
LEMMA SentWhenLogged ==
  ASSUME TypeInv, FeedInv, SentInv, SelectBroadcast, UNCHANGED streams
  PROVE  SentInv'
<1> DEFINE m == Head(broadcastC)
<1>1. /\ broadcastC # <<>> /\ log' = Append(log, m) /\ since' = since /\ got' = got
      /\ sent' = sent /\ at' = at
  BY DEF SelectBroadcast, TakeBroadcast, clients, streams
<1>2. m \in Message /\ m = broadcastC[1] /\ 1 \in 1..Len(broadcastC)
  BY <1>1, FeedTypes, HeadTailProperties, EmptySeq
<1>3. \A p \in 1..Len(log) : log[p] # m
  BY <1>2 DEF FeedInv, SentOnce
<1> HIDE DEF m
<1>4. Len(log') = Len(log) + 1 /\ Len(log) \in 0..Len(log)
  BY <1>1, <1>2, FeedTypes, AppendProperties
<1>5. ASSUME NEW s \in Stream
      PROVE  SentOf(s)'
  <2>1. sent[s] \in Seq(Message) /\ since[s] \in Nat /\ log \in Seq(Message)
        /\ SentOf(s)
    BY StreamTypes DEF SentInv
  <2>2. Ordered(sent[s], log', since[s], Len(log))
    BY <1>1, <1>2, <1>3, <1>4, <2>1, OrderedLog DEF SentOf
  <2>3. Ordered(sent[s], log', since[s], Len(log'))
    BY <1>4, <2>1, <2>2, OrderedWiden
  <2>4. QED
    BY <1>1, <2>1, <2>3 DEF SentOf
<1>6. QED
  BY <1>5 DEF SentInv

\* The loop registers a channel: nothing was sent on its stream.
LEMMA SentWhenRegistered ==
  ASSUME TypeInv, FeedInv, SentInv, SelectSub, UNCHANGED streams
  PROVE  SentInv'
<1>1. /\ subC # <<>> /\ since' = [since EXCEPT ![Head(subC)] = Len(log)]
      /\ log' = log /\ got' = got /\ sent' = sent /\ at' = at
  BY DEF SelectSub, clients, streams
<1>2. Head(subC) = subC[1] /\ 1 \in 1..Len(subC)
  BY <1>1, FeedTypes, HeadTailProperties, EmptySeq
<1>3. got[Head(subC)] = <<>>
  BY <1>2 DEF FeedInv, RegisteredOnce, Unregistered
<1>4. ASSUME NEW s \in Stream
      PROVE  SentOf(s)'
  <2>1. SentOf(s) /\ Len(sent[s]) \in Nat
    BY StreamTypes DEF SentInv
  <2>2. CASE s = Head(subC)
    <3>1. 1..Len(got[s]) = {} /\ 1..Len(sent[s]) = {}
      <4>1. Len(<<>>) = 0 /\ got[s] = <<>>
        BY <1>3, <2>2, EmptySeq
      <4>2. 1..Len(got[s]) = {}
        BY <4>1
      <4>3. QED
        BY <2>1, <4>2 DEF SentOf
    <3>2. at[s] # "send"
      BY <1>3, <2>2, StreamTypes
    <3>3. QED
      BY <1>1, <3>1, <3>2 DEF SentOf, Ordered
  <2>3. CASE s # Head(subC)
    <3>1. since'[s] = since[s]
      BY <1>1, <2>3, StreamTypes
    <3>2. QED
      BY <1>1, <2>1, <3>1, SentFrame
  <2>4. QED
    BY <2>2, <2>3
<1>5. QED
  BY <1>4 DEF SentInv

\* A handler receives a release, or sees that its channel is closed.
LEMMA SentWhenReceived ==
  ASSUME TypeInv, FeedInv, SentInv, NEW s \in Stream, ReceiveRelease(s)
  PROVE  SentInv'
<1>1. PICK v \in Message \cup {Nil} :
        /\ Receive(s, v)
        /\ at' = [at EXCEPT ![s] = IF v = Nil THEN "return"
                                   ELSE IF Wants(s, v) THEN "send" ELSE "recv"]
  BY DEF ReceiveRelease
<1>2. /\ got' = (IF v = Nil THEN got ELSE [got EXCEPT ![s] = Append(@, v)])
      /\ log' = log /\ since' = since /\ sent' = sent /\ at[s] = "recv"
  BY <1>1 DEF Receive, ReceiveRelease
<1>3. \A d \in Stream : d # s => got'[d] = got[d] /\ at'[d] = at[d]
  BY <1>1, <1>2, StreamTypes
<1>4. ASSUME NEW d \in Stream, d # s
      PROVE  SentOf(d)'
  BY <1>2, <1>3, <1>4, SentFrame DEF SentInv
<1>5. SentOf(s)'
  <2>1. SentOf(s) /\ got[s] \in Seq(Message) /\ Len(got[s]) \in Nat
    BY StreamTypes DEF SentInv
  <2>2. CASE v = Nil
    <3>1. at'[s] = "return" /\ got'[s] = got[s]
      BY <1>1, <1>2, <2>2, StreamTypes
    <3>2. sent'[s] = sent[s] /\ log' = log /\ since'[s] = since[s] /\ at'[s] # "send"
          /\ at[s] = "recv"
      BY <1>2, <3>1
    <3>3. QED
      BY <2>1, <3>1, <3>2 DEF SentOf, Wants
  <2>3. CASE v # Nil
    <3>1. /\ got'[s] = Append(got[s], v) /\ v \in Message
          /\ at'[s] = (IF Wants(s, v) THEN "send" ELSE "recv")
      BY <1>1, <1>2, <2>3, StreamTypes
    <3>2. /\ Len(got'[s]) = Len(got[s]) + 1
          /\ \A k \in 1..Len(got[s]) : got'[s][k] = got[s][k]
          /\ got'[s][Len(got[s]) + 1] = v
      BY <2>1, <3>1, AppendProperties
    <3>3. \A k \in 1..Len(got'[s]) : k \in 1..Len(got[s]) \/ k = Len(got[s]) + 1
      BY <2>1, <3>2
    <3>4. \A k \in 1..Len(got[s]) : k \in 1..Len(got'[s]) /\ k < Len(got'[s])
      BY <2>1, <3>2
    <3>5. Ordered(sent'[s], log', since'[s], Len(log'))
      BY <1>2, <2>1 DEF SentOf
    <3>6. \A i \in 1..Len(sent'[s]) :
            /\ Wants(s, sent'[s][i])
            /\ \E k \in 1..Len(got'[s]) : got'[s][k] = sent'[s][i] /\ k < Len(got'[s])
      BY <1>2, <2>1, <3>2, <3>4 DEF SentOf
    <3>7. \A k \in 1..Len(got'[s]) :
            Wants(s, got'[s][k]) =>
              \/ \E i \in 1..Len(sent'[s]) : sent'[s][i] = got'[s][k]
              \/ at'[s] # "recv" /\ k = Len(got'[s])
      BY <1>2, <2>1, <3>1, <3>2, <3>3 DEF SentOf
    <3>8. at'[s] = "send" => Wants(s, got'[s][Len(got'[s])])
      BY <3>1, <3>2
    <3>9. QED
      BY <3>5, <3>6, <3>7, <3>8 DEF SentOf, Wants
  <2>4. QED
    BY <2>2, <2>3
<1>6. QED
  BY <1>4, <1>5 DEF SentInv

\* A handler sends the release it holds, or fails to.
LEMMA SentWhenSent ==
  ASSUME TypeInv, FeedInv, SentInv, NEW s \in Stream, SendRelease(s)
  PROVE  SentInv'
<1> DEFINE n == Len(got[s])
           e == got[s][n]
<1>1. /\ log' = log /\ since' = since /\ got' = got /\ at[s] = "send"
  BY DEF SendRelease, brokerVars, clients
<1>2. /\ SentOf(s) /\ got[s] \in Seq(Message) /\ sent[s] \in Seq(Message)
      /\ n \in Nat /\ since[s] \in Nat /\ Len(log) \in Nat
      /\ got[s] # <<>>
  BY <1>1, StreamTypes DEF SentInv
<1>3. n \in 1..n /\ e \in Message /\ Last(got[s]) = e
  <2>1. n # 0
    BY <1>2, EmptySeq
  <2>2. n \in 1..n
    BY <1>2, <2>1
  <2>3. QED
    BY <1>2, <2>2, ElementOfSeq DEF Last
<1>4. ASSUME NEW d \in Stream, d # s
      PROVE  SentOf(d)'
  <2>1. sent'[d] = sent[d] /\ at'[d] = at[d]
    BY <1>4, StreamTypes DEF SendRelease
  <2>2. QED
    BY <1>1, <2>1, SentFrame DEF SentInv
<1> HIDE DEF n, e
<1>5. SentOf(s)'
  <2>1. CASE at' = [at EXCEPT ![s] = "return"] /\ sent' = sent
    <3>1. at'[s] = "return"
      BY <2>1, StreamTypes
    <3>2. QED
      BY <1>1, <1>2, <2>1, <3>1 DEF SentOf, Wants
  <2>2. CASE at' = [at EXCEPT ![s] = "recv"] /\ sent' = [sent EXCEPT ![s] = Append(@, e)]
    <3>1. at'[s] = "recv" /\ sent'[s] = Append(sent[s], e) /\ got'[s] = got[s]
      BY <1>1, <2>2, StreamTypes
    <3>2. /\ Len(sent'[s]) = Len(sent[s]) + 1 /\ Len(sent[s]) \in Nat
          /\ \A i \in 1..Len(sent[s]) : sent'[s][i] = sent[s][i]
          /\ sent'[s][Len(sent[s]) + 1] = e
      BY <1>2, <1>3, <3>1, AppendProperties, LenProperties
    <3>3. /\ \A i \in 1..Len(sent'[s]) : i \in 1..Len(sent[s]) \/ i = Len(sent[s]) + 1
          /\ \A i \in 1..Len(sent[s]) : i \in 1..Len(sent'[s])
          /\ Len(sent[s]) + 1 \in 1..Len(sent'[s])
      BY <3>2
    <3>4. Ordered(Append(sent[s], e), log, since[s], Len(log))
      <4>1. /\ Ordered(Given(s), log, since[s], Visited(s))
            /\ Visited(s) \in Nat /\ Visited(s) <= Len(log)
        BY VisitedType DEF FeedInv, Delivery, Stream
      <4>2. \A k \in 1..n : k \in 1..Len(Given(s)) /\ Given(s)[k] = got[s][k]
        <5>1. /\ Len(Given(s)) = n + Len(Real(buf[s])) /\ Real(buf[s]) \in Seq(Message)
              /\ \A k \in 1..n + Len(Real(buf[s])) :
                   Given(s)[k] = IF k <= n THEN got[s][k] ELSE Real(buf[s])[k - n]
          BY GivenType DEF Stream, n
        <5>2. Len(Real(buf[s])) \in Nat
          BY <5>1, LenProperties
        <5>3. QED
          BY <1>2, <5>1, <5>2
      <4>3. \E p \in since[s] + 1 .. Len(log) : log[p] = e
        <5>1. PICK p \in since[s] + 1 .. Visited(s) : log[p] = got[s][n]
          BY <1>3, <4>1, <4>2 DEF Ordered
        <5>2. p \in since[s] + 1 .. Len(log)
          BY <1>2, <4>1
        <5>3. QED
          BY <5>1, <5>2 DEF e
      <4>4. ASSUME NEW i \in 1..Len(sent[s]), NEW p \in 1..Len(log), NEW q \in 1..Len(log),
                   sent[s][i] = log[p], e = log[q]
            PROVE  p < q
        <5>1. PICK k \in 1..n : got[s][k] = sent[s][i] /\ k < n
          BY <1>1, <1>2 DEF SentOf, n
        <5>2. k \in 1..Len(Given(s)) /\ n \in 1..Len(Given(s))
              /\ Given(s)[k] = log[p] /\ Given(s)[n] = log[q]
          BY <1>3, <4>2, <4>4, <5>1 DEF e
        <5>3. QED
          BY <4>1, <5>1, <5>2 DEF Ordered
      <4>5. Ordered(sent[s], log, since[s], Len(log))
        BY <1>2 DEF SentOf
      <4>6. \A i \in 1..Len(sent[s]), p, q \in 1..Len(log) :
              sent[s][i] = log[p] /\ e = log[q] => p < q
        BY <4>4
      <4>7. QED
        BY <1>2, <1>3, <4>3, <4>5, <4>6, OrderedNext
    <3>5. \A i \in 1..Len(sent'[s]) :
            /\ Wants(s, sent'[s][i])
            /\ \E k \in 1..Len(got[s]) : got[s][k] = sent'[s][i]
      <4>1. Wants(s, e) /\ n \in 1..Len(got[s]) /\ got[s][n] = e
        BY <1>1, <1>2, <1>3 DEF SentOf, n, e
      <4>2. QED
        BY <1>2, <3>2, <3>3, <4>1 DEF SentOf
    <3>6. \A k \in 1..Len(got[s]) :
            Wants(s, got[s][k]) => \E i \in 1..Len(sent'[s]) : sent'[s][i] = got[s][k]
      <4>1. SUFFICES ASSUME NEW k \in 1..Len(got[s]), Wants(s, got[s][k])
                     PROVE  \E i \in 1..Len(sent'[s]) : sent'[s][i] = got[s][k]
        OBVIOUS
      <4>2. CASE k = n
        BY <3>2, <3>3, <4>2 DEF e
      <4>3. CASE k # n
        BY <1>2, <3>2, <3>3, <4>1, <4>3 DEF SentOf, n
      <4>4. QED
        BY <4>2, <4>3
    <3>7. Ordered(sent'[s], log', since'[s], Len(log'))
      BY <1>1, <3>1, <3>4
    <3>8. QED
      BY <3>1, <3>5, <3>6, <3>7 DEF SentOf, Wants
  <2>3. QED
    BY <1>3, <2>1, <2>2 DEF SendRelease
<1>6. QED
  BY <1>4, <1>5 DEF SentInv

LEMMA StepSentInv ==
  TypeInv /\ FeedInv /\ SentInv /\ [Next]_vars => SentInv'
<1> SUFFICES ASSUME TypeInv, FeedInv, SentInv, [Next]_vars PROVE SentInv'
  OBVIOUS
<1>1. ASSUME sent' = sent, at' = at, got' = got, since' = since, log' = log
      PROVE  SentInv'
  BY <1>1, SentFrame DEF SentInv
<1>2. CASE UNCHANGED vars
  BY <1>1, <1>2 DEF vars, brokerVars, streams, clients
<1>3. CASE Next
  <2>1. CASE Listen \/ SetListener \/ GoBroker \/ ServeFails \/ StopBegin \/ StopListener
    BY <1>1, <2>1 DEF Listen, SetListener, GoBroker, ServeFails, StopBegin, StopListener,
       brokerVars, streams, clients
  <2>2. CASE StopBroker
    BY <1>1, <2>2 DEF StopBroker, StopFlag, StopClose, streams, clients
  <2>3. CASE BrokerLoop
    <3>1. CASE SelectSub
      BY <2>3, <3>1, SentWhenRegistered DEF BrokerLoop
    <3>2. CASE SelectBroadcast
      BY <2>3, <3>2, SentWhenLogged DEF BrokerLoop
    <3>3. CASE \/ StartLoop \/ SelectSubClosed \/ SelectUnsub \/ SelectUnsubClosed
               \/ SelectBroadcastClosed \/ SelectStop
      BY <1>1, <2>3, <3>3 DEF BrokerLoop, StartLoop, SelectSubClosed, SelectUnsub,
         SelectUnsubClosed, SelectBroadcastClosed, SelectStop, streams, clients
    <3>4. CASE \E c \in Channel \cup {Nil} : Fanout(c) \/ CloseSub(c)
      BY <1>1, <2>3, <3>4 DEF BrokerLoop, Fanout, CloseSub, streams, clients
    <3>5. QED
      BY <2>3, <3>1, <3>2, <3>3, <3>4 DEF BrokerLoop, Loop
  <2>4. ASSUME NEW s \in Stream, ReceiveRelease(s)
        PROVE  SentInv'
    BY <2>4, SentWhenReceived
  <2>5. ASSUME NEW s \in Stream, SendRelease(s)
        PROVE  SentInv'
    BY <2>5, SentWhenSent
  <2>6. ASSUME NEW s \in Stream,
               \/ Accept(s) \/ ConnLost(s) \/ OpenStream(s) \/ Subscribe(s)
               \/ Return(s) \/ Unsubscribe(s)
        PROVE  SentInv'
    BY <1>1, <2>6 DEF Accept, ConnLost, OpenStream, Subscribe, Return, Unsubscribe,
       SubscribeCheck, SubscribeSend, UnsubscribeCheck, UnsubscribeSend, brokerVars,
       streams, clients
  <2>7. ASSUME NEW m \in Message, PropagateGithubRelease(m) \/ Broadcast(m)
        PROVE  SentInv'
    BY <1>1, <2>7 DEF PropagateGithubRelease, Broadcast, BroadcastCheck, BroadcastSend,
       streams
  <2>8. QED
    BY <1>3, <2>1, <2>2, <2>3, <2>4, <2>5, <2>6, <2>7 DEF Next
<1>4. QED
  BY <1>2, <1>3

LEMMA AlwaysSentInv == Spec => [](TypeInv /\ FeedInv /\ SentInv)
<1>1. Init => SentInv
  <2>1. SUFFICES ASSUME Init, NEW s \in Stream PROVE SentOf(s)
    BY DEF SentInv
  <2>2. sent[s] = <<>> /\ got[s] = <<>> /\ at[s] = "recv" /\ log = <<>>
    BY <2>1 DEF Init, BrokerInit, Stream
  <2>3. Len(<<>>) = 0 /\ 1..0 = {}
    BY EmptySeq
  <2>4. QED
    BY <2>2, <2>3 DEF SentOf, Ordered
<1>2. Init => TypeInv /\ FeedInv
  BY InitTypeInv, InitFeedInv DEF Init
<1>3. FeedInv /\ [Next]_vars => FeedInv'
  BY StepIsBrokerStep, NextFeedInv
<1>4. QED
  BY <1>1, <1>2, <1>3, StepTypeInv, StepSentInv, PTL DEF Spec

\* Nothing is lost to a stream that had room for all it was offered.
LEMMA NothingLost ==
  ASSUME FeedInv, NEW s \in Stream, s \in subs, loop # "fanout", Real(buf[s]) = <<>>,
         Len(log) - since[s] <= SubCap, NEW p \in since[s] + 1 .. Len(log)
  PROVE  \E k \in 1..Len(got[s]) : got[s][k] = log[p]
<1>1. got[s] \in Seq(Message) /\ since[s] \in Nat /\ Len(log) \in Nat /\ SubCap \in Nat
  BY FeedTypes, BrokerAssumption DEF Stream, BrokerAssumption
<1>2. Given(s) = got[s]
  BY <1>1, ConcatEmptySeq DEF Given
<1>3. Backlog(ToSet(got[s]), log, since[s], Len(log))
  BY <1>2 DEF FeedInv, Delivery, Stream, Visited
<1>4. ~(Cardinality(Behind(ToSet(got[s]), log, since[s], p)) >= SubCap)
  <2> DEFINE B == Behind(ToSet(got[s]), log, since[s], p)
             I == since[s] + 1 .. p - 1
  <2>1. IsFiniteSet(I) /\ Cardinality(I) = p - 1 - since[s]
    <3>1. since[s] + 1 \in Int /\ p - 1 \in Int
      BY <1>1
    <3>2. IsFiniteSet(I) /\ Cardinality(I) = IF since[s] + 1 > p - 1 THEN 0
                                             ELSE (p - 1) - (since[s] + 1) + 1
      BY <3>1, FS_Interval
    <3>3. QED
      BY <1>1, <3>2
  <2>2. B \subseteq I
    BY DEF Behind
  <2>3. Cardinality(B) <= Cardinality(I) /\ Cardinality(B) \in Nat
    BY <2>1, <2>2, FS_Subset, FS_CardinalityType
  <2> HIDE DEF B, I
  <2>4. Cardinality(B) < SubCap
    BY <1>1, <2>1, <2>3
  <2>5. QED
    BY <1>1, <2>3, <2>4 DEF B
<1>5. log[p] \in ToSet(got[s])
  BY <1>3, <1>4 DEF Backlog
<1>6. QED
  BY <1>1, <1>5, LenProperties DEF ToSet

\* So an up-to-date stream was sent exactly what its handler wants.
LEMMA UpToDateByWants ==
  ASSUME TypeInv, FeedInv, SentInv, NEW s \in Stream, s \in subs,
         at[s] = "recv", Real(buf[s]) = <<>>, loop # "fanout",
         Len(log) - since[s] <= SubCap,
         NEW due, due = {p \in since[s] + 1 .. Len(log) : Wants(s, log[p])}
  PROVE  /\ ToSet(sent[s]) = {log[p] : p \in due}
         /\ \A i, j \in 1..Len(sent[s]), p, q \in due :
              i < j /\ sent[s][i] = log[p] /\ sent[s][j] = log[q] => p < q
<1>1. /\ SentOf(s) /\ sent[s] \in Seq(Message)
      /\ since[s] \in Nat /\ Len(log) \in Nat
  BY StreamTypes DEF SentInv
<1>2. due \subseteq 1..Len(log)
  BY <1>1
<1>3. DOMAIN sent[s] = 1..Len(sent[s])
  BY <1>1, LenProperties
<1>4. ASSUME NEW i \in 1..Len(sent[s])
      PROVE  \E p \in due : sent[s][i] = log[p]
  <2>1. PICK p \in since[s] + 1 .. Len(log) : log[p] = sent[s][i]
    BY <1>1 DEF SentOf, Ordered
  <2>2. Wants(s, log[p])
    BY <1>1, <2>1 DEF SentOf
  <2>3. QED
    BY <2>1, <2>2
<1>5. ASSUME NEW p \in due
      PROVE  \E i \in 1..Len(sent[s]) : sent[s][i] = log[p]
  <2>1. p \in since[s] + 1 .. Len(log) /\ Wants(s, log[p])
    OBVIOUS
  <2>2. PICK k \in 1..Len(got[s]) : got[s][k] = log[p]
    BY <2>1, NothingLost
  <2>3. QED
    BY <1>1, <2>1, <2>2 DEF SentOf
<1>6. ToSet(sent[s]) = {log[p] : p \in due}
  <2>1. ToSet(sent[s]) = {sent[s][i] : i \in 1..Len(sent[s])}
    BY <1>3 DEF ToSet
  <2> DEFINE S == {sent[s][i] : i \in 1..Len(sent[s])}
             L == {log[p] : p \in due}
  <2>2. ASSUME NEW m \in S PROVE m \in L
    <3>1. PICK i \in 1..Len(sent[s]) : m = sent[s][i]
      OBVIOUS
    <3>2. QED
      BY <1>4, <3>1
  <2>3. ASSUME NEW m \in L PROVE m \in S
    <3>1. PICK p \in due : m = log[p]
      OBVIOUS
    <3>2. QED
      BY <1>5, <3>1
  <2> HIDE DEF S, L
  <2>4. S = L
    BY <2>2, <2>3
  <2>5. QED
    BY <2>1, <2>4 DEF S, L
<1>7. \A i, j \in 1..Len(sent[s]), p, q \in due :
        i < j /\ sent[s][i] = log[p] /\ sent[s][j] = log[q] => p < q
  BY <1>1, <1>2 DEF SentOf, Ordered
<1>8. QED
  BY <1>6, <1>7

\* The handlers route as the topology lists.
LEMMA UpToDateFromInv ==
  TypeInv /\ FeedInv /\ SentInv => UpToDateStreamMissedNothing
<1> DEFINE Due(s) == {p \in since[s] + 1 .. Len(log) :
                        Listed(topology, Event[log[p]].repo, Hostname[s])}
           Wanted(s) == {p \in since[s] + 1 .. Len(log) : Wants(s, log[p])}
<1>1. ASSUME NEW s PROVE Due(s) = Wanted(s)
  <2>1. \A m : Wants(s, m) <=> Listed(topology, Event[m].repo, Hostname[s])
    BY RoutesAsListed, UpdateServerAssumption DEF Wants, UpdateServerAssumption, index
  <2>2. QED
    BY <2>1
<1>2. ASSUME TypeInv, FeedInv, SentInv, NEW s \in subs \ {Nil},
             at[s] = "recv", Real(buf[s]) = <<>>, loop # "fanout",
             Len(log) - since[s] <= SubCap
      PROVE  /\ ToSet(sent[s]) = {log[p] : p \in Due(s)}
             /\ \A i, j \in 1..Len(sent[s]), p, q \in Due(s) :
                  i < j /\ sent[s][i] = log[p] /\ sent[s][j] = log[q] => p < q
  <2>1. s \in Stream /\ s \in subs
    BY <1>2 DEF TypeInv, BrokerTypeInv, TypeOK, Stream
  <2>2. Due(s) = {p \in since[s] + 1 .. Len(log) : Wants(s, log[p])}
    BY <1>1
  <2> HIDE DEF Due, Wanted
  <2>3. QED
    BY <1>2, <2>1, <2>2, UpToDateByWants
<1>3. QED
  BY <1>2 DEF UpToDateStreamMissedNothing

(* Whatever the topology lists, whichever releases come in and whatever    *)
(* other streams do: a stream that has caught up and was never offered     *)
(* more than its channel holds was sent exactly what its host is to get.   *)
THEOREM UpToDateHolds == Spec => []UpToDateStreamMissedNothing
BY UpToDateFromInv, AlwaysSentInv, PTL

-----------------------------------------------------------------------------
(***************************************************************************)
(* The process.  Its steps are those of the update server, its own, which  *)
(* leave the update server alone, and its end, wherever its goroutines     *)
(* are: what is proved of the update server must survive that.             *)
(***************************************************************************)
LEMMA ProcessSteps == [ProcessNext]_processVars => [Next]_vars \/ Exit
<1> SUFFICES ASSUME [ProcessNext]_processVars PROVE [Next]_vars \/ Exit
  OBVIOUS
<1>1. CASE UNCHANGED processVars
  BY <1>1 DEF processVars
<1>2. CASE NewServer \/ StartServer \/ HttpFails \/ Interrupt \/ Shutdown
  BY <1>2 DEF NewServer, StartServer, HttpFails, Interrupt, Shutdown
<1>3. CASE MainReturns \/ UpdateServerStep
  BY <1>3 DEF MainReturns, UpdateServerStep
<1>4. QED
  BY <1>1, <1>2, <1>3 DEF ProcessNext

LEMMA ExitFeedInv == FeedInv /\ Exit => FeedInv'
<1> SUFFICES ASSUME FeedInv, Exit PROVE FeedInv'
  OBVIOUS
<1>1. /\ fault' = "exit"
      /\ UNCHANGED <<isStopped, stopStep, loop, subs, msg, todo, count>>
      /\ UNCHANGED <<subC, unsubC, broadcastC, caller, pub, got>>
      /\ UNCHANGED <<buf, closed, log, since>>
  BY DEF Exit, startVars, requests, clients
<1>2. BrokerTypeInv'
  BY <1>1 DEF FeedInv, BrokerTypeInv, TypeOK
<1>3. (loop = "new" => subs = {})' /\ SentOnce' /\ RegisteredOnce'
  BY <1>1 DEF FeedInv, SentOnce, RegisteredOnce, Unregistered
<1>4. NilsLast' /\ FanoutIsLast'
  BY <1>1 DEF FeedInv, NilsLast, FanoutIsLast, BroadcastCClosed
<1>5. ASSUME NEW c \in Channel PROVE Delivery(c)'
  BY <1>1 DEF FeedInv, Delivery, Given, Visited
<1>6. QED
  BY <1>2, <1>3, <1>4, <1>5 DEF FeedInv

LEMMA ExitAccounted == Accounted /\ Exit => Accounted'
BY DEF Accounted, Known, Exit, startVars, requests, clients

LEMMA ProcessKeepsFeed == ProcessSpec => [](FeedInv /\ Accounted)
<1>1. ProcessInit => FeedInv /\ Accounted
  BY InitFeedInv, InitAccounted DEF ProcessInit, Init
<1>2. FeedInv /\ Accounted /\ [ProcessNext]_processVars => (FeedInv /\ Accounted)'
  BY ProcessSteps, StepIsBrokerStep, NextFeedInv, NextAccounted, ExitFeedInv, ExitAccounted
<1>3. QED
  BY <1>1, <1>2, PTL DEF ProcessSpec

(* Also in a process that may fail to start, get a signal at any time and  *)
(* end before its goroutines do: only a subscription that the loop never   *)
(* took is left waiting.                                                   *)
THEOREM ProcessOnlyUntakenHang == ProcessSpec => []OnlyUntakenStreamsHang
BY ProcessKeepsFeed, OnlyUntakenFromInv, PTL

(* And whenever the signal comes, before or while Start runs, its closing  *)
(* of the listener is no error.                                            *)
THEOREM ProcessStopIsNoError == ProcessSpec => StopIsNotAnError
<1>1. ProcessInit => ClosedAfterFlag
  BY DEF ProcessInit, Init, ClosedAfterFlag
<1>2. ClosedAfterFlag /\ Exit => ClosedAfterFlag'
  BY DEF ClosedAfterFlag, Exit, lifecycle
<1>3. ClosedAfterFlag /\ [ProcessNext]_processVars => ClosedAfterFlag'
  BY <1>2, ProcessSteps, StepClosedAfterFlag
<1>4. Exit => [start' = "serveError" /\ start # "serveError" => listener = "open"]_vars
  BY DEF Exit, lifecycle
<1>5. ClosedAfterFlag /\ [ProcessNext]_processVars
        => [start' = "serveError" /\ start # "serveError" => listener = "open"]_vars
  BY <1>4, ProcessSteps, OnlyOpenListenersFail
<1>6. QED
  BY <1>1, <1>3, <1>5, PTL DEF ProcessSpec, StopIsNotAnError
=============================================================================
