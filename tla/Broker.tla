------------------------------- MODULE Broker -------------------------------
(***************************************************************************)
(* pkg/mahogany/sources/broker.go: the goroutine that fans releases out to *)
(* the subscribed channels, and the methods other goroutines call on it.   *)
(*                                                                         *)
(* A method that tests b.isStopped and then sends is two steps, because    *)
(* any other goroutine may run between the test and the send.  isStopped   *)
(* is read and written without synchronisation; a stale read is a test     *)
(* taken earlier, so the two steps cover it.                               *)
(***************************************************************************)
EXTENDS Integers, FiniteSets, SequencesExt

CONSTANTS Channel,   \* the channels Subscribe makes, one per caller
          Message,   \* the values handed to Broadcast, one per call
          Nil,       \* the nil channel, and the zero value of a message
          SubCap,    \* capacity of a subscriber's channel (5 in the code)
          ReqCap,    \* capacity of subC, unsubC and broadcastC (1 in the code)
          MaxNil     \* bound on the nil channels a closed subC registers

ASSUME BrokerAssumption ==
  /\ IsFiniteSet(Channel)
  /\ Nil \notin Channel \cup Message
  /\ SubCap \in Nat \ {0}
  /\ ReqCap \in Nat \ {0}
  /\ MaxNil \in Nat

VARIABLES
  isStopped,   \* b.isStopped
  stopStep,    \* statements of Stop executed, 0..5
  subC, unsubC, broadcastC,   \* contents of the three request channels
  count,       \* b.count
  loop,        \* where the goroutine running Start is
  subs,        \* its local map of subscribers
  msg,         \* the message it is fanning out
  todo,        \* the subscribers its inner loop has not visited
  buf,         \* contents of each subscriber's channel
  closed,      \* the subscriber channels that are closed
  caller,      \* how far the owner of each channel is
  pub,         \* how far the call of Broadcast for each message is
  fault,       \* what ended the process, if anything: a panic, or main
  log,         \* history: the messages taken from broadcastC
  since,       \* history: length of the log when a channel was registered
  got          \* history: the messages received from each channel

startVars  == <<loop, subs, msg, todo, count>>
requests   == <<subC, unsubC, broadcastC>>
clients    == <<caller, pub, got>>
brokerVars == <<isStopped, stopStep, startVars, requests, clients, buf,
                closed, fault, log, since>>

\* Stop closes the control channels in this order.
StopCClosed      == stopStep >= 2
BroadcastCClosed == stopStep >= 3
SubCClosed       == stopStep >= 4
UnsubCClosed     == stopStep >= 5

\* The types, and that no channel exceeds its capacity, nor the inner loops
\* the map they range over.
TypeOK ==
  /\ isStopped \in BOOLEAN
  /\ stopStep \in 0..5
  /\ loop \in {"new", "select", "fanout", "closing", "done"}
  /\ subs \in SUBSET (Channel \cup {Nil})
  /\ todo \in SUBSET subs
  /\ msg \in Message \cup {Nil}
  /\ count \in Int
  /\ subC \in Seq(Channel) /\ Len(subC) <= ReqCap
  /\ unsubC \in Seq(Channel) /\ Len(unsubC) <= ReqCap
  /\ broadcastC \in Seq(Message) /\ Len(broadcastC) <= ReqCap
  /\ buf \in [Channel -> Seq(Message \cup {Nil})]
  /\ \A c \in Channel : Len(buf[c]) <= SubCap
  /\ closed \in SUBSET Channel
  /\ caller \in [Channel -> {"idle", "subscribing", "open", "unsubscribing",
                             "left", "refused"}]
  /\ pub \in [Message -> {"idle", "sending", "sent", "refused", "panicked"}]
  /\ fault \in {"none", "closeOfNil", "closeOfClosed", "sendOnClosed", "exit"}
  /\ log \in Seq(Message)
  /\ since \in [Channel -> Nat]
  /\ got \in [Channel -> Seq(Message)]

\* NewBroker; nothing has been called yet.
BrokerInit ==
  /\ isStopped = TRUE
  /\ stopStep = 0
  /\ subC = <<>> /\ unsubC = <<>> /\ broadcastC = <<>>
  /\ count = 0
  /\ loop = "new" /\ subs = {} /\ msg = Nil /\ todo = {}
  /\ buf = [c \in Channel |-> <<>>]
  /\ closed = {}
  /\ caller = [c \in Channel |-> "idle"]
  /\ pub = [m \in Message |-> "idle"]
  /\ fault = "none"
  /\ log = <<>>
  /\ since = [c \in Channel |-> 0]
  /\ got = [c \in Channel |-> <<>>]

-----------------------------------------------------------------------------
(* The goroutine running Start.  A receive from a closed control channel   *)
(* is always ready: it yields what is buffered, then the zero value.  When *)
(* several cases of the select are ready any of them may be taken.         *)

StartLoop ==
  /\ loop = "new"
  /\ loop' = "select"
  /\ isStopped' = FALSE
  /\ subs' = {}
  /\ UNCHANGED <<stopStep, msg, todo, count, requests, clients, buf, closed,
                 fault, log, since>>

SelectSub ==
  /\ loop = "select"
  /\ subC # <<>>
  /\ subC' = Tail(subC)
  /\ subs' = subs \cup {Head(subC)}
  /\ count' = count + 1
  /\ since' = [since EXCEPT ![Head(subC)] = Len(log)]
  /\ UNCHANGED <<isStopped, stopStep, loop, msg, todo, unsubC, broadcastC,
                 clients, buf, closed, fault, log>>

\* A closed and empty subC registers the nil channel, each time it is chosen.
SelectSubClosed ==
  /\ loop = "select"
  /\ subC = <<>> /\ SubCClosed
  /\ count - Cardinality(subs \ {Nil}) < MaxNil
  /\ subs' = subs \cup {Nil}
  /\ count' = count + 1
  /\ UNCHANGED <<isStopped, stopStep, loop, msg, todo, requests, clients, buf,
                 closed, fault, log, since>>

\* Mutant: the channel is closed but stays in the map.
ForgetKeepsSub(c) ==
  /\ closed' = closed \cup {c}
  /\ count' = count - 1
  /\ UNCHANGED <<subs, fault>>

\* delete(subs, c), close(c), b.count--
Forget(c) ==
  /\ subs' = subs \ {c}
  /\ IF c \in closed
     THEN fault' = "closeOfClosed" /\ UNCHANGED <<closed, count>>
     ELSE /\ closed' = closed \cup {c}
          /\ count' = count - 1
          /\ UNCHANGED fault

\* Mutant: the loop returns when the last subscriber leaves.
SelectUnsubEndsLoop ==
  /\ loop = "select"
  /\ unsubC # <<>>
  /\ unsubC' = Tail(unsubC)
  /\ Forget(Head(unsubC))
  /\ loop' = IF subs' = {} THEN "done" ELSE "select"
  /\ UNCHANGED <<isStopped, stopStep, msg, todo, subC, broadcastC, clients,
                 buf, log, since>>

SelectUnsub ==
  /\ loop = "select"
  /\ unsubC # <<>>
  /\ unsubC' = Tail(unsubC)
  /\ Forget(Head(unsubC))
  /\ UNCHANGED <<isStopped, stopStep, loop, msg, todo, subC, broadcastC,
                 clients, buf, log, since>>

\* A closed and empty unsubC yields the nil channel, which cannot be closed.
SelectUnsubClosed ==
  /\ loop = "select"
  /\ unsubC = <<>> /\ UnsubCClosed
  /\ subs' = subs \ {Nil}
  /\ fault' = "closeOfNil"
  /\ UNCHANGED <<isStopped, stopStep, loop, msg, todo, count, requests,
                 clients, buf, closed, log, since>>

\* Mutant: the inner loop keeps sending the first message.
BeginFanoutStale(m) ==
  /\ msg' = IF msg = Nil THEN m ELSE msg
  /\ todo' = subs
  /\ loop' = IF subs = {} THEN "select" ELSE "fanout"

\* The inner loop visits subs as it is now; with no subscriber it is over.
BeginFanout(m) ==
  /\ msg' = m
  /\ todo' = subs
  /\ loop' = IF subs = {} THEN "select" ELSE "fanout"

TakeBroadcast ==
  /\ broadcastC # <<>>
  /\ broadcastC' = Tail(broadcastC)
  /\ BeginFanout(Head(broadcastC))
  /\ log' = Append(log, Head(broadcastC))
  /\ UNCHANGED <<isStopped, stopStep, subs, count, subC, unsubC, clients, buf,
                 closed, fault, since>>

\* Mutant: the loop does not read broadcastC while it has no subscriber.
SelectBroadcastIfSubs ==
  /\ loop = "select"
  /\ subs # {}
  /\ TakeBroadcast

SelectBroadcast ==
  /\ loop = "select"
  /\ TakeBroadcast

SelectBroadcastClosed ==
  /\ loop = "select"
  /\ broadcastC = <<>> /\ BroadcastCClosed
  /\ BeginFanout(Nil)
  /\ UNCHANGED <<isStopped, stopStep, subs, count, requests, clients, buf,
                 closed, fault, log, since>>

\* Mutant: the send is made whether there is room or not.
ReadyToTakeAlways(c) == c # Nil

\* Mutant: the last place of a channel is never used.
ReadyToTakeOneLess(c) == c # Nil /\ Len(buf[c]) < SubCap - 1

\* The case of a select that sends on an open c: a nil channel is never ready.
ReadyToTake(c) == c # Nil /\ Len(buf[c]) < SubCap

\* One turn of the inner loop: a send that never blocks.  A channel that
\* is not ready loses the message, a closed one panics.
Fanout(c) ==
  /\ loop = "fanout"
  /\ c \in todo
  /\ IF c \in closed
     THEN fault' = "sendOnClosed" /\ UNCHANGED <<loop, todo, buf>>
     ELSE /\ todo' = todo \ {c}
          /\ loop' = IF todo = {c} THEN "select" ELSE "fanout"
          /\ buf' = IF ReadyToTake(c)
                    THEN [buf EXCEPT ![c] = Append(@, msg)]
                    ELSE buf
          /\ UNCHANGED fault
  /\ UNCHANGED <<isStopped, stopStep, subs, msg, count, requests, clients,
                 closed, log, since>>

\* Mutant: Start returns without closing its subscribers.
SelectStopAtOnce ==
  /\ loop = "select"
  /\ StopCClosed
  /\ loop' = "done"
  /\ UNCHANGED <<isStopped, stopStep, subs, msg, todo, count, requests,
                 clients, buf, closed, fault, log, since>>

SelectStop ==
  /\ loop = "select"
  /\ StopCClosed
  /\ todo' = subs
  /\ loop' = IF subs = {} THEN "done" ELSE "closing"
  /\ UNCHANGED <<isStopped, stopStep, subs, msg, count, requests, clients,
                 buf, closed, fault, log, since>>

\* Mutant: Start returns from within the loop, after one channel.
CloseSubReturns(c) ==
  /\ loop = "closing"
  /\ c \in todo
  /\ loop' = "done"
  /\ todo' = {}
  /\ closed' = closed \cup {c}
  /\ UNCHANGED <<isStopped, stopStep, subs, msg, count, requests, clients,
                 buf, fault, log, since>>

\* One turn of the loop that closes every subscriber before Start returns.
CloseSub(c) ==
  /\ loop = "closing"
  /\ c \in todo
  /\ IF c = Nil \/ c \in closed
     THEN /\ fault' = IF c = Nil THEN "closeOfNil" ELSE "closeOfClosed"
          /\ UNCHANGED <<loop, todo, closed>>
     ELSE /\ closed' = closed \cup {c}
          /\ todo' = todo \ {c}
          /\ loop' = IF todo = {c} THEN "done" ELSE "closing"
          /\ UNCHANGED fault
  /\ UNCHANGED <<isStopped, stopStep, subs, msg, count, requests, clients,
                 buf, log, since>>

-----------------------------------------------------------------------------
(* The methods.  A send on a control channel waits for room; if Stop       *)
(* closes the channel, before the send or while it waits, it panics.       *)

\* Stop's first statement.
StopFlag ==
  /\ stopStep = 0
  /\ stopStep' = 1
  /\ isStopped' = TRUE
  /\ UNCHANGED <<startVars, requests, clients, buf, closed, fault, log, since>>

\* Stop's other statements: stopC, broadcastC, subC and unsubC are closed.
StopClose ==
  /\ stopStep \in 1..4
  /\ stopStep' = stopStep + 1
  /\ UNCHANGED <<isStopped, startVars, requests, clients, buf, closed, fault,
                 log, since>>

SubscribeCheck(c) ==
  /\ caller[c] = "idle"
  /\ caller' = [caller EXCEPT ![c] = IF isStopped THEN "refused"
                                                  ELSE "subscribing"]
  /\ UNCHANGED <<isStopped, stopStep, startVars, requests, pub, got, buf,
                 closed, fault, log, since>>

SubscribeSend(c) ==
  /\ caller[c] = "subscribing"
  /\ \/ /\ SubCClosed
        /\ fault' = "sendOnClosed"
        /\ UNCHANGED <<caller, subC>>
     \/ /\ ~SubCClosed
        /\ Len(subC) < ReqCap
        /\ subC' = Append(subC, c)
        /\ caller' = [caller EXCEPT ![c] = "open"]
        /\ UNCHANGED fault
  /\ UNCHANGED <<isStopped, stopStep, startVars, unsubC, broadcastC, pub, got,
                 buf, closed, log, since>>

UnsubscribeCheck(c) ==
  /\ caller[c] = "open"
  /\ caller' = [caller EXCEPT ![c] = IF isStopped THEN "left"
                                                  ELSE "unsubscribing"]
  /\ UNCHANGED <<isStopped, stopStep, startVars, requests, pub, got, buf,
                 closed, fault, log, since>>

UnsubscribeSend(c) ==
  /\ caller[c] = "unsubscribing"
  /\ \/ /\ UnsubCClosed
        /\ fault' = "sendOnClosed"
        /\ UNCHANGED <<caller, unsubC>>
     \/ /\ ~UnsubCClosed
        /\ Len(unsubC) < ReqCap
        /\ unsubC' = Append(unsubC, c)
        /\ caller' = [caller EXCEPT ![c] = "left"]
        /\ UNCHANGED fault
  /\ UNCHANGED <<isStopped, stopStep, startVars, subC, broadcastC, pub, got,
                 buf, closed, log, since>>

BroadcastCheck(m) ==
  /\ pub[m] = "idle"
  /\ pub' = [pub EXCEPT ![m] = IF isStopped THEN "refused" ELSE "sending"]
  /\ UNCHANGED <<isStopped, stopStep, startVars, requests, caller, got, buf,
                 closed, fault, log, since>>

\* Broadcast runs in an HTTP handler, where a panic ends the request only.
BroadcastSend(m) ==
  /\ pub[m] = "sending"
  /\ \/ /\ BroadcastCClosed
        /\ pub' = [pub EXCEPT ![m] = "panicked"]
        /\ UNCHANGED broadcastC
     \/ /\ ~BroadcastCClosed
        /\ Len(broadcastC) < ReqCap
        /\ broadcastC' = Append(broadcastC, m)
        /\ pub' = [pub EXCEPT ![m] = "sent"]
  /\ UNCHANGED <<isStopped, stopStep, startVars, subC, unsubC, caller, got,
                 buf, closed, fault, log, since>>

\* The owner of a channel receives; v is Nil once it is closed and drained.
Receive(c, v) ==
  /\ caller[c] = "open"
  /\ \/ /\ buf[c] # <<>>
        /\ v = Head(buf[c])
        /\ buf' = [buf EXCEPT ![c] = Tail(@)]
     \/ /\ buf[c] = <<>> /\ c \in closed
        /\ v = Nil
        /\ UNCHANGED buf
  /\ got' = IF v = Nil THEN got ELSE [got EXCEPT ![c] = Append(@, v)]
  /\ UNCHANGED <<isStopped, stopStep, startVars, requests, caller, pub,
                 closed, fault, log, since>>

-----------------------------------------------------------------------------
Loop ==
  \/ StartLoop
  \/ SelectSub
  \/ SelectSubClosed
  \/ SelectUnsub
  \/ SelectUnsubClosed
  \/ SelectBroadcast
  \/ SelectBroadcastClosed
  \/ SelectStop
  \/ \E c \in Channel \cup {Nil} : Fanout(c) \/ CloseSub(c)

Methods ==
  \/ StopFlag
  \/ StopClose
  \/ \E c \in Channel : \/ SubscribeCheck(c)
                        \/ SubscribeSend(c)
                        \/ UnsubscribeCheck(c)
                        \/ UnsubscribeSend(c)
                        \/ \E v \in Message \cup {Nil} : Receive(c, v)
  \/ \E m \in Message : BroadcastCheck(m) \/ BroadcastSend(m)

\* A panic in the loop or in a gRPC handler ends the process.
BrokerNext == fault = "none" /\ (Loop \/ Methods)

BrokerSpec == BrokerInit /\ [][BrokerNext]_brokerVars

-----------------------------------------------------------------------------
\* The nil of a closed broadcastC comes after every message.
NilsFrom(s, n) == \A i \in 1..Len(s) : s[i] = Nil <=> i > n

Real(s) == SubSeq(s, 1, CHOOSE n \in 0..Len(s) : NilsFrom(s, n))

\* What channel c was given so far, received or still buffered.
Given(c) == got[c] \o Real(buf[c])

\* The part of the log c was registered for; a fan-out under way that has
\* not visited c is not counted.
Visited(c) == IF loop = "fanout" /\ msg # Nil /\ c \in todo
              THEN Len(log) - 1
              ELSE Len(log)

(* A subscriber gets messages in the order the loop took them, each at     *)
(* most once, and none from before it was registered: Start's select and   *)
(* its inner loop, whatever the callers of the other methods do.           *)
DeliveredInOrder ==
  \A c \in Channel :
    LET given == Given(c)
    IN  /\ \A i \in 1..Len(given) : \E p \in since[c] + 1 .. Len(log) : log[p] = given[i]
        /\ \A i, j \in 1..Len(given), p, q \in 1..Len(log) :
             i < j /\ given[i] = log[p] /\ given[j] = log[q] => p < q

(* The non-blocking send loses a message only to a subscriber that was     *)
(* SubCap messages behind: what a registered channel misses comes after at *)
(* least SubCap messages it was given.                                     *)
LossNeedsBacklog ==
  \A c \in subs \ {Nil} :
    \A k \in since[c] + 1 .. Visited(c) :
      \/ log[k] \in ToSet(Given(c))
      \/ Cardinality({j \in since[c] + 1 .. k - 1 :
                        log[j] \in ToSet(Given(c))}) >= SubCap

(* The broker is a feed: its log, its map of subscribers and their         *)
(* channels without the nils of a shutdown are the state of ReleaseFeed.   *)
Feed == INSTANCE ReleaseFeed WITH
  Reader   <- Channel,
  Entry    <- Message,
  Capacity <- SubCap,
  feed     <- log,
  member   <- subs \ {Nil},
  offered  <- [c \in Channel |-> IF c \in subs THEN Visited(c) ELSE 0],
  queue    <- [c \in Channel |-> Real(buf[c])]

FeedSpec == Feed!Spec
=============================================================================
