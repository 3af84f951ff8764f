---------------------------- MODULE UpdateServer ----------------------------
(***************************************************************************)
(* pkg/mahogany/sources/update_server.go: the gRPC server that streams     *)
(* releases to agents through the broker.  One goroutine runs Start, which *)
(* starts the broker's; each agent's stream is a goroutine in              *)
(* ReleaseStream; each release event is one in PropagateGithubRelease; a   *)
(* signal runs Stop.  A stream is known by the channel its Subscribe made  *)
(* and a release by the event it was made from.                            *)
(***************************************************************************)
EXTENDS Broker, Topology

CONSTANTS topology,       \* s.topology
          Hostname,       \* the host name each stream's request carries
          Event,          \* the event behind each message
          Unreliable,     \* the streams whose connection may be lost
          StopRequested   \* whether the process gets a signal

ASSUME UpdateServerAssumption == IsTopology(topology)

Stream == Channel
index  == Index(topology)

Wants(s, m) == RoutedTo(index, Event[m].repo, Hostname[s])

VARIABLES
  start,     \* where the goroutine running Start is
  listener,  \* the TCP listener
  lnSet,     \* s.ln # nil
  isClosed,  \* s.isClosed
  stop,      \* where the goroutine running Stop is
  conn,      \* the connection of each stream
  at,        \* where each stream's handler is, once it has a channel
  sent       \* history: the releases each stream was sent

lifecycle == <<start, listener, lnSet, isClosed, stop>>
streams   == <<conn, at, sent>>
vars      == <<brokerVars, lifecycle, streams>>

\* The types; a handler about to send has a release for its host in hand.
ServerTypeOK ==
  /\ TypeOK
  /\ start \in {"idle", "bound", "listening", "serving", "returned",
                "listenError", "serveError"}
  /\ listener \in {"none", "open", "closed"}
  /\ lnSet \in BOOLEAN
  /\ isClosed \in BOOLEAN
  /\ stop \in {"idle", "flagged", "lnClosed"}
  /\ conn \in [Stream -> {"none", "up", "down"}]
  /\ at \in [Stream -> {"recv", "send", "return"}]
  /\ sent \in [Stream -> Seq(Message)]
  /\ \A s \in Stream : at[s] = "send" => got[s] # <<>> /\ Wants(s, Last(got[s]))

\* NewUpdateServer.
Init ==
  /\ BrokerInit
  /\ start = "idle"
  /\ listener = "none"
  /\ lnSet = FALSE
  /\ isClosed = FALSE
  /\ stop = "idle"
  /\ conn = [s \in Stream |-> "none"]
  /\ at = [s \in Stream |-> "recv"]
  /\ sent = [s \in Stream |-> <<>>]

-----------------------------------------------------------------------------
(* Start and Stop.                                                         *)

Listen ==
  /\ start = "idle"
  /\ \/ start' = "bound" /\ listener' = "open"
     \/ start' = "listenError" /\ UNCHANGED listener
  /\ UNCHANGED <<brokerVars, lnSet, isClosed, stop, streams>>

SetListener ==
  /\ start = "bound"
  /\ start' = "listening"
  /\ lnSet' = TRUE
  /\ UNCHANGED <<brokerVars, listener, isClosed, stop, streams>>

\* go s.releaseBroker.Start(), then into Serve.
GoBroker ==
  /\ start = "listening"
  /\ start' = "serving"
  /\ UNCHANGED <<brokerVars, listener, lnSet, isClosed, stop, streams>>

BrokerSpawned == start \in {"serving", "returned", "serveError"}

\* Serve fails because the listener is closed, or on an error of its own;
\* it closes the listener, but not the connections it has accepted.
ServeFails ==
  /\ start = "serving"
  /\ listener' = "closed"
  /\ start' = IF isClosed THEN "returned" ELSE "serveError"
  /\ UNCHANGED <<brokerVars, lnSet, isClosed, stop, streams>>

\* Mutant: Stop does not set isClosed.
StopBeginSilently ==
  /\ StopRequested
  /\ stop = "idle"
  /\ stop' = "flagged"
  /\ UNCHANGED <<brokerVars, start, listener, lnSet, isClosed, streams>>

StopBegin ==
  /\ StopRequested
  /\ stop = "idle"
  /\ stop' = "flagged"
  /\ isClosed' = TRUE
  /\ UNCHANGED <<brokerVars, start, listener, lnSet, streams>>

StopListener ==
  /\ stop = "flagged"
  /\ stop' = "lnClosed"
  /\ listener' = IF lnSet THEN "closed" ELSE listener
  /\ UNCHANGED <<brokerVars, start, lnSet, isClosed, streams>>

\* s.releaseBroker.Stop().
StopBroker ==
  /\ stop = "lnClosed"
  /\ StopFlag \/ StopClose
  /\ UNCHANGED <<lifecycle, streams>>

BrokerLoop ==
  /\ BrokerSpawned
  /\ Loop
  /\ UNCHANGED <<lifecycle, streams>>

-----------------------------------------------------------------------------
(* Agents' connections, and the handler of each stream.                    *)

Accept(s) ==
  /\ start = "serving"
  /\ listener = "open"
  /\ conn[s] = "none"
  /\ conn' = [conn EXCEPT ![s] = "up"]
  /\ UNCHANGED <<brokerVars, lifecycle, at, sent>>

ConnLost(s) ==
  /\ s \in Unreliable
  /\ conn[s] = "up"
  /\ conn' = [conn EXCEPT ![s] = "down"]
  /\ UNCHANGED <<brokerVars, lifecycle, at, sent>>

\* ReleaseStream is called and calls Subscribe; a refused one returns.
OpenStream(s) ==
  /\ conn[s] = "up"
  /\ SubscribeCheck(s)
  /\ UNCHANGED <<lifecycle, streams>>

Subscribe(s) ==
  /\ SubscribeSend(s)
  /\ UNCHANGED <<lifecycle, streams>>

\* Mutant: every release of a package that is known is sent to every host.
ReceiveForAnyHost(s) ==
  /\ at[s] = "recv"
  /\ \E v \in Message \cup {Nil} :
       /\ Receive(s, v)
       /\ at' = [at EXCEPT ![s] = IF v = Nil THEN "return"
                                    ELSE IF Event[v].repo \in DOMAIN index.packageToHost
                                         THEN "send" ELSE "recv"]
  /\ UNCHANGED <<lifecycle, conn, sent>>

\* release := <-c, and what to do with it.  Nothing here looks at the
\* stream's context, so a lost connection does not end the wait.
ReceiveRelease(s) ==
  /\ at[s] = "recv"
  /\ \E v \in Message \cup {Nil} :
       /\ Receive(s, v)
       /\ at' = [at EXCEPT ![s] = IF v = Nil THEN "return"
                                    ELSE IF Wants(s, v) THEN "send"
                                                        ELSE "recv"]
  /\ UNCHANGED <<lifecycle, conn, sent>>

\* Mutant: a Send that fails is logged and the handler goes on.
SendReleaseAnyway(s) ==
  /\ at[s] = "send"
  /\ at' = [at EXCEPT ![s] = "recv"]
  /\ sent' = IF conn[s] = "up"
             THEN [sent EXCEPT ![s] = Append(@, Last(got[s]))]
             ELSE sent
  /\ UNCHANGED <<brokerVars, lifecycle, conn>>

\* stream.Send of the release just received.
SendRelease(s) ==
  /\ at[s] = "send"
  /\ \/ /\ conn[s] = "up"
        /\ sent' = [sent EXCEPT ![s] = Append(@, Last(got[s]))]
        /\ at' = [at EXCEPT ![s] = "recv"]
     \/ /\ conn[s] = "down"
        /\ at' = [at EXCEPT ![s] = "return"]
        /\ UNCHANGED sent
  /\ UNCHANGED <<brokerVars, lifecycle, conn>>

\* Mutant: the handler also returns as soon as its connection is lost.
ReturnOnLostConn(s) ==
  /\ at[s] = "return" \/ (at[s] = "recv" /\ conn[s] = "down")
  /\ UnsubscribeCheck(s)
  /\ UNCHANGED <<lifecycle, streams>>

\* The deferred Unsubscribe.
Return(s) ==
  /\ at[s] = "return"
  /\ UnsubscribeCheck(s)
  /\ UNCHANGED <<lifecycle, streams>>

Unsubscribe(s) ==
  /\ UnsubscribeSend(s)
  /\ UNCHANGED <<lifecycle, streams>>

\* PropagateGithubRelease; an event it does not propagate changes nothing.
PropagateGithubRelease(m) ==
  /\ Propagated(index, Event[m])
  /\ BroadcastCheck(m)
  /\ UNCHANGED <<lifecycle, streams>>

Broadcast(m) ==
  /\ BroadcastSend(m)
  /\ UNCHANGED <<lifecycle, streams>>

\* GetNumConnections.
NumConnections == count

-----------------------------------------------------------------------------
Next ==
  /\ fault = "none"
  /\ \/ Listen
     \/ SetListener
     \/ GoBroker
     \/ ServeFails
     \/ StopBegin
     \/ StopListener
     \/ StopBroker
     \/ BrokerLoop
     \/ \E s \in Stream : \/ Accept(s)
                          \/ ConnLost(s)
                          \/ OpenStream(s)
                          \/ Subscribe(s)
                          \/ ReceiveRelease(s)
                          \/ SendRelease(s)
                          \/ Return(s)
                          \/ Unsubscribe(s)
     \/ \E m \in Message : PropagateGithubRelease(m) \/ Broadcast(m)

Spec == Init /\ [][Next]_vars

Live(A) == fault = "none" /\ A

(* Every goroutine that can run does in the end.  A select with several    *)
(* ready cases chooses uniformly, so that stopC is chosen although closed  *)
(* broadcastC and subC are ready each time too (strong fairness).  Nothing *)
(* makes an agent connect or leave, an event arrive, a signal come or a    *)
(* listener fail.  That a stream's Send returns, with the release taken or *)
(* an error, is assumed of the transport.                                  *)
Step(A) == BrokerSpawned /\ A /\ UNCHANGED <<lifecycle, streams>>

Fairness ==
  /\ WF_vars(Live(Listen))
  /\ WF_vars(Live(SetListener))
  /\ WF_vars(Live(GoBroker))
  /\ WF_vars(Live(StopListener))
  /\ WF_vars(Live(StopBroker))
  /\ WF_vars(Live(Step(StartLoop)))
  /\ WF_vars(Live(Step(SelectSub)))
  /\ WF_vars(Live(Step(SelectUnsub)))
  /\ WF_vars(Live(Step(SelectBroadcast)))
  /\ SF_vars(Live(Step(SelectStop)))
  /\ WF_vars(Live(Step(\E c \in Channel \cup {Nil} : Fanout(c) \/ CloseSub(c))))
  /\ \A s \in Stream : /\ WF_vars(Live(Subscribe(s)))
                       /\ WF_vars(Live(ReceiveRelease(s)))
                       /\ WF_vars(Live(SendRelease(s)))
                       /\ WF_vars(Live(Return(s)))
                       /\ WF_vars(Live(Unsubscribe(s)))
  /\ \A m \in Message : WF_vars(Live(Broadcast(m)))

FairSpec == Spec /\ Fairness

-----------------------------------------------------------------------------
Subscribed(s) == caller[s] \in {"open", "unsubscribing", "left"}

(* Until a signal comes nothing panics: no channel is closed twice, sent   *)
(* on after it is closed, or closed as nil.  It rests on ReleaseStream     *)
(* unsubscribing only after it has received from its channel, since the    *)
(* loop takes subC and unsubC in either order.                             *)
NoFaultWhileRunning == stopStep = 0 => fault = "none"

(* Until a signal comes the number of connections the control plane shows  *)
(* is the number of subscribers, each the channel of a handler that has    *)
(* subscribed and whose Unsubscribe the loop has not taken.                *)
CountIsExact ==
  stopStep = 0 =>
    /\ NumConnections = Cardinality(subs)
    /\ subs = {s \in Stream : Subscribed(s) /\ s \notin ToSet(subC) \cup closed}

(* A stream that is up to date and was never offered more releases than    *)
(* its channel holds has been sent exactly the releases its host is to get *)
(* of those broadcast since it subscribed, each once and in that order.    *)
UpToDateStreamMissedNothing ==
  \A s \in subs \ {Nil} :
    LET due == {p \in since[s] + 1 .. Len(log) :
                  Listed(topology, Event[log[p]].repo, Hostname[s])}
    IN  /\ at[s] = "recv" /\ Real(buf[s]) = <<>>
        /\ loop # "fanout"
        /\ Len(log) - since[s] <= SubCap
        => /\ ToSet(sent[s]) = {log[p] : p \in due}
           /\ \A i, j \in 1..Len(sent[s]), p, q \in due :
                i < j /\ sent[s][i] = log[p] /\ sent[s][j] = log[q] => p < q

(* Closing the listener in Stop never makes Start report an error: only a  *)
(* listener that failed by itself does.                                    *)
StopIsNotAnError ==
  [][start' = "serveError" /\ start # "serveError" => listener = "open"]_vars

(* Once the broker's loop has returned, a handler that will wait on its    *)
(* channel for ever is one whose subscription was accepted into subC and   *)
(* never taken: every subscriber the loop knew was released.               *)
OnlyUntakenStreamsHang ==
  loop = "done" =>
    \A s \in Stream :
      Subscribed(s) /\ s \notin closed => s \in ToSet(subC)

-----------------------------------------------------------------------------
(* A release whose Broadcast returned is fanned out.                       *)
BroadcastIsTaken ==
  \A m \in Message : pub[m] = "sent" ~> m \in ToSet(log)

(* A handler that entered Subscribe gets registered, and one that entered  *)
(* Unsubscribe gets removed: nobody waits for the loop for ever.           *)
RequestsAreServed ==
  \A s \in Stream : /\ caller[s] = "subscribing" ~> s \in subs
                    /\ caller[s] = "unsubscribing" ~> s \in closed

(* A stream whose connection is gone leaves once it is given a release its *)
(* host wants: Send fails, the handler returns and the loop forgets it.    *)
DeadStreamLeavesAtNextRelease ==
  \A s \in Stream :
    (conn[s] = "down" /\ \E m \in ToSet(Real(buf[s])) : Wants(s, m))
      ~> s \in closed

(* After a signal every subscriber the loop knew is released, unless the   *)
(* process dies first.                                                     *)
StopReleasesStreams ==
  \A s \in Stream :
    (s \in subs /\ UnsubCClosed) ~> (caller[s] = "left" \/ fault # "none")

(* A stream whose connection is gone stops being counted.                  *)
DisconnectedIsForgotten ==
  \A s \in Stream : (conn[s] = "down" /\ s \in subs) ~> s \notin subs

(* Stop ends the process without a panic: Subscribe, Unsubscribe and       *)
(* Broadcast test isStopped, and ReleaseStream answers "subscription       *)
(* unavailable" (update_server.go:175).                                    *)
StopNeverPanics == fault = "none"
=============================================================================
