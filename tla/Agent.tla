-------------------------------- MODULE Agent --------------------------------
(***************************************************************************)
(* mahogany agent: RunAgent of main.go and pkg/mahogany/agent.go, with as  *)
(* much of the server as an agent notices.  Each Run registers, sets off a *)
(* reporter on the context of the process, which outlives the Run, and     *)
(* installs the releases its stream delivers until that ends; 60 seconds   *)
(* later comes the next Run.  A Run is known by its number, and one whose  *)
(* registration fails has none.                                            *)
(*                                                                         *)
(* The server is a ReleaseFeed whose readers are the handlers of the       *)
(* Runs' streams.  All streams of the agent share one connection.          *)
(***************************************************************************)
EXTENDS Integers, SequencesExt

CONSTANTS Release,    \* what may be published, each once
          Wanted,     \* the releases the agent's host is to get
          Steps,      \* the downloads and commands of an installation
          Capacity,   \* of the feed's queues
          MaxFaults   \* bound: how often the server, the connection or a call fails

ASSUME AgentAssumption ==
  /\ Wanted \subseteq Release
  /\ Steps \in Nat \ {0}
  /\ Capacity \in Nat \ {0}
  /\ MaxFaults \in Nat

VARIABLES
  feed, member, offered, queue,  \* the server's broker
  up,           \* whether the server runs
  faults,       \* failures so far
  main,         \* where the agent's main goroutine is
  interrupted,  \* whether its context is done
  run,          \* the number of the Run
  stream,       \* its release stream
  wire,         \* the releases on their way to the agent
  since,        \* how long the feed was when its handler subscribed
  reporter,     \* the reporters of all Runs
  ran           \* history: what was begun (step 0) and done, <<release, step, ok>>

broker    == <<feed, member, offered, queue>>
server    == <<broker, up, faults>>
agent     == <<main, interrupted, run, stream, wire, since, reporter, ran>>
agentVars == <<server, agent>>

Run == 1 .. MaxFaults + 1

Feed == INSTANCE ReleaseFeed WITH Reader <- Run, Entry <- Release

\* The types; Run waits on a stream it opened, and only a Run that has begun
\* has a reporter.
AgentTypeOK ==
  /\ feed \in Seq(Release)
  /\ member \subseteq Run
  /\ up \in BOOLEAN
  /\ faults \in 0..MaxFaults
  /\ main \in {"loop", "register", "open", "recv", "install", "hung", "wait", "closed"}
  /\ interrupted \in BOOLEAN
  /\ run \in 0 .. MaxFaults + 1
  /\ stream \in {"none", "opened", "joined", "broken"}
  /\ stream # "none" <=> main \in {"recv", "install", "hung"}
  /\ wire \in Seq(Wanted)
  /\ since \in 0..Len(feed)
  /\ reporter \in [Run -> {"none", "opening", "on", "off", "cut", "gone"}]
  /\ \A r \in Run : reporter[r] = "none" <=> r > run
  /\ ran \in Seq(Release \X (0..Steps) \X BOOLEAN)

AgentInit ==
  /\ Feed!Init
  /\ up \in BOOLEAN
  /\ faults = 0
  /\ main = "loop"
  /\ interrupted = FALSE
  /\ run = 0
  /\ stream = "none"
  /\ wire = <<>>
  /\ since = 0
  /\ reporter = [r \in Run |-> "none"]
  /\ ran = <<>>

-----------------------------------------------------------------------------
(* The server and the connection.                                          *)

Publish(m) ==
  /\ up
  /\ m \notin ToSet(feed)
  /\ Feed!Publish(m)
  /\ UNCHANGED <<up, faults, agent>>

Offer(r) ==
  /\ up
  /\ Feed!Offer(r)
  /\ UNCHANGED <<up, faults, agent>>

\* The handler of the stream subscribes, some time after the agent opened it.
Join ==
  /\ up
  /\ stream = "opened"
  /\ Feed!Join(run)
  /\ stream' = "joined"
  /\ since' = Len(feed)
  /\ UNCHANGED <<up, faults, main, interrupted, run, wire, reporter, ran>>

\* Or is refused: 'subscription unavailable', from a broker that has not
\* started yet or was stopped.  That ends the stream, not the connection.
Refuse ==
  /\ up
  /\ stream = "opened"
  /\ faults < MaxFaults
  /\ faults' = faults + 1
  /\ stream' = "broken"
  /\ UNCHANGED <<broker, up, main, interrupted, run, wire, since, reporter, ran>>

Connected(r) == r = run /\ stream = "joined"

\* Mutant: a handler does not wait for an agent that is slow.
ForwardIfIdle(r) ==
  /\ up
  /\ r \in member
  /\ Feed!Take(r)
  /\ Head(queue[r]) \in Wanted => Connected(r)
  /\ wire' = IF Head(queue[r]) \in Wanted /\ wire = <<>>
             THEN Append(wire, Head(queue[r])) ELSE wire
  /\ UNCHANGED <<up, faults, main, interrupted, run, stream, since, reporter, ran>>

\* A handler takes a release and sends it if its host is to get it.
Forward(r) ==
  /\ up
  /\ r \in member
  /\ Feed!Take(r)
  /\ Head(queue[r]) \in Wanted => Connected(r)
  /\ wire' = IF Head(queue[r]) \in Wanted THEN Append(wire, Head(queue[r])) ELSE wire
  /\ UNCHANGED <<up, faults, main, interrupted, run, stream, since, reporter, ran>>

\* One whose connection is gone fails to send, and leaves.
LeaveDead(r) ==
  /\ up
  /\ queue[r] # <<>>
  /\ Head(queue[r]) \in Wanted
  /\ ~Connected(r)
  /\ Feed!Leave(r)
  /\ UNCHANGED <<up, faults, agent>>

\* Every stream on the connection ends.  A reporter notices nothing, and
\* only if Run has its release stream by then will it start another.
Disconnect ==
  /\ stream' = IF stream = "none" THEN stream ELSE "broken"
  /\ reporter' = [r \in Run |-> IF reporter[r] # "on" THEN reporter[r]
                                ELSE IF r = run /\ main = "open" THEN "cut"
                                                                 ELSE "off"]
  /\ UNCHANGED <<main, interrupted, run, wire, since, ran>>

ConnLost ==
  /\ up
  /\ faults < MaxFaults
  /\ faults' = faults + 1
  /\ Disconnect
  /\ UNCHANGED <<broker, up>>

\* The handlers go with the server.
ServerEnds ==
  /\ up
  /\ faults < MaxFaults
  /\ faults' = faults + 1
  /\ up' = FALSE
  /\ member' = {}
  /\ Disconnect
  /\ UNCHANGED <<feed, offered, queue>>

ServerStarts ==
  /\ ~up
  /\ up' = TRUE
  /\ UNCHANGED <<broker, faults, agent>>

-----------------------------------------------------------------------------
(* The main goroutine.                                                     *)

\* What a call on the client finds: the server answers, or an error.  One
\* that a running server could have answered counts as a fault.
Answered == up /\ ~interrupted

Fails ==
  \/ ~Answered /\ UNCHANGED faults
  \/ faults < MaxFaults /\ faults' = faults + 1

Loop ==
  /\ main = "loop"
  /\ main' = IF interrupted THEN "closed" ELSE "register"
  /\ UNCHANGED <<server, interrupted, run, stream, wire, since, reporter, ran>>

\* Mutant: only the first Run sets off a reporter.
StartReporterOnce ==
  reporter' = IF run' = 1 THEN [reporter EXCEPT ![1] = "opening"] ELSE reporter

StartReporter == reporter' = [reporter EXCEPT ![run'] = "opening"]

\* register, NewMetrics, and the goroutine of the reporter; when either of
\* the first two fails, Run has set nothing off.
Register ==
  /\ main = "register"
  /\ \/ /\ Answered
        /\ run' = run + 1
        /\ main' = "open"
        /\ StartReporter
        /\ UNCHANGED faults
     \/ /\ Fails
        /\ main' = "wait"
        /\ UNCHANGED <<run, reporter>>
  /\ UNCHANGED <<broker, up, interrupted, stream, wire, since, ran>>

OpenStream ==
  /\ main = "open"
  /\ \/ /\ Answered
        /\ main' = "recv"
        /\ stream' = "opened"
        /\ UNCHANGED faults
     \/ /\ Fails
        /\ main' = "wait"
        /\ UNCHANGED stream
  /\ UNCHANGED <<broker, up, interrupted, run, wire, since, reporter, ran>>

\* Recv returns a release, which installRelease begins at once.
Receive ==
  /\ main = "recv"
  /\ wire # <<>>
  /\ wire' = Tail(wire)
  /\ ran' = Append(ran, <<Head(wire), 0, TRUE>>)
  /\ main' = "install"
  /\ UNCHANGED <<server, interrupted, run, stream, since, reporter>>

\* Mutant: the stream is opened on a context of its own.
RecvFailsBroken ==
  /\ main = "recv"
  /\ stream = "broken"
  /\ main' = "wait"
  /\ stream' = "none"
  /\ wire' = <<>>
  /\ UNCHANGED <<server, interrupted, run, since, reporter, ran>>

\* Mutant: an error of Recv does not end Run.
RecvFailsOn ==
  /\ main = "recv"
  /\ stream = "broken" \/ interrupted
  /\ stream' = "none"
  /\ wire' = <<>>
  /\ UNCHANGED <<server, main, interrupted, run, since, reporter, ran>>

\* Recv returns an error or EOF, when releases are still in its buffer too.
RecvFails ==
  /\ main = "recv"
  /\ stream = "broken" \/ interrupted
  /\ main' = "wait"
  /\ stream' = "none"
  /\ wire' = <<>>
  /\ UNCHANGED <<server, interrupted, run, since, reporter, ran>>

\* Mutant: an installation goes on after a step that failed.
InstallGoesOn ==
  /\ main = "install"
  /\ LET step == Last(ran)[2] + 1
     IN  \E ok \in BOOLEAN :
           /\ ran' = Append(ran, <<Last(ran)[1], step, ok>>)
           /\ main' = IF step < Steps THEN "install" ELSE "recv"
  /\ UNCHANGED <<server, interrupted, run, stream, wire, since, reporter>>

\* The next download or command of installRelease; one that fails ends it.
Install ==
  /\ main = "install"
  /\ LET step == Last(ran)[2] + 1
     IN  \E ok \in BOOLEAN :
           /\ ran' = Append(ran, <<Last(ran)[1], step, ok>>)
           /\ main' = IF ok /\ step < Steps THEN "install" ELSE "recv"
  /\ UNCHANGED <<server, interrupted, run, stream, wire, since, reporter>>

\* Neither has a timeout or a context.
InstallHangs ==
  /\ main = "install"
  /\ main' = "hung"
  /\ UNCHANGED <<server, interrupted, run, stream, wire, since, reporter, ran>>

\* The timer, or the context.
Wait ==
  /\ main = "wait"
  /\ main' = "loop"
  /\ UNCHANGED <<server, interrupted, run, stream, wire, since, reporter, ran>>

Interrupt ==
  /\ ~interrupted
  /\ main # "closed"
  /\ interrupted' = TRUE
  /\ UNCHANGED <<server, main, run, stream, wire, since, reporter, ran>>

-----------------------------------------------------------------------------
(* reportServices, of Run r.                                               *)

\* It opens its stream and connects to Docker and systemd; what fails ends it.
OpenReporter(r) ==
  /\ reporter[r] = "opening"
  /\ \/ /\ Answered
        /\ reporter' = [reporter EXCEPT ![r] = "on"]
     \/ reporter' = [reporter EXCEPT ![r] = "gone"]
  /\ UNCHANGED <<server, main, interrupted, run, stream, wire, since, ran>>

\* A Send that fails is logged; the context ends it between two reports.
EndReporter(r) ==
  /\ reporter[r] \in {"on", "off", "cut"}
  /\ interrupted
  /\ reporter' = [reporter EXCEPT ![r] = "gone"]
  /\ UNCHANGED <<server, main, interrupted, run, stream, wire, since, ran>>

-----------------------------------------------------------------------------
AgentNext ==
  /\ main # "closed"
  /\ \/ \E m \in Release : Publish(m)
     \/ \E r \in Run : Offer(r) \/ Forward(r) \/ LeaveDead(r)
     \/ Join \/ Refuse \/ ConnLost \/ ServerEnds \/ ServerStarts
     \/ Loop \/ Register \/ OpenStream \/ Receive \/ RecvFails
     \/ Install \/ InstallHangs \/ Wait \/ Interrupt
     \/ \E r \in Run : OpenReporter(r) \/ EndReporter(r)

AgentSpec == AgentInit /\ [][AgentNext]_agentVars

(* Every goroutine that can run does.  Nothing has to be published, to     *)
(* fail or to start again, and no installation has to end.                 *)
AgentFairness ==
  /\ WF_agentVars(Loop \/ Register \/ OpenStream \/ Wait)
  /\ WF_agentVars(main # "closed" /\ (Receive \/ RecvFails))
  /\ WF_agentVars(Install)
  /\ \A r \in Run : WF_agentVars(main # "closed" /\ OpenReporter(r))

AgentFairSpec == AgentSpec /\ AgentFairness

-----------------------------------------------------------------------------
Position(m) == SelectInSeq(feed, LAMBDA x : x = m)

(* An agent begins releases in the order they were published and none      *)
(* twice, through all its reconnections, and the steps of an installation  *)
(* are done in order up to the first that fails.                           *)
InstallsInOrder ==
  \A i \in 2..Len(ran) :
    LET last == ran[i - 1]
        this == ran[i]
    IN  IF this[2] = 0 THEN Position(last[1]) < Position(this[1])
                       ELSE last[3] /\ this[1] = last[1] /\ this[2] = last[2] + 1

(* An agent at rest on its stream, which was never offered more than its   *)
(* queue holds, has begun all its host was to get since it subscribed.     *)
AgentCaughtUp ==
  /\ main = "recv" /\ stream = "joined" /\ wire = <<>>
  /\ queue[run] = <<>> /\ offered[run] = Len(feed)
  /\ Len(feed) - since <= Capacity
  => \A i \in since + 1 .. Len(feed) :
       feed[i] \in Wanted => <<feed[i], 0, TRUE>> \in ToSet(ran)

(* Once the server stays up, the agent reports its services for good,      *)
(* unless it is stopped or hangs, or its last reporter could not connect   *)
(* or lost the connection before Run opened its own stream.                *)
ReportsResume ==
  <>[]up => <>[]( \/ \E r \in Run : reporter[r] = "on"
                  \/ run > 0 /\ reporter[run] \in {"gone", "cut"}
                  \/ main = "hung" \/ interrupted)

(* An interrupted agent ends, unless an installation hangs.                *)
InterruptCloses == interrupted ~> (main \in {"closed", "hung"})
=============================================================================
