----------------------------- MODULE AgentProofs -----------------------------
(***************************************************************************)
(* Proofs about the agent and the feed it is served from.                  *)
(***************************************************************************)
EXTENDS Agent, SequenceTheorems, TLAPS

-----------------------------------------------------------------------------
(* The inductive invariant.  A Run ends because of a fault that happened   *)
(* in it, or it is the last.                                               *)
RunBound ==
  /\ run <= faults + 1
  /\ main \in {"open", "recv", "install", "hung"} => run > 0
  /\ ~interrupted /\ main \in {"loop", "register", "wait"} => run <= faults
  /\ main = "open" /\ ~up => run <= faults
  /\ stream = "broken" => run <= faults

AgentTypes ==
  /\ AgentTypeOK
  /\ RunBound
  /\ offered \in [Run -> Nat]
  /\ \A r \in Run : offered[r] <= Len(feed)
  /\ queue \in [Run -> Seq(Release)]

(* The handler of a stream that was not accepted yet has been given nothing. *)
Fresh(r) ==
  \/ r > run
  \/ /\ r = run
     /\ main = "open" \/ stream = "opened"

FreshHasNothing ==
  /\ \A r \in Run : Fresh(r) => r \notin member /\ queue[r] = <<>>
  /\ stream \in {"none", "opened"} => wire = <<>>

(* Positions in the feed, where every release is published once.           *)
Distinct == \A p, q \in 1..Len(feed) : feed[p] = feed[q] => p = q

In(f, m, hi) == \E p \in 1..hi : f[p] = m

Before(f, m, n) == \A p, q \in 1..Len(f) : f[p] = m /\ f[q] = n => p < q

(* What was begun, what is on the wire and what the handler of the stream  *)
(* still has are in the order of the feed, one behind the other.           *)
Begun ==
  /\ \A i \in 1..Len(ran) : In(feed, ran[i][1], Len(feed))
  /\ \A i \in 1..Len(ran) :
       i > 1 =>
         IF ran[i][2] = 0 THEN Before(feed, ran[i - 1][1], ran[i][1])
         ELSE ran[i - 1][3] /\ ran[i][1] = ran[i - 1][1] /\ ran[i][2] = ran[i - 1][2] + 1
  /\ main = "install" => ran # <<>> /\ ran[Len(ran)][3] /\ ran[Len(ran)][2] < Steps

OnTheWire ==
  /\ \A k \in 1..Len(wire) : In(feed, wire[k], Len(feed))
  /\ \A k, l \in 1..Len(wire) : k < l => Before(feed, wire[k], wire[l])
  /\ \A i \in 1..Len(ran), k \in 1..Len(wire) : Before(feed, ran[i][1], wire[k])

Queued ==
  stream = "joined" =>
    /\ run \in member
    /\ \A i \in 1..Len(ran) : In(feed, ran[i][1], offered[run])
    /\ \A k \in 1..Len(wire) : In(feed, wire[k], offered[run])
    /\ \A j \in 1..Len(queue[run]) : In(feed, queue[run][j], offered[run])
    /\ \A i, j \in 1..Len(queue[run]) : i < j => Before(feed, queue[run][i], queue[run][j])
    /\ \A i \in 1..Len(ran), j \in 1..Len(queue[run]) : Before(feed, ran[i][1], queue[run][j])
    /\ \A k \in 1..Len(wire), j \in 1..Len(queue[run]) : Before(feed, wire[k], queue[run][j])

OrderInv == Distinct /\ Begun /\ OnTheWire /\ Queued

(* A stream with room for all that was published since it joined has lost  *)
(* nothing.                                                                *)
HasIt(begun, sent, held, m) ==
  \/ \E i \in 1..Len(begun) : begun[i] = <<m, 0, TRUE>>
  \/ \E k \in 1..Len(sent) : sent[k] = m
  \/ \E j \in 1..Len(held) : held[j] = m

CaughtInv ==
  stream = "joined" =>
    /\ since <= offered[run]
    /\ Len(queue[run]) <= offered[run] - since
    /\ Len(feed) - since <= Capacity =>
         \A p \in since + 1 .. offered[run] : feed[p] \in Wanted => HasIt(ran, wire, queue[run], feed[p])

AgentInv == AgentTypes /\ FreshHasNothing /\ OrderInv /\ CaughtInv

-----------------------------------------------------------------------------
(* The types, and the number of Runs.                                      *)
LEMMA LastOfRan ==
  ASSUME AgentTypeOK, ran # <<>>
  PROVE  /\ Len(ran) \in Nat \ {0}
         /\ Last(ran) = ran[Len(ran)]
         /\ ran[Len(ran)] \in Release \X (0..Steps) \X BOOLEAN
<1>1. ran \in Seq(Release \X (0..Steps) \X BOOLEAN)
  BY DEF AgentTypeOK
<1>2. Len(ran) \in Nat /\ Len(ran) # 0
  BY <1>1, LenProperties, EmptySeq
<1>3. Len(ran) \in 1..Len(ran)
  BY <1>2
<1>4. QED
  BY <1>1, <1>2, <1>3, ElementOfSeq DEF Last

LEMMA AgentTypesInit == AgentInit => AgentTypes
<1>1. SUFFICES ASSUME AgentInit PROVE AgentTypes
  OBVIOUS
<1>2. /\ <<>> \in Seq(Release) /\ <<>> \in Seq(Wanted)
      /\ <<>> \in Seq(Release \X (0..Steps) \X BOOLEAN)
      /\ Len(<<>>) = 0
  BY EmptySeq
<1>3. /\ offered \in [Run -> Nat] /\ queue \in [Run -> Seq(Release)]
      /\ \A r \in Run : offered[r] <= Len(feed)
  BY <1>1, <1>2 DEF AgentInit, Feed!Init
<1>4. \A r \in Run : reporter[r] = "none" /\ r > run
  BY <1>1 DEF AgentInit, Run
<1>5. AgentTypeOK
  <2>1. /\ feed \in Seq(Release) /\ wire \in Seq(Wanted)
        /\ ran \in Seq(Release \X (0..Steps) \X BOOLEAN)
        /\ since \in 0..Len(feed) /\ member = {}
    BY <1>1, <1>2 DEF AgentInit, Feed!Init
  <2>2. faults \in 0..MaxFaults /\ run \in 0 .. MaxFaults + 1
    BY <1>1, AgentAssumption DEF AgentInit, AgentAssumption
  <2>3. reporter \in [Run -> {"none", "opening", "on", "off", "cut", "gone"}]
    BY <1>1 DEF AgentInit
  <2>4. \A r \in Run : reporter[r] = "none" <=> r > run
    BY <1>4
  <2>5. /\ up \in BOOLEAN /\ interrupted = FALSE
        /\ main = "loop" /\ stream = "none"
    BY <1>1 DEF AgentInit
  <2>6. QED
    BY <2>1, <2>2, <2>3, <2>4, <2>5 DEF AgentTypeOK
<1>6. RunBound
  BY <1>1 DEF AgentInit, RunBound
<1>7. QED
  BY <1>3, <1>5, <1>6 DEF AgentTypes

LEMMA FeedTypesStep ==
  ASSUME AgentTypes,
         \/ \E m \in Release : Publish(m)
         \/ \E r \in Run : Offer(r) \/ Forward(r) \/ LeaveDead(r)
         \/ Join
  PROVE  AgentTypes'
<1> USE AgentAssumption DEF AgentAssumption, AgentTypes
<1>0. /\ feed \in Seq(Release) /\ wire \in Seq(Wanted) /\ Len(feed) \in Nat
      /\ \A r \in Run : queue[r] \in Seq(Release) /\ offered[r] \in Nat
  BY LenProperties DEF AgentTypeOK
<1>1. ASSUME NEW m \in Release, Publish(m)
      PROVE  AgentTypes'
  <2>1. feed' = Append(feed, m)
    BY <1>1 DEF Publish, Feed!Publish
  <2>2. feed' \in Seq(Release) /\ Len(feed') = Len(feed) + 1
    BY <2>1, <1>0, AppendProperties
  <2>3. QED
    BY <1>1, <1>0, <2>2
       DEF Publish, Feed!Publish, agent, AgentTypeOK, RunBound
<1>2. ASSUME NEW r \in Run, Offer(r)
      PROVE  AgentTypes'
  <2>1. /\ offered[r] < Len(feed)
        /\ offered' = [offered EXCEPT ![r] = offered[r] + 1]
        /\ queue' = [queue EXCEPT ![r] = IF Len(queue[r]) < Capacity
                                         THEN Append(queue[r], feed[offered[r] + 1])
                                         ELSE queue[r]]
    BY <1>2 DEF Offer, Feed!Offer
  <2>2. offered[r] + 1 \in 1..Len(feed)
    BY <2>1, <1>0
  <2>3. feed[offered[r] + 1] \in Release
    BY <2>2, <1>0, ElementOfSeq
  <2>4. Append(queue[r], feed[offered[r] + 1]) \in Seq(Release)
    BY <2>3, <1>0, AppendProperties
  <2>5. queue' \in [Run -> Seq(Release)]
    BY <2>1, <2>4, <1>0
  <2>6. offered' \in [Run -> Nat] /\ \A x \in Run : offered'[x] <= Len(feed)
    BY <2>1, <2>2, <1>0
  <2>7. QED
    BY <1>2, <2>5, <2>6 DEF Offer, Feed!Offer, agent, AgentTypeOK, RunBound
<1>3. ASSUME NEW r \in Run, Forward(r)
      PROVE  AgentTypes'
  <2>1. /\ queue[r] # <<>>
        /\ queue' = [queue EXCEPT ![r] = Tail(queue[r])]
    BY <1>3 DEF Forward, Feed!Take
  <2>2. Tail(queue[r]) \in Seq(Release)
    BY <2>1, <1>0, HeadTailProperties
  <2>3. queue' \in [Run -> Seq(Release)]
    BY <2>1, <2>2
  <2>4. wire' \in Seq(Wanted)
    BY <1>3, <1>0, AppendProperties DEF Forward
  <2>5. QED
    BY <1>3, <2>3, <2>4 DEF Forward, Feed!Take, AgentTypeOK, RunBound
<1>4. ASSUME NEW r \in Run, LeaveDead(r)
      PROVE  AgentTypes'
  BY <1>4, <1>0 DEF LeaveDead, Feed!Leave, agent, AgentTypeOK, RunBound
<1>5. CASE Join
  <2>1. run \in Run
    BY <1>5, <1>0 DEF Join, AgentTypeOK, RunBound, Run
  <2>2. QED
    BY <1>5, <1>0, <2>1 DEF Join, Feed!Join, AgentTypeOK, RunBound
<1>6. QED
  BY <1>1, <1>2, <1>3, <1>4, <1>5

LEMMA AgentTypesStep ==
  ASSUME AgentTypes, Begun, [AgentNext]_agentVars
  PROVE  AgentTypes'
<1> USE AgentAssumption DEF AgentAssumption
<1> USE DEF AgentTypes
<1>0. CASE Refuse
  BY <1>0 DEF Refuse, broker, AgentTypeOK, RunBound
<1>1. CASE ConnLost
  BY <1>1 DEF ConnLost, Disconnect, broker, AgentTypeOK, RunBound
<1>2. CASE ServerEnds
  <2>1. /\ reporter' \in [Run -> {"none", "opening", "on", "off", "cut", "gone"}]
        /\ \A r \in Run : reporter'[r] = "none" <=> r > run
    BY <1>2 DEF ServerEnds, Disconnect, AgentTypeOK
  <2>2. RunBound'
    BY <1>2 DEF ServerEnds, Disconnect, AgentTypeOK, RunBound
  <2>3. /\ stream' \in {"none", "opened", "joined", "broken"}
        /\ stream' # "none" <=> main' \in {"recv", "install", "hung"}
    BY <1>2 DEF ServerEnds, Disconnect, AgentTypeOK
  <2>4. faults' \in 0..MaxFaults
    BY <1>2 DEF ServerEnds, AgentTypeOK
  <2>5. AgentTypeOK'
    BY <1>2, <2>1, <2>3, <2>4 DEF ServerEnds, Disconnect, AgentTypeOK
  <2>6. QED
    BY <1>2, <2>2, <2>5 DEF ServerEnds
<1>3. CASE ServerStarts
  BY <1>3 DEF ServerStarts, broker, agent, AgentTypeOK, RunBound
<1>4. CASE Loop
  BY <1>4 DEF Loop, server, broker, AgentTypeOK, RunBound
<1>5. CASE Register
  <2>1. CASE Answered /\ run' = run + 1 /\ main' = "open" /\ StartReporter
             /\ UNCHANGED faults
    <3>1. run' \in Run /\ run' <= MaxFaults + 1
      BY <1>5, <2>1 DEF Register, Answered, AgentTypeOK, RunBound, Run
    <3>2. \A r \in Run : reporter'[r] = "none" <=> r > run'
      BY <2>1, <3>1 DEF StartReporter, AgentTypeOK, Run
    <3>3. QED
      BY <1>5, <2>1, <3>1, <3>2
         DEF Register, StartReporter, Answered, broker, AgentTypeOK, RunBound
  <2>2. CASE Fails /\ main' = "wait" /\ UNCHANGED <<run, reporter>>
    BY <1>5, <2>2 DEF Register, Answered, Fails, broker, AgentTypeOK, RunBound
  <2>3. QED
    BY <1>5, <2>1, <2>2 DEF Register
<1>6. CASE OpenStream
  BY <1>6 DEF OpenStream, Answered, Fails, broker, AgentTypeOK, RunBound
<1>7. CASE Receive
  <2>1. wire \in Seq(Wanted) /\ wire # <<>>
    BY <1>7 DEF Receive, AgentTypeOK
  <2>2. Tail(wire) \in Seq(Wanted) /\ Head(wire) \in Wanted
    BY <2>1, HeadTailProperties
  <2>3. <<Head(wire), 0, TRUE>> \in Release \X (0..Steps) \X BOOLEAN
    <3>1. Head(wire) \in Release /\ 0 \in 0..Steps /\ TRUE \in BOOLEAN
      BY <2>2
    <3>2. QED
      BY <3>1
  <2>4. ran' \in Seq(Release \X (0..Steps) \X BOOLEAN)
    BY <1>7, <2>3, AppendProperties DEF Receive, AgentTypeOK
  <2>5. QED
    BY <1>7, <2>2, <2>4 DEF Receive, server, broker, AgentTypeOK, RunBound
<1>8. CASE RecvFails
  <2>1. <<>> \in Seq(Wanted)
    BY EmptySeq
  <2>2. QED
    BY <1>8, <2>1 DEF RecvFails, server, broker, AgentTypeOK, RunBound
<1>9. CASE Install
  <2>1. ran # <<>> /\ ran[Len(ran)][2] < Steps
    BY <1>9 DEF Install, Begun
  <2>2. /\ Last(ran) = ran[Len(ran)]
        /\ ran[Len(ran)] \in Release \X (0..Steps) \X BOOLEAN
    BY <2>1, LastOfRan
  <2>3. PICK ok \in BOOLEAN : /\ ran' = Append(ran, <<Last(ran)[1], Last(ran)[2] + 1, ok>>)
                              /\ main' \in {"install", "recv"}
    BY <1>9 DEF Install
  <2>4. <<Last(ran)[1], Last(ran)[2] + 1, ok>> \in Release \X (0..Steps) \X BOOLEAN
    BY <2>1, <2>2
  <2>5. ran' \in Seq(Release \X (0..Steps) \X BOOLEAN)
    BY <2>3, <2>4, AppendProperties DEF AgentTypeOK
  <2>6. QED
    BY <1>9, <2>3, <2>5 DEF Install, server, broker, AgentTypeOK, RunBound
<1>10. CASE InstallHangs
  BY <1>10 DEF InstallHangs, server, broker, AgentTypeOK, RunBound
<1>11. CASE Wait
  BY <1>11 DEF Wait, server, broker, AgentTypeOK, RunBound
<1>12. CASE Interrupt
  BY <1>12 DEF Interrupt, server, broker, AgentTypeOK, RunBound
<1>13. ASSUME NEW r \in Run, OpenReporter(r) \/ EndReporter(r)
       PROVE  AgentTypes'
  BY <1>13 DEF OpenReporter, EndReporter, server, broker, AgentTypeOK, RunBound
<1>14. CASE UNCHANGED agentVars
  BY <1>14 DEF agentVars, server, broker, agent, AgentTypeOK, RunBound
<1>15. QED
  BY <1>0, <1>1, <1>2, <1>3, <1>4, <1>5, <1>6, <1>7, <1>8, <1>9, <1>10, <1>11, <1>12,
     <1>13, <1>14, FeedTypesStep DEF AgentNext

-----------------------------------------------------------------------------
(* Handlers that were given nothing yet.                                   *)
LEMMA FreshStep ==
  ASSUME AgentTypes, FreshHasNothing, [AgentNext]_agentVars
  PROVE  FreshHasNothing'
<1>0. /\ run \in Nat /\ \A r \in Run : r \in Nat
      /\ stream # "none" <=> main \in {"recv", "install", "hung"}
  BY AgentAssumption DEF AgentTypes, AgentTypeOK, Run, AgentAssumption
<1> USE DEF FreshHasNothing, Fresh
<1>1. ASSUME NEW m \in Release, Publish(m)
      PROVE  FreshHasNothing'
  BY <1>1 DEF Publish, Feed!Publish, agent
<1>2. ASSUME NEW r \in Run, Offer(r)
      PROVE  FreshHasNothing'
  <2>1. \A x \in Run : x # r => queue'[x] = queue[x]
    BY <1>2 DEF Offer, Feed!Offer, AgentTypes
  <2>2. QED
    BY <1>2, <2>1 DEF Offer, Feed!Offer, agent
<1>3. ASSUME NEW r \in Run, Forward(r)
      PROVE  FreshHasNothing'
  <2>1. \A x \in Run : x # r => queue'[x] = queue[x]
    BY <1>3 DEF Forward, Feed!Take, AgentTypes
  <2>2. QED
    BY <1>3, <2>1 DEF Forward, Feed!Take, Connected
<1>4. ASSUME NEW r \in Run, LeaveDead(r)
      PROVE  FreshHasNothing'
  BY <1>4 DEF LeaveDead, Feed!Leave, agent
<1>5. CASE Join
  BY <1>5, <1>0 DEF Join, Feed!Join
<1>6. CASE Refuse \/ ConnLost \/ ServerEnds
  BY <1>6, <1>0 DEF Refuse, ConnLost, ServerEnds, Disconnect, broker
<1>7. CASE ServerStarts
  BY <1>7 DEF ServerStarts, broker, agent
<1>8. CASE Register
  BY <1>8, <1>0 DEF Register, broker
<1>9. CASE OpenStream
  BY <1>9, <1>0 DEF OpenStream, broker
<1>10. CASE Receive
  BY <1>10 DEF Receive, server, broker
<1>11. CASE RecvFails
  BY <1>11, <1>0 DEF RecvFails, server, broker
<1>12. CASE Loop \/ Wait \/ Interrupt \/ InstallHangs
  BY <1>12, <1>0 DEF Loop, Wait, Interrupt, InstallHangs, server, broker
<1>13. CASE Install
  BY <1>13 DEF Install, server, broker
<1>14. ASSUME NEW r \in Run, OpenReporter(r) \/ EndReporter(r)
       PROVE  FreshHasNothing'
  BY <1>14 DEF OpenReporter, EndReporter, server, broker
<1>15. CASE UNCHANGED agentVars
  BY <1>15 DEF agentVars, server, broker, agent
<1>16. QED
  BY <1>1, <1>2, <1>3, <1>4, <1>5, <1>6, <1>7, <1>8, <1>9, <1>10, <1>11, <1>12, <1>13,
     <1>14, <1>15 DEF AgentNext

-----------------------------------------------------------------------------
(* Positions in the feed.                                                  *)

\* Publishing moves nothing that was published.
LEMMA PublishKeepsPlaces ==
  ASSUME feed \in Seq(Release), Distinct,
         NEW m \in Release, m \notin ToSet(feed), feed' = Append(feed, m)
  PROVE  /\ Len(feed') = Len(feed) + 1
         /\ \A p \in 1..Len(feed) : feed'[p] = feed[p]
         /\ Distinct'
         /\ \A x, y : In(feed, x, Len(feed)) /\ In(feed, y, Len(feed)) /\ Before(feed, x, y)
                        => Before(feed', x, y)
<1>1. /\ Len(feed) \in Nat
      /\ feed' \in Seq(Release) /\ Len(feed') = Len(feed) + 1
      /\ \A p \in 1..Len(feed) : feed'[p] = feed[p]
      /\ feed'[Len(feed) + 1] = m
  BY LenProperties, AppendProperties
<1>2. \A p \in 1..Len(feed) : feed[p] # m
  BY DEF ToSet
<1>3. \A p \in 1..Len(feed') : p \in 1..Len(feed) \/ p = Len(feed) + 1
  BY <1>1
<1>4. Distinct'
  <2>1. SUFFICES ASSUME NEW p \in 1..Len(feed'), NEW q \in 1..Len(feed'), feed'[p] = feed'[q]
                 PROVE  p = q
    BY DEF Distinct
  <2>2. CASE p \in 1..Len(feed) /\ q \in 1..Len(feed)
    BY <2>1, <2>2, <1>1 DEF Distinct
  <2>3. CASE p = Len(feed) + 1 \/ q = Len(feed) + 1
    BY <2>1, <2>3, <1>1, <1>2, <1>3
  <2>4. QED
    BY <2>2, <2>3, <1>3
<1>5. ASSUME NEW x, NEW y, In(feed, x, Len(feed)), In(feed, y, Len(feed)), Before(feed, x, y)
      PROVE  Before(feed', x, y)
  <2>1. x # m /\ y # m
    BY <1>5, <1>2 DEF In
  <2>2. SUFFICES ASSUME NEW p \in 1..Len(feed'), NEW q \in 1..Len(feed'),
                        feed'[p] = x, feed'[q] = y
                 PROVE  p < q
    BY DEF Before
  <2>3. p \in 1..Len(feed) /\ q \in 1..Len(feed)
    BY <2>1, <2>2, <1>1, <1>3
  <2>4. QED
    BY <2>2, <2>3, <1>1, <1>5 DEF Before
<1>6. QED
  BY <1>1, <1>4, <1>5

\* What lies within a prefix comes before what lies behind it.
LEMMA PrefixIsBefore ==
  ASSUME Distinct, Len(feed) \in Nat, NEW hi \in Nat, NEW q \in hi + 1 .. Len(feed),
         NEW x, In(feed, x, hi)
  PROVE  Before(feed, x, feed[q])
<1>1. PICK p \in 1..hi : feed[p] = x
  BY DEF In
<1>2. p \in 1..Len(feed) /\ q \in 1..Len(feed) /\ p < q
  BY <1>1
<1>3. SUFFICES ASSUME NEW a \in 1..Len(feed), NEW b \in 1..Len(feed),
                      feed[a] = x, feed[b] = feed[q]
               PROVE  a < b
  BY DEF Before
<1>4. a = p /\ b = q
  BY <1>1, <1>2, <1>3 DEF Distinct
<1>5. QED
  BY <1>2, <1>4

\* Position finds the place of a release.
LEMMA PositionIsPlace ==
  ASSUME Distinct, Len(feed) \in Nat, NEW p \in 1..Len(feed)
  PROVE  Position(feed[p]) = p
<1> DEFINE I == {i \in 1..Len(feed) : feed[i] = feed[p]}
<1>1. I = {p}
  BY DEF Distinct
<1>2. Position(feed[p]) = IF I # {} THEN Min(I) ELSE 0
  BY DEF Position, SelectInSeq
<1>3. Min({p}) = p
  BY DEF Min
<1>4. QED
  BY <1>1, <1>2, <1>3

-----------------------------------------------------------------------------
(* The steps that move no release.                                         *)
Quiet ==
  /\ feed' = feed
  /\ ran' = ran
  /\ wire' \in {wire, <<>>}
  /\ main' = "install" => main = "install"
  /\ stream' = "joined" =>
       /\ stream = "joined" /\ run' = run /\ since' = since /\ wire' = wire
       /\ run \in member => run \in member'
       /\ queue'[run] = queue[run] /\ offered'[run] = offered[run]

LEMMA JoinedRun ==
  ASSUME AgentTypes, stream = "joined"
  PROVE  run \in Run /\ main \in {"recv", "install", "hung"}
BY AgentAssumption DEF AgentTypes, AgentTypeOK, RunBound, Run, AgentAssumption

LEMMA QuietSteps ==
  ASSUME AgentTypes,
         \/ Refuse \/ ConnLost \/ ServerEnds \/ ServerStarts \/ Loop \/ Register
         \/ OpenStream \/ RecvFails \/ InstallHangs \/ Wait \/ Interrupt
         \/ \E r \in Run : LeaveDead(r) \/ OpenReporter(r) \/ EndReporter(r)
         \/ UNCHANGED agentVars
  PROVE  Quiet
<1>0. /\ stream # "none" <=> main \in {"recv", "install", "hung"}
      /\ stream = "joined" => run \in Run
  BY JoinedRun DEF AgentTypes, AgentTypeOK
<1> USE DEF Quiet, server, broker, agent
<1>1. CASE Refuse \/ ConnLost \/ ServerEnds
  BY <1>1 DEF Refuse, ConnLost, ServerEnds, Disconnect
<1>2. CASE ServerStarts \/ UNCHANGED agentVars
  BY <1>2 DEF ServerStarts, agentVars
<1>3. CASE Loop \/ Wait \/ Interrupt \/ InstallHangs
  BY <1>3 DEF Loop, Wait, Interrupt, InstallHangs
<1>4. CASE Register
  BY <1>4, <1>0 DEF Register
<1>5. CASE OpenStream
  BY <1>5, <1>0 DEF OpenStream
<1>6. CASE RecvFails
  BY <1>6 DEF RecvFails
<1>7. ASSUME NEW r \in Run, LeaveDead(r)
      PROVE  Quiet
  <2>1. stream = "joined" => r # run
    BY <1>7 DEF LeaveDead, Connected
  <2>2. /\ member' = member \ {r}
        /\ \A x \in Run : x # r => offered'[x] = offered[x]
    BY <1>7 DEF LeaveDead, Feed!Leave, AgentTypes
  <2>3. QED
    BY <1>7, <1>0, <2>1, <2>2 DEF LeaveDead, Feed!Leave
<1>8. ASSUME NEW r \in Run, OpenReporter(r) \/ EndReporter(r)
      PROVE  Quiet
  BY <1>8 DEF OpenReporter, EndReporter
<1>9. QED
  BY <1>1, <1>2, <1>3, <1>4, <1>5, <1>6, <1>7, <1>8

LEMMA QuietKeepsOrder ==
  ASSUME AgentTypes, OrderInv, CaughtInv, Quiet
  PROVE  OrderInv' /\ CaughtInv'
<1>1. Len(<<>>) = 0
  BY EmptySeq
<1>2. Distinct' /\ Begun'
  BY DEF OrderInv, Quiet, Distinct, Begun, In, Before
<1>3. OnTheWire'
  <2>1. CASE wire' = wire
    BY <2>1 DEF OrderInv, Quiet, OnTheWire, In, Before
  <2>2. CASE wire' = <<>>
    <3>1. \A k \in 1..Len(wire') : FALSE
      BY <2>2, <1>1
    <3>2. QED
      BY <3>1 DEF OnTheWire
  <2>3. QED
    BY <2>1, <2>2 DEF Quiet
<1>4. ASSUME stream' = "joined" PROVE Queued' /\ CaughtInv'
  <2>1. /\ stream = "joined" /\ run' = run /\ since' = since /\ wire' = wire
        /\ queue'[run'] = queue[run] /\ offered'[run'] = offered[run]
        /\ feed' = feed /\ ran' = ran /\ (run \in member => run' \in member')
    BY <1>4 DEF Quiet
  <2>2. Queued'
    BY <2>1 DEF OrderInv, Queued, In, Before
  <2>3. CaughtInv'
    BY <2>1 DEF CaughtInv, HasIt
  <2>4. QED
    BY <2>2, <2>3
<1>5. stream' # "joined" => Queued' /\ CaughtInv'
  BY DEF Queued, CaughtInv
<1>6. QED
  BY <1>2, <1>3, <1>4, <1>5 DEF OrderInv

-----------------------------------------------------------------------------
(* The steps that do.                                                      *)
LEMMA SeqFacts ==
  ASSUME AgentTypes
  PROVE  /\ feed \in Seq(Release) /\ Len(feed) \in Nat
         /\ wire \in Seq(Wanted) /\ Len(wire) \in Nat
         /\ ran \in Seq(Release \X (0..Steps) \X BOOLEAN) /\ Len(ran) \in Nat
         /\ \A r \in Run : /\ queue[r] \in Seq(Release) /\ Len(queue[r]) \in Nat
                           /\ offered[r] \in Nat /\ offered[r] <= Len(feed)
         /\ since \in Nat /\ Capacity \in Nat /\ Steps \in Nat
BY AgentAssumption, LenProperties DEF AgentTypes, AgentTypeOK, AgentAssumption

LEMMA PublishKeepsOrder ==
  ASSUME AgentTypes, OrderInv, CaughtInv, NEW m \in Release, Publish(m)
  PROVE  OrderInv' /\ CaughtInv'
<1>1. /\ feed' = Append(feed, m) /\ m \notin ToSet(feed)
      /\ ran' = ran /\ wire' = wire /\ queue' = queue /\ offered' = offered
      /\ member' = member /\ main' = main /\ stream' = stream /\ run' = run
      /\ since' = since
  BY DEF Publish, Feed!Publish, agent
<1>2. /\ feed \in Seq(Release) /\ Len(feed) \in Nat /\ Len(ran) \in Nat
      /\ stream = "joined" => /\ Len(queue[run]) \in Nat /\ offered[run] \in Nat
                              /\ offered[run] <= Len(feed) /\ since \in Nat
  BY SeqFacts, JoinedRun
<1>3. Distinct
  BY DEF OrderInv
<1>4. /\ Len(feed') = Len(feed) + 1
      /\ \A p \in 1..Len(feed) : feed'[p] = feed[p]
      /\ Distinct'
      /\ \A x, y : In(feed, x, Len(feed)) /\ In(feed, y, Len(feed)) /\ Before(feed, x, y)
                     => Before(feed', x, y)
  BY <1>1, <1>2, <1>3, PublishKeepsPlaces
<1>5. \A x : \A hi \in 0..Len(feed) :
        In(feed, x, hi) => /\ In(feed', x, hi) /\ In(feed', x, Len(feed'))
                           /\ In(feed, x, Len(feed))
  BY <1>2, <1>4 DEF In
<1>6. Begun'
  <2>1. \A i \in 1..Len(ran) : In(feed, ran[i][1], Len(feed))
    BY DEF OrderInv, Begun
  <2>2. \A i \in 1..Len(ran) : In(feed', ran[i][1], Len(feed'))
    BY <1>2, <1>5, <2>1
  <2>3. ASSUME NEW i \in 1..Len(ran), i > 1, ran[i][2] = 0
        PROVE  Before(feed', ran[i - 1][1], ran[i][1])
    <3>1. i - 1 \in 1..Len(ran)
      BY <2>3, <1>2
    <3>2. Before(feed, ran[i - 1][1], ran[i][1])
      BY <2>3 DEF OrderInv, Begun
    <3>3. QED
      BY <1>4, <2>1, <3>1, <3>2
  <2>4. QED
    BY <1>1, <2>2, <2>3 DEF OrderInv, Begun
<1>7. OnTheWire'
  <2>1. /\ \A i \in 1..Len(ran) : In(feed, ran[i][1], Len(feed))
        /\ \A k \in 1..Len(wire) : In(feed, wire[k], Len(feed))
    BY DEF OrderInv, Begun, OnTheWire
  <2>2. \A k \in 1..Len(wire) : In(feed', wire[k], Len(feed'))
    BY <1>2, <1>5, <2>1
  <2>3. /\ \A k, l \in 1..Len(wire) : k < l => Before(feed', wire[k], wire[l])
        /\ \A i \in 1..Len(ran), k \in 1..Len(wire) : Before(feed', ran[i][1], wire[k])
    BY <1>4, <2>1 DEF OrderInv, OnTheWire
  <2>4. QED
    BY <1>1, <2>2, <2>3 DEF OnTheWire
<1>8. ASSUME stream = "joined" PROVE Queued'
  <2>1. /\ \A i \in 1..Len(ran) : In(feed, ran[i][1], offered[run])
        /\ \A k \in 1..Len(wire) : In(feed, wire[k], offered[run])
        /\ \A j \in 1..Len(queue[run]) : In(feed, queue[run][j], offered[run])
        /\ offered[run] \in 0..Len(feed)
    BY <1>2, <1>8 DEF OrderInv, Queued
  <2>2. /\ \A i \in 1..Len(ran) : In(feed', ran[i][1], offered[run])
        /\ \A k \in 1..Len(wire) : In(feed', wire[k], offered[run])
        /\ \A j \in 1..Len(queue[run]) : In(feed', queue[run][j], offered[run])
    BY <1>5, <2>1
  <2>3. /\ \A i \in 1..Len(ran) : In(feed, ran[i][1], Len(feed))
        /\ \A k \in 1..Len(wire) : In(feed, wire[k], Len(feed))
        /\ \A j \in 1..Len(queue[run]) : In(feed, queue[run][j], Len(feed))
    BY <1>5, <2>1
  <2>4. /\ \A i, j \in 1..Len(queue[run]) :
             i < j => Before(feed', queue[run][i], queue[run][j])
        /\ \A i \in 1..Len(ran), j \in 1..Len(queue[run]) :
             Before(feed', ran[i][1], queue[run][j])
        /\ \A k \in 1..Len(wire), j \in 1..Len(queue[run]) :
             Before(feed', wire[k], queue[run][j])
    BY <1>4, <1>8, <2>3 DEF OrderInv, Queued
  <2>5. run \in member
    BY <1>8 DEF OrderInv, Queued
  <2>6. QED
    BY <1>1, <2>2, <2>4, <2>5 DEF Queued
<1>9. CaughtInv'
  <2>1. SUFFICES ASSUME stream = "joined" PROVE CaughtInv'
    BY <1>1 DEF CaughtInv
  <2>2. since <= offered[run] /\ Len(queue[run]) <= offered[run] - since
    BY <2>1 DEF CaughtInv
  <2>3. ASSUME Len(feed') - since <= Capacity,
               NEW p \in since + 1 .. offered[run], feed'[p] \in Wanted
        PROVE  HasIt(ran, wire, queue[run], feed'[p])
    <3>1. p \in 1..Len(feed) /\ Len(feed) - since <= Capacity
      BY <1>2, <1>4, <2>1, <2>3, SeqFacts
    <3>2. feed'[p] = feed[p]
      BY <1>4, <3>1
    <3>3. QED
      BY <2>1, <2>3, <3>1, <3>2 DEF CaughtInv
  <2>4. QED
    BY <1>1, <2>1, <2>2, <2>3 DEF CaughtInv
<1>10. QED
  BY <1>1, <1>4, <1>6, <1>7, <1>8, <1>9 DEF OrderInv, Queued

LEMMA OfferKeepsOrder ==
  ASSUME AgentTypes, OrderInv, CaughtInv, NEW r \in Run, Offer(r)
  PROVE  OrderInv' /\ CaughtInv'
<1>1. /\ feed' = feed /\ ran' = ran /\ wire' = wire /\ main' = main
      /\ member' = member /\ stream' = stream /\ run' = run /\ since' = since
      /\ offered[r] < Len(feed)
      /\ offered' = [offered EXCEPT ![r] = offered[r] + 1]
      /\ queue' = [queue EXCEPT ![r] = IF Len(queue[r]) < Capacity
                                       THEN Append(queue[r], feed[offered[r] + 1])
                                       ELSE queue[r]]
  BY DEF Offer, Feed!Offer, agent
<1>2. Distinct' /\ Begun' /\ OnTheWire'
  BY <1>1 DEF OrderInv, Distinct, Begun, OnTheWire
<1>3. CASE stream # "joined" \/ r # run
  <2>1. stream = "joined" => offered'[run] = offered[run] /\ queue'[run] = queue[run]
    BY <1>1, <1>3, JoinedRun DEF AgentTypes
  <2>2. Quiet
    BY <1>1, <2>1 DEF Quiet
  <2>3. QED
    BY <2>2, QuietKeepsOrder
<1>4. CASE stream = "joined" /\ r = run
  <2> DEFINE o == offered[run]
             q == queue[run]
             m == feed[o + 1]
  <2>1. /\ feed \in Seq(Release) /\ Len(feed) \in Nat /\ Len(ran) \in Nat /\ Len(wire) \in Nat
        /\ q \in Seq(Release) /\ Len(q) \in Nat /\ o \in Nat /\ since \in Nat
        /\ o + 1 \in 1..Len(feed) /\ m \in Release /\ Capacity \in Nat
    BY <1>1, <1>4, SeqFacts, ElementOfSeq
  <2>2. /\ offered'[run] = o + 1
        /\ queue'[run] = IF Len(q) < Capacity THEN Append(q, m) ELSE q
    BY <1>1, <1>4 DEF AgentTypes
  <2>3. /\ Len(Append(q, m)) = Len(q) + 1
        /\ \A i \in 1..Len(q) : Append(q, m)[i] = q[i]
        /\ Append(q, m)[Len(q) + 1] = m
    BY <2>1, AppendProperties
  <2>4. /\ run \in member
        /\ \A i \in 1..Len(ran) : In(feed, ran[i][1], o)
        /\ \A k \in 1..Len(wire) : In(feed, wire[k], o)
        /\ \A j \in 1..Len(q) : In(feed, q[j], o)
        /\ \A i, j \in 1..Len(q) : i < j => Before(feed, q[i], q[j])
        /\ \A i \in 1..Len(ran), j \in 1..Len(q) : Before(feed, ran[i][1], q[j])
        /\ \A k \in 1..Len(wire), j \in 1..Len(q) : Before(feed, wire[k], q[j])
    BY <1>4 DEF OrderInv, Queued
  <2>5. \A x : In(feed, x, o) => In(feed, x, o + 1) /\ Before(feed, x, m)
    <3>1. o + 1 \in o + 1 .. Len(feed) /\ Distinct
      BY <2>1 DEF OrderInv
    <3>2. \A x : In(feed, x, o) => Before(feed, x, m)
      BY <2>1, <3>1, PrefixIsBefore
    <3>3. \A x : In(feed, x, o) => In(feed, x, o + 1)
      BY <2>1 DEF In
    <3>4. QED
      BY <3>2, <3>3
  <2>6. In(feed, m, o + 1)
    BY <2>1 DEF In
  <2>7. /\ since <= o /\ Len(q) <= o - since
        /\ Len(feed) - since <= Capacity =>
             \A p \in since + 1 .. o : feed[p] \in Wanted => HasIt(ran, wire, q, feed[p])
    BY <1>4 DEF CaughtInv
  <2> HIDE DEF m, q, o
  <2>8. CASE Len(q) < Capacity
    <3> DEFINE q2 == queue'[run]
    <3>1. /\ Len(q2) = Len(q) + 1
          /\ \A j \in 1..Len(q) : q2[j] = q[j]
          /\ q2[Len(q) + 1] = m
          /\ \A j \in 1..Len(q2) : j \in 1..Len(q) \/ j = Len(q) + 1
      BY <2>1, <2>2, <2>3, <2>8
    <3> HIDE DEF q2
    <3>2. Queued'
      <4>1. \A j \in 1..Len(q2) : In(feed, q2[j], o + 1)
        BY <2>4, <2>5, <2>6, <3>1
      <4>2. ASSUME NEW i \in 1..Len(q2), NEW j \in 1..Len(q2), i < j
            PROVE  Before(feed, q2[i], q2[j])
        <5>1. i \in 1..Len(q)
          BY <4>2, <2>1, <3>1
        <5>2. QED
          BY <4>2, <5>1, <2>4, <2>5, <3>1
      <4>3. \A i \in 1..Len(ran), j \in 1..Len(q2) : Before(feed, ran[i][1], q2[j])
        BY <2>4, <2>5, <3>1
      <4>4. \A k \in 1..Len(wire), j \in 1..Len(q2) : Before(feed, wire[k], q2[j])
        BY <2>4, <2>5, <3>1
      <4>5. /\ \A i \in 1..Len(ran) : In(feed, ran[i][1], o + 1)
            /\ \A k \in 1..Len(wire) : In(feed, wire[k], o + 1)
        BY <2>4, <2>5
      <4>6. QED
        BY <1>1, <2>2, <2>4, <4>1, <4>2, <4>3, <4>4, <4>5 DEF Queued, q2
    <3>3. CaughtInv'
      <4>1. since <= o + 1 /\ Len(q2) <= (o + 1) - since
        BY <2>1, <2>7, <3>1
      <4> \A j \in 1..Len(q) : j \in 1..Len(q2)
        BY <2>1, <3>1
      <4>2. \A x : HasIt(ran, wire, q, x) => HasIt(ran, wire, q2, x)
        BY <3>1, Zenon DEF HasIt
      <4> Len(q) + 1 \in 1..Len(q2)
        BY <2>1, <3>1
      <4>3. HasIt(ran, wire, q2, m)
        BY <3>1, Zenon DEF HasIt
      <4>4. ASSUME Len(feed) - since <= Capacity, NEW p \in since + 1 .. o + 1,
                   feed[p] \in Wanted
            PROVE  HasIt(ran, wire, q2, feed[p])
        <5>1. p \in since + 1 .. o \/ p = o + 1
          BY <2>1
        <5>2. CASE p \in since + 1 .. o
          BY <2>7, <4>2, <4>4, <5>2
        <5>3. CASE p = o + 1
          BY <4>3, <5>3 DEF m
        <5>4. QED
          BY <5>1, <5>2, <5>3
      <4>5. QED
        BY <1>1, <1>4, <2>2, <4>1, <4>4 DEF CaughtInv, q2
    <3>4. QED
      BY <1>2, <3>2, <3>3 DEF OrderInv
  <2>9. CASE ~(Len(q) < Capacity)
    <3>1. queue'[run] = q
      BY <2>2, <2>9
    <3>2. Queued'
      BY <1>1, <2>2, <2>4, <2>5, <3>1 DEF Queued
    <3>3. ~(Len(feed) - since <= Capacity)
      BY <2>1, <2>7, <2>9
    <3>4. since <= o + 1 /\ Len(q) <= (o + 1) - since
      BY <2>1, <2>7
    <3>5. CaughtInv'
      BY <1>1, <2>2, <3>1, <3>3, <3>4 DEF CaughtInv
    <3>6. QED
      BY <1>2, <3>2, <3>5 DEF OrderInv
  <2>10. QED
    BY <2>8, <2>9
<1>5. QED
  BY <1>3, <1>4

LEMMA JoinKeepsOrder ==
  ASSUME AgentTypes, FreshHasNothing, OrderInv, CaughtInv, Join
  PROVE  OrderInv' /\ CaughtInv'
<1>1. /\ stream = "opened" /\ run' = run /\ stream' = "joined" /\ since' = Len(feed)
      /\ feed' = feed /\ ran' = ran /\ wire' = wire /\ main' = main /\ queue' = queue
      /\ member' = member \cup {run} /\ offered' = [offered EXCEPT ![run] = Len(feed)]
  BY DEF Join, Feed!Join
<1>2. run \in Run
  BY <1>1, AgentAssumption DEF AgentTypes, AgentTypeOK, RunBound, Run, AgentAssumption
<1>3. wire = <<>> /\ queue[run] = <<>> /\ Len(<<>>) = 0
  BY <1>1, <1>2, EmptySeq DEF FreshHasNothing, Fresh
<1>4. /\ offered'[run] = Len(feed) /\ Len(feed) \in Nat
      /\ \A j \in 1..Len(queue[run]) : FALSE
      /\ \A k \in 1..Len(wire) : FALSE
  BY <1>1, <1>2, <1>3, SeqFacts DEF AgentTypes
<1>5. Distinct' /\ Begun' /\ OnTheWire'
  BY <1>1 DEF OrderInv, Distinct, Begun, OnTheWire
<1>6. Queued'
  <2>1. \A i \in 1..Len(ran) : In(feed, ran[i][1], Len(feed))
    BY DEF OrderInv, Begun
  <2>2. QED
    BY <1>1, <1>4, <2>1 DEF Queued
<1>7. CaughtInv'
  <2>1. Len(queue[run]) <= Len(feed) - Len(feed) /\ Len(feed) <= Len(feed)
    BY <1>3, <1>4
  <2>2. \A p \in Len(feed) + 1 .. Len(feed) : FALSE
    BY <1>4
  <2>3. QED
    BY <1>1, <1>4, <2>1, <2>2 DEF CaughtInv
<1>8. QED
  BY <1>5, <1>6, <1>7 DEF OrderInv

LEMMA ForwardKeepsOrder ==
  ASSUME AgentTypes, OrderInv, CaughtInv, NEW r \in Run, Forward(r)
  PROVE  OrderInv' /\ CaughtInv'
<1>1. /\ feed' = feed /\ ran' = ran /\ main' = main /\ offered' = offered
      /\ member' = member /\ stream' = stream /\ run' = run /\ since' = since
      /\ queue[r] # <<>>
      /\ queue' = [queue EXCEPT ![r] = Tail(queue[r])]
      /\ Head(queue[r]) \in Wanted => r = run /\ stream = "joined"
      /\ wire' = IF Head(queue[r]) \in Wanted THEN Append(wire, Head(queue[r])) ELSE wire
  BY DEF Forward, Feed!Take, Connected
<1>2. CASE stream # "joined" \/ r # run
  <2>1. stream = "joined" => queue'[run] = queue[run]
    BY <1>1, <1>2, JoinedRun DEF AgentTypes
  <2>2. Quiet
    BY <1>1, <1>2, <2>1 DEF Quiet
  <2>3. QED
    BY <2>2, QuietKeepsOrder
<1>3. CASE stream = "joined" /\ r = run
  <2> DEFINE o  == offered[run]
             q  == queue[run]
             m  == Head(q)
             q2 == queue'[run]
             w  == wire
             w2 == wire'
  <2>1. /\ Len(w) \in Nat /\ Len(ran) \in Nat /\ Len(q) \in Nat /\ Len(q) # 0
        /\ w \in Seq(Wanted) /\ o \in Nat /\ o <= Len(feed) /\ Len(feed) \in Nat
        /\ since \in Nat
    BY <1>1, <1>3, SeqFacts, EmptySeq
  <2>2. /\ Len(q2) = Len(q) - 1 /\ m = q[1]
        /\ \A j \in 1..Len(q2) : q2[j] = q[j + 1] /\ j + 1 \in 1..Len(q)
    <3>1. q2 = Tail(q) /\ q \in Seq(Release) /\ q # <<>>
      BY <1>1, <1>3, SeqFacts DEF AgentTypes
    <3>2. /\ Len(Tail(q)) = Len(q) - 1 /\ Head(q) = q[1]
          /\ \A j \in 1..Len(Tail(q)) : Tail(q)[j] = q[j + 1]
      BY <3>1, HeadTailProperties
    <3>3. QED
      BY <3>1, <3>2, <2>1
  <2>3. 1 \in 1..Len(q) /\ \A j \in 1..Len(q) : j = 1 \/ j - 1 \in 1..Len(q2)
    BY <2>1, <2>2
  <2>4. \/ m \notin Wanted /\ w2 = w
        \/ /\ m \in Wanted /\ Len(w2) = Len(w) + 1
           /\ \A k \in 1..Len(w) : w2[k] = w[k]
           /\ w2[Len(w) + 1] = m
    BY <1>1, <1>3, <2>1, AppendProperties
  <2>5. /\ run \in member
        /\ \A i \in 1..Len(ran) : In(feed, ran[i][1], o)
        /\ \A k \in 1..Len(w) : In(feed, w[k], o)
        /\ \A j \in 1..Len(q) : In(feed, q[j], o)
        /\ \A i, j \in 1..Len(q) : i < j => Before(feed, q[i], q[j])
        /\ \A i \in 1..Len(ran), j \in 1..Len(q) : Before(feed, ran[i][1], q[j])
        /\ \A k \in 1..Len(w), j \in 1..Len(q) : Before(feed, w[k], q[j])
    BY <1>3 DEF OrderInv, Queued
  <2>6. /\ \A k, l \in 1..Len(w) : k < l => Before(feed, w[k], w[l])
        /\ \A i \in 1..Len(ran), k \in 1..Len(w) : Before(feed, ran[i][1], w[k])
    BY DEF OrderInv, OnTheWire
  <2>7. \A x : In(feed, x, o) => In(feed, x, Len(feed))
    BY <2>1 DEF In
  <2>8. /\ since <= o /\ Len(q) <= o - since
        /\ Len(feed) - since <= Capacity =>
             \A p \in since + 1 .. o : feed[p] \in Wanted => HasIt(ran, w, q, feed[p])
    BY <1>3 DEF CaughtInv
  <2> HIDE DEF o, q, m, q2, w, w2
  <2>9. \A k \in 1..Len(w2) : (k \in 1..Len(w) /\ w2[k] = w[k]) \/ (k > Len(w) /\ w2[k] = m)
    BY <2>1, <2>4
  <2>10. \A j \in 1..Len(q2) : Before(feed, m, q2[j])
    <3>1. \A j \in 1..Len(q2) : 1 < j + 1
      BY <2>1, <2>2
    <3>2. QED
      BY <2>2, <2>3, <2>5, <3>1
  <2>11. Queued'
    <3>1. /\ \A k \in 1..Len(w2) : In(feed, w2[k], o)
          /\ \A j \in 1..Len(q2) : In(feed, q2[j], o)
          /\ \A i \in 1..Len(ran), j \in 1..Len(q2) : Before(feed, ran[i][1], q2[j])
      BY <2>2, <2>3, <2>5, <2>9
    <3>2. \A i, j \in 1..Len(q2) : i < j => Before(feed, q2[i], q2[j])
      <4>1. \A i, j \in 1..Len(q2) : i < j => i + 1 < j + 1
        BY <2>1, <2>2
      <4>2. QED
        BY <2>2, <2>5, <4>1
    <3>3. \A k \in 1..Len(w2), j \in 1..Len(q2) : Before(feed, w2[k], q2[j])
      BY <2>2, <2>5, <2>9, <2>10
    <3>4. QED
      BY <1>1, <2>5, <3>1, <3>2, <3>3 DEF Queued, o, q2, w2
  <2>12. OnTheWire'
    <3>1. \A k \in 1..Len(w2) : In(feed, w2[k], Len(feed))
      BY <2>2, <2>3, <2>5, <2>7, <2>9
    <3>2. ASSUME NEW k \in 1..Len(w2), NEW l \in 1..Len(w2), k < l
          PROVE  Before(feed, w2[k], w2[l])
      <4>1. k \in 1..Len(w) /\ w2[k] = w[k]
        BY <3>2, <2>1, <2>4
      <4>2. QED
        BY <3>2, <4>1, <2>2, <2>3, <2>5, <2>6, <2>9
    <3>3. \A i \in 1..Len(ran), k \in 1..Len(w2) : Before(feed, ran[i][1], w2[k])
      BY <2>2, <2>3, <2>5, <2>6, <2>9
    <3>4. QED
      BY <1>1, <3>1, <3>2, <3>3 DEF OnTheWire, w2
  <2>13. Distinct' /\ Begun'
    BY <1>1 DEF OrderInv, Distinct, Begun
  <2>14. CaughtInv'
    <3>1. Len(q2) <= o - since
      BY <2>1, <2>2, <2>8
    <3>2. ASSUME NEW x \in Wanted, HasIt(ran, w, q, x)
          PROVE  HasIt(ran, w2, q2, x)
      <4>1. CASE \E i \in 1..Len(ran) : ran[i] = <<x, 0, TRUE>>
        BY <4>1, Zenon DEF HasIt
      <4>2. CASE \E k \in 1..Len(w) : w[k] = x
        <5>1. PICK k \in 1..Len(w) : w[k] = x
          BY <4>2
        <5>2. k \in 1..Len(w2) /\ w2[k] = x
          BY <5>1, <2>1, <2>4
        <5>3. QED
          BY <5>2, Zenon DEF HasIt
      <4>3. CASE \E j \in 1..Len(q) : q[j] = x
        <5>1. PICK j \in 1..Len(q) : q[j] = x
          BY <4>3
        <5>2. CASE j = 1
          <6>1. Len(w) + 1 \in 1..Len(w2) /\ w2[Len(w) + 1] = x
            BY <3>2, <5>1, <5>2, <2>1, <2>2, <2>4
          <6>2. QED
            BY <6>1, Zenon DEF HasIt
        <5>3. CASE j # 1
          <6>1. j - 1 \in 1..Len(q2) /\ j - 1 + 1 = j
            BY <5>1, <5>3, <2>3
          <6>2. q2[j - 1] = x
            BY <5>1, <6>1, <2>2
          <6>3. QED
            BY <6>1, <6>2, Zenon DEF HasIt
        <5>4. QED
          BY <5>2, <5>3
      <4>4. QED
        BY <3>2, <4>1, <4>2, <4>3, Zenon DEF HasIt
    <3>3. QED
      BY <1>1, <2>8, <3>1, <3>2 DEF CaughtInv, o, q2, w2
  <2>15. QED
    BY <2>11, <2>12, <2>13, <2>14 DEF OrderInv
<1>4. QED
  BY <1>2, <1>3

LEMMA AppendAdds ==
  ASSUME NEW S, NEW s \in Seq(S), NEW x \in S, NEW t, t = Append(s, x)
  PROVE  /\ Len(t) = Len(s) + 1 /\ t[Len(s) + 1] = x
         /\ \A i \in 1..Len(s) : t[i] = s[i] /\ i \in 1..Len(t)
         /\ Len(t) \in 1..Len(t)
         /\ \A i \in 1..Len(t) : (i \in 1..Len(s) /\ t[i] = s[i]) \/ (i = Len(s) + 1 /\ t[i] = x)
<1>1. /\ Len(t) = Len(s) + 1 /\ t[Len(s) + 1] = x
      /\ \A i \in 1..Len(s) : t[i] = s[i]
      /\ Len(s) \in Nat
  BY AppendProperties, LenProperties
<1>2. \A i \in 1..Len(t) : i \in 1..Len(s) \/ i = Len(s) + 1
  BY <1>1
<1>3. QED
  BY <1>1, <1>2

LEMMA ReceiveKeepsOrder ==
  ASSUME AgentTypes, OrderInv, CaughtInv, Receive
  PROVE  OrderInv' /\ CaughtInv'
<1> DEFINE b  == ran
           b2 == ran'
           w  == wire
           w2 == wire'
           q  == queue[run]
           o  == offered[run]
           m  == Head(wire)
           e  == <<m, 0, TRUE>>
<1>1. /\ feed' = feed /\ queue' = queue /\ offered' = offered /\ member' = member
      /\ stream' = stream /\ run' = run /\ since' = since /\ main' = "install"
      /\ w # <<>> /\ w2 = Tail(w) /\ b2 = Append(b, e)
  BY DEF Receive, server, broker
<1>2. /\ Len(w) \in Nat /\ Len(w) # 0 /\ Len(b) \in Nat /\ Len(feed) \in Nat
      /\ Steps \in Nat \ {0}
  BY <1>1, SeqFacts, EmptySeq, AgentAssumption DEF AgentAssumption
<1>3. /\ Len(w2) = Len(w) - 1 /\ m = w[1]
      /\ \A k \in 1..Len(w2) : w2[k] = w[k + 1] /\ k + 1 \in 1..Len(w)
  <2>1. /\ Len(Tail(w)) = Len(w) - 1 /\ Head(w) = w[1]
        /\ \A k \in 1..Len(Tail(w)) : Tail(w)[k] = w[k + 1]
    BY <1>1, SeqFacts, HeadTailProperties
  <2>2. QED
    BY <2>1, <1>1, <1>2
<1>4. 1 \in 1..Len(w) /\ \A k \in 1..Len(w) : k = 1 \/ k - 1 \in 1..Len(w2)
  BY <1>2, <1>3
<1>5. /\ Len(b2) = Len(b) + 1 /\ b2[Len(b) + 1] = e
      /\ \A i \in 1..Len(b) : b2[i] = b[i] /\ i \in 1..Len(b2)
      /\ Len(b2) \in 1..Len(b2)
      /\ \A i \in 1..Len(b2) : \/ i \in 1..Len(b) /\ b2[i] = b[i]
                               \/ i = Len(b) + 1 /\ b2[i] = e
  <2>1. m \in Release /\ 0 \in 0..Steps /\ TRUE \in BOOLEAN
    BY <1>1, <1>2, SeqFacts, HeadTailProperties, AgentAssumption DEF AgentAssumption
  <2>2. e \in Release \X (0..Steps) \X BOOLEAN
    BY <2>1
  <2>3. b \in Seq(Release \X (0..Steps) \X BOOLEAN)
    BY SeqFacts
  <2> HIDE DEF b, b2, m, e
  <2>4. QED
    BY <2>2, <2>3, <1>1, AppendAdds
<1>6. e[1] = m /\ e[2] = 0 /\ e[3] = TRUE
  OBVIOUS
<1>7. \A i \in 1..Len(b2) : \/ i \in 1..Len(b) /\ b2[i] = b[i]
                            \/ /\ i = Len(b) + 1
                               /\ b2[i][1] = m /\ b2[i][2] = 0 /\ b2[i][3] = TRUE
  <2> HIDE DEF b, b2, m, e
  <2>1. QED
    BY <1>5, <1>6
<1>8. /\ \A i \in 1..Len(b) : In(feed, b[i][1], Len(feed))
      /\ \A i \in 1..Len(b) :
           i > 1 =>
             IF b[i][2] = 0 THEN Before(feed, b[i - 1][1], b[i][1])
             ELSE b[i - 1][3] /\ b[i][1] = b[i - 1][1] /\ b[i][2] = b[i - 1][2] + 1
  BY DEF OrderInv, Begun
<1>9. /\ \A k \in 1..Len(w) : In(feed, w[k], Len(feed))
      /\ \A k, l \in 1..Len(w) : k < l => Before(feed, w[k], w[l])
      /\ \A i \in 1..Len(b), k \in 1..Len(w) : Before(feed, b[i][1], w[k])
  BY DEF OrderInv, OnTheWire
<1>10. stream = "joined" =>
        /\ run \in member
        /\ \A i \in 1..Len(b) : In(feed, b[i][1], o)
        /\ \A k \in 1..Len(w) : In(feed, w[k], o)
        /\ \A j \in 1..Len(q) : In(feed, q[j], o)
        /\ \A i, j \in 1..Len(q) : i < j => Before(feed, q[i], q[j])
        /\ \A i \in 1..Len(b), j \in 1..Len(q) : Before(feed, b[i][1], q[j])
        /\ \A k \in 1..Len(w), j \in 1..Len(q) : Before(feed, w[k], q[j])
  BY DEF OrderInv, Queued
<1>11. stream = "joined" =>
         /\ since <= o /\ Len(q) <= o - since
         /\ Len(feed) - since <= Capacity =>
              \A p \in since + 1 .. o : feed[p] \in Wanted => HasIt(b, w, q, feed[p])
  BY DEF CaughtInv
<1> HIDE DEF b, b2, w, w2, q, o, m, e
<1>12. Begun'
  <2>1. \A i \in 1..Len(b2) : In(feed, b2[i][1], Len(feed))
    BY <1>3, <1>4, <1>7, <1>8, <1>9, <1>6
  <2>2. ASSUME NEW i \in 1..Len(b2), i > 1
        PROVE  IF b2[i][2] = 0 THEN Before(feed, b2[i - 1][1], b2[i][1])
               ELSE b2[i - 1][3] /\ b2[i][1] = b2[i - 1][1] /\ b2[i][2] = b2[i - 1][2] + 1
    <3>1. i - 1 \in 1..Len(b) /\ b2[i - 1] = b[i - 1]
      BY <2>2, <1>2, <1>5
    <3>2. CASE i \in 1..Len(b)
      BY <2>2, <3>1, <3>2, <1>5, <1>8
    <3>3. CASE i = Len(b) + 1
      BY <3>1, <3>3, <1>3, <1>4, <1>5, <1>9, <1>6
    <3>4. QED
      BY <3>2, <3>3, <1>2, <1>5
  <2>3. b2 # <<>> /\ b2[Len(b2)][3] /\ b2[Len(b2)][2] < Steps
    BY <1>2, <1>5, <1>6, EmptySeq
  <2>4. QED
    BY <1>1, <2>1, <2>2, <2>3 DEF Begun, b2
<1>13. OnTheWire'
  <2>1. \A k, l \in 1..Len(w2) : k < l => Before(feed, w2[k], w2[l])
    <3>1. \A k, l \in 1..Len(w2) : k < l => k + 1 < l + 1
      BY <1>2, <1>3
    <3>2. QED
      BY <1>3, <1>9, <3>1
  <2>2. ASSUME NEW i \in 1..Len(b2), NEW k \in 1..Len(w2)
        PROVE  Before(feed, b2[i][1], w2[k])
    <3>1. 1 < k + 1
      BY <1>2, <1>3
    <3>2. k + 1 \in 1..Len(w) /\ w2[k] = w[k + 1] /\ 1 \in 1..Len(w)
      BY <1>3, <1>4
    <3>3. CASE i \in 1..Len(b) /\ b2[i] = b[i]
      BY <3>2, <3>3, <1>9
    <3>4. CASE b2[i][1] = m
      BY <3>1, <3>2, <3>4, <1>3, <1>9
    <3>5. QED
      BY <3>3, <3>4, <1>7
  <2>3. \A k \in 1..Len(w2) : In(feed, w2[k], Len(feed))
    BY <1>3, <1>9
  <2>4. QED
    BY <1>1, <2>1, <2>2, <2>3 DEF OnTheWire, b2, w2
<1>14. Queued'
  <2>1. SUFFICES ASSUME stream = "joined" PROVE Queued'
    BY <1>1 DEF Queued
  <2>2. /\ \A i \in 1..Len(b2) : In(feed, b2[i][1], o)
        /\ \A k \in 1..Len(w2) : In(feed, w2[k], o)
        /\ \A i \in 1..Len(b2), j \in 1..Len(q) : Before(feed, b2[i][1], q[j])
        /\ \A k \in 1..Len(w2), j \in 1..Len(q) : Before(feed, w2[k], q[j])
    BY <2>1, <1>3, <1>4, <1>7, <1>10, <1>6
  <2>3. QED
    BY <2>1, <2>2, <1>1, <1>10 DEF Queued, b2, w2, q, o
<1>15. CaughtInv'
  <2>1. ASSUME NEW x, HasIt(b, w, q, x) PROVE HasIt(b2, w2, q, x)
    <3>1. CASE \E i \in 1..Len(b) : b[i] = <<x, 0, TRUE>>
      BY <3>1, <1>5, Zenon DEF HasIt
    <3>2. CASE \E k \in 1..Len(w) : w[k] = x
      <4>1. PICK k \in 1..Len(w) : w[k] = x
        BY <3>2
      <4>2. CASE k = 1
        <5>1. b2[Len(b2)] = <<x, 0, TRUE>>
          BY <4>1, <4>2, <1>3, <1>5 DEF e
        <5>2. QED
          BY <5>1, <1>5, Zenon DEF HasIt
      <4>3. CASE k # 1
        <5>1. k - 1 \in 1..Len(w2) /\ k - 1 + 1 = k
          BY <4>1, <4>3, <1>4
        <5>2. w2[k - 1] = x
          BY <4>1, <5>1, <1>3
        <5>3. QED
          BY <5>1, <5>2, Zenon DEF HasIt
      <4>4. QED
        BY <4>2, <4>3
    <3>3. CASE \E j \in 1..Len(q) : q[j] = x
      BY <3>3, Zenon DEF HasIt
    <3>4. QED
      BY <2>1, <3>1, <3>2, <3>3, Zenon DEF HasIt
  <2>2. QED
    BY <2>1, <1>1, <1>11 DEF CaughtInv, b2, w2, q, o
<1>16. Distinct'
  BY <1>1 DEF OrderInv, Distinct
<1>17. QED
  BY <1>12, <1>13, <1>14, <1>15, <1>16 DEF OrderInv

LEMMA InstallKeepsOrder ==
  ASSUME AgentTypes, OrderInv, CaughtInv, Install
  PROVE  OrderInv' /\ CaughtInv'
<1> DEFINE b  == ran
           b2 == ran'
           n  == Len(ran)
<1>1. /\ feed' = feed /\ queue' = queue /\ offered' = offered /\ member' = member
      /\ stream' = stream /\ run' = run /\ since' = since /\ wire' = wire
      /\ main = "install"
  BY DEF Install, server, broker
<1>2. /\ b # <<>> /\ b[n][3] /\ b[n][2] < Steps
      /\ n \in Nat \ {0} /\ Last(b) = b[n] /\ n \in 1..n
      /\ b[n] \in Release \X (0..Steps) \X BOOLEAN
  <2>1. ran # <<>> /\ ran[Len(ran)][3] /\ ran[Len(ran)][2] < Steps
    BY <1>1 DEF OrderInv, Begun
  <2>2. QED
    BY <2>1, LastOfRan DEF AgentTypes
<1>3. PICK ok \in BOOLEAN :
        /\ b2 = Append(b, <<b[n][1], b[n][2] + 1, ok>>)
        /\ main' = IF ok /\ b[n][2] + 1 < Steps THEN "install" ELSE "recv"
  BY <1>2 DEF Install
<1> DEFINE e == <<b[n][1], b[n][2] + 1, ok>>
<1>4. /\ Len(b2) = n + 1 /\ b2[n + 1] = e
      /\ \A i \in 1..n : b2[i] = b[i] /\ i \in 1..Len(b2)
      /\ \A i \in 1..Len(b2) : i \in 1..n \/ i = n + 1
  <2>1. b[n][1] \in Release /\ b[n][2] + 1 \in 0..Steps
    BY <1>2, SeqFacts
  <2>2. e \in Release \X (0..Steps) \X BOOLEAN
    BY <2>1
  <2>3. b \in Seq(Release \X (0..Steps) \X BOOLEAN) /\ n = Len(b)
    BY SeqFacts
  <2>4. b2 = Append(b, e)
    BY <1>3
  <2> HIDE DEF b, b2, n, e
  <2>5. QED
    BY <2>2, <2>3, <2>4, AppendAdds
<1>5. e[1] = b[n][1] /\ e[2] = b[n][2] + 1 /\ e[3] = ok
  OBVIOUS
<1>6. /\ \A i \in 1..n : In(feed, b[i][1], Len(feed))
      /\ \A i \in 1..n :
           i > 1 =>
             IF b[i][2] = 0 THEN Before(feed, b[i - 1][1], b[i][1])
             ELSE b[i - 1][3] /\ b[i][1] = b[i - 1][1] /\ b[i][2] = b[i - 1][2] + 1
  BY DEF OrderInv, Begun
<1>7. /\ \A i \in 1..n, k \in 1..Len(wire) : Before(feed, b[i][1], wire[k])
      /\ stream = "joined" =>
           /\ \A i \in 1..n : In(feed, b[i][1], offered[run])
           /\ \A i \in 1..n, j \in 1..Len(queue[run]) : Before(feed, b[i][1], queue[run][j])
  BY DEF OrderInv, OnTheWire, Queued
<1>8. b[n][2] \in Nat
  BY <1>2, SeqFacts
<1> HIDE DEF e, b, b2, n
<1>9. Begun'
  <2>1. \A i \in 1..Len(b2) : In(feed, b2[i][1], Len(feed))
    BY <1>2, <1>4, <1>5, <1>6
  <2>2. ASSUME NEW i \in 1..Len(b2), i > 1
        PROVE  IF b2[i][2] = 0 THEN Before(feed, b2[i - 1][1], b2[i][1])
               ELSE b2[i - 1][3] /\ b2[i][1] = b2[i - 1][1] /\ b2[i][2] = b2[i - 1][2] + 1
    <3>1. i - 1 \in 1..n /\ b2[i - 1] = b[i - 1]
      BY <2>2, <1>2, <1>4
    <3>2. CASE i \in 1..n
      BY <2>2, <3>1, <3>2, <1>4, <1>6
    <3>3. CASE i = n + 1
      <4>1. b2[i - 1] = b[n] /\ b2[i] = e /\ e[2] # 0
        BY <3>1, <3>3, <1>2, <1>4, <1>5, <1>8
      <4>2. QED
        BY <4>1, <1>2, <1>5
    <3>4. QED
      BY <3>2, <3>3, <1>4
  <2>3. main' = "install" => b2 # <<>> /\ b2[Len(b2)][3] /\ b2[Len(b2)][2] < Steps
    BY <1>2, <1>3, <1>4, <1>5, EmptySeq
  <2>4. QED
    BY <1>1, <2>1, <2>2, <2>3 DEF Begun, b2
<1>10. OnTheWire' /\ Queued'
  <2>1. \A i \in 1..Len(b2), k \in 1..Len(wire) : Before(feed, b2[i][1], wire[k])
    BY <1>2, <1>4, <1>5, <1>7
  <2>2. stream = "joined" =>
          /\ \A i \in 1..Len(b2) : In(feed, b2[i][1], offered[run])
          /\ \A i \in 1..Len(b2), j \in 1..Len(queue[run]) :
               Before(feed, b2[i][1], queue[run][j])
    BY <1>2, <1>4, <1>5, <1>7
  <2>3. OnTheWire'
    BY <1>1, <2>1 DEF OrderInv, OnTheWire, b2
  <2>4. Queued'
    BY <1>1, <2>2 DEF OrderInv, Queued, b2
  <2>5. QED
    BY <2>3, <2>4
<1>11. CaughtInv'
  <2>1. ASSUME NEW x, NEW w, NEW q, HasIt(b, w, q, x) PROVE HasIt(b2, w, q, x)
    <3>1. \A i \in 1..Len(b) : b2[i] = b[i] /\ i \in 1..Len(b2)
      BY <1>4 DEF n, b
    <3>2. QED
      BY <2>1, <3>1, Zenon DEF HasIt
  <2>2. QED
    BY <2>1, <1>1 DEF CaughtInv, b, b2
<1>12. Distinct'
  BY <1>1 DEF OrderInv, Distinct
<1>13. QED
  BY <1>9, <1>10, <1>11, <1>12 DEF OrderInv

-----------------------------------------------------------------------------
(* The invariant holds.                                                    *)
LEMMA AgentInvInit == AgentInit => AgentInv
<1>1. SUFFICES ASSUME AgentInit PROVE AgentInv
  OBVIOUS
<1>2. AgentTypes
  BY <1>1, AgentTypesInit
<1>3. /\ feed = <<>> /\ ran = <<>> /\ wire = <<>> /\ member = {} /\ Len(<<>>) = 0
      /\ stream = "none" /\ main = "loop"
      /\ \A r \in Run : queue[r] = <<>>
  BY <1>1, EmptySeq DEF AgentInit, Feed!Init
<1>4. /\ \A p \in 1..Len(feed) : FALSE
      /\ \A i \in 1..Len(ran) : FALSE
      /\ \A k \in 1..Len(wire) : FALSE
  BY <1>3
<1>5. FreshHasNothing
  BY <1>3 DEF FreshHasNothing
<1>6. Distinct /\ Begun /\ OnTheWire
  BY <1>3, <1>4 DEF Distinct, Begun, OnTheWire
<1>7. Queued /\ CaughtInv
  BY <1>3 DEF Queued, CaughtInv
<1>8. QED
  BY <1>2, <1>5, <1>6, <1>7 DEF AgentInv, OrderInv

LEMMA AgentInvStep == AgentInv /\ [AgentNext]_agentVars => AgentInv'
<1>1. SUFFICES ASSUME AgentInv, [AgentNext]_agentVars PROVE AgentInv'
  OBVIOUS
<1>2. AgentTypes /\ FreshHasNothing /\ OrderInv /\ CaughtInv /\ Begun
  BY <1>1 DEF AgentInv, OrderInv
<1>3. AgentTypes' /\ FreshHasNothing'
  BY <1>1, <1>2, AgentTypesStep, FreshStep
<1>4. CASE \/ Refuse \/ ConnLost \/ ServerEnds \/ ServerStarts \/ Loop \/ Register
           \/ OpenStream \/ RecvFails \/ InstallHangs \/ Wait \/ Interrupt
           \/ \E r \in Run : LeaveDead(r) \/ OpenReporter(r) \/ EndReporter(r)
           \/ UNCHANGED agentVars
  <2>1. Quiet
    BY <1>2, <1>4, QuietSteps
  <2>2. QED
    BY <1>2, <1>3, <2>1, QuietKeepsOrder DEF AgentInv
<1>5. ASSUME NEW m \in Release, Publish(m) PROVE AgentInv'
  BY <1>2, <1>3, <1>5, PublishKeepsOrder DEF AgentInv
<1>6. ASSUME NEW r \in Run, Offer(r) PROVE AgentInv'
  BY <1>2, <1>3, <1>6, OfferKeepsOrder DEF AgentInv
<1>7. ASSUME NEW r \in Run, Forward(r) PROVE AgentInv'
  BY <1>2, <1>3, <1>7, ForwardKeepsOrder DEF AgentInv
<1>8. CASE Join
  BY <1>2, <1>3, <1>8, JoinKeepsOrder DEF AgentInv
<1>9. CASE Receive
  BY <1>2, <1>3, <1>9, ReceiveKeepsOrder DEF AgentInv
<1>10. CASE Install
  BY <1>2, <1>3, <1>10, InstallKeepsOrder DEF AgentInv
<1>11. QED
  BY <1>1, <1>4, <1>5, <1>6, <1>7, <1>8, <1>9, <1>10 DEF AgentNext

LEMMA AlwaysAgentInv == AgentSpec => []AgentInv
BY AgentInvInit, AgentInvStep, PTL DEF AgentSpec

-----------------------------------------------------------------------------
(* What it gives.                                                          *)
LEMMA OrderFromInv == AgentInv => InstallsInOrder
<1>1. SUFFICES ASSUME AgentInv PROVE InstallsInOrder
  OBVIOUS
<1>2. AgentTypes /\ Distinct /\ Begun
  BY <1>1 DEF AgentInv, OrderInv
<1>3. Len(feed) \in Nat /\ Len(ran) \in Nat
  BY <1>2, SeqFacts
<1>4. SUFFICES ASSUME NEW i \in 2..Len(ran)
               PROVE  IF ran[i][2] = 0
                      THEN Position(ran[i - 1][1]) < Position(ran[i][1])
                      ELSE /\ ran[i - 1][3] /\ ran[i][1] = ran[i - 1][1]
                           /\ ran[i][2] = ran[i - 1][2] + 1
  BY DEF InstallsInOrder
<1>5. i \in 1..Len(ran) /\ i - 1 \in 1..Len(ran) /\ i > 1
  BY <1>3
<1>6. CASE ran[i][2] = 0
  <2>1. Before(feed, ran[i - 1][1], ran[i][1])
    BY <1>2, <1>5, <1>6 DEF Begun
  <2>2. PICK p \in 1..Len(feed) : feed[p] = ran[i - 1][1]
    BY <1>2, <1>5 DEF Begun, In
  <2>3. PICK q \in 1..Len(feed) : feed[q] = ran[i][1]
    BY <1>2, <1>5 DEF Begun, In
  <2>4. p < q
    BY <2>1, <2>2, <2>3 DEF Before
  <2>5. Position(feed[p]) = p /\ Position(feed[q]) = q
    BY <1>2, <1>3, PositionIsPlace
  <2>6. QED
    BY <1>6, <2>2, <2>3, <2>4, <2>5
<1>7. CASE ran[i][2] # 0
  BY <1>2, <1>5, <1>7 DEF Begun
<1>8. QED
  BY <1>6, <1>7

LEMMA CaughtFromInv == AgentInv => AgentCaughtUp
<1>1. SUFFICES ASSUME AgentInv, stream = "joined", wire = <<>>, queue[run] = <<>>,
                      offered[run] = Len(feed), Len(feed) - since <= Capacity,
                      NEW i \in since + 1 .. Len(feed), feed[i] \in Wanted
               PROVE  <<feed[i], 0, TRUE>> \in ToSet(ran)
  BY DEF AgentCaughtUp
<1>2. HasIt(ran, wire, queue[run], feed[i])
  BY <1>1 DEF AgentInv, CaughtInv
<1>3. \A k \in 1..Len(<<>>) : FALSE
  BY EmptySeq
<1>4. \E k \in 1..Len(ran) : ran[k] = <<feed[i], 0, TRUE>>
  BY <1>1, <1>2, <1>3 DEF HasIt
<1>5. DOMAIN ran = 1..Len(ran)
  BY <1>1, SeqFacts, LenProperties DEF AgentInv
<1>6. QED
  BY <1>4, <1>5, Zenon DEF ToSet

\* The types hold, and Run reads from no stream but one it opened.
THEOREM AgentTypesHold == AgentSpec => []AgentTypeOK
<1>1. AgentInv => AgentTypeOK
  BY DEF AgentInv, AgentTypes
<1>2. QED
  BY <1>1, AlwaysAgentInv, PTL

\* Whatever fails and however often the agent connects again, it begins
\* releases in the order they were published, none twice, and does the steps
\* of each in order up to the first that fails.
THEOREM OrderHolds == AgentSpec => []InstallsInOrder
BY OrderFromInv, AlwaysAgentInv, PTL

\* An agent at rest on its stream has begun all its host was to get since it
\* subscribed, unless more was published than its queue holds.
THEOREM CaughtUpHolds == AgentSpec => []AgentCaughtUp
BY CaughtFromInv, AlwaysAgentInv, PTL
=============================================================================
