---------------------------- MODULE BrokerProofs ----------------------------
(***************************************************************************)
(* Proofs about the broker on its own: its types, that it delivers in order*)
(* and loses only to a full channel, and that it implements ReleaseFeed.   *)
(***************************************************************************)
EXTENDS Broker, SequenceTheorems, FiniteSetTheorems, TLAPS

(* A queue within its bound stays within it when its head is taken ...     *)
LEMMA TailBound ==
  ASSUME NEW S, NEW q \in Seq(S), q # <<>>, NEW n \in Nat, Len(q) <= n
  PROVE  /\ Head(q) \in S
         /\ Tail(q) \in Seq(S)
         /\ Len(Tail(q)) <= n
<1>1. Len(q) \in Nat /\ Len(Tail(q)) = Len(q) - 1
  BY HeadTailProperties
<1>2. Head(q) \in S /\ Tail(q) \in Seq(S)
  BY HeadTailProperties
<1>3. QED
  BY <1>1, <1>2

(* ... and when an element is added while there is room.                   *)
LEMMA AppendBound ==
  ASSUME NEW S, NEW q \in Seq(S), NEW e \in S, NEW n \in Nat, Len(q) < n
  PROVE  /\ Append(q, e) \in Seq(S)
         /\ Len(Append(q, e)) <= n
<1>1. Len(q) \in Nat /\ Len(Append(q, e)) = Len(q) + 1
  BY AppendProperties
<1>2. Append(q, e) \in Seq(S)
  BY AppendProperties
<1>3. QED
  BY <1>1, <1>2

(* Type correctness needs to know that the loop's worklist is empty        *)
(* wherever a select may remove a subscriber.                              *)
BrokerTypeInv ==
  /\ TypeOK
  /\ loop \in {"new", "select", "done"} => todo = {}

(* A new broker has its types.                                             *)
LEMMA BrokerInitTypeInv == BrokerInit => BrokerTypeInv
BY BrokerAssumption DEF BrokerInit, BrokerTypeInv, TypeOK, BrokerAssumption

(* Every step of the loop preserves the type invariant.                    *)
LEMMA LoopTypeInv == BrokerTypeInv /\ Loop => BrokerTypeInv'
<1> USE BrokerAssumption DEF BrokerAssumption, BrokerTypeInv, TypeOK,
        startVars, requests, clients
<1> SUFFICES ASSUME BrokerTypeInv, Loop
             PROVE  BrokerTypeInv'
  OBVIOUS
<1>1. CASE StartLoop
  BY <1>1 DEF StartLoop
<1>2. CASE SelectSub
  <2>1. Len(log) \in Nat /\ Head(subC) \in Channel /\ Tail(subC) \in Seq(Channel)
        /\ Len(Tail(subC)) <= ReqCap
    BY <1>2, TailBound DEF SelectSub
  <2>2. since' \in [Channel -> Nat] /\ subC' \in Seq(Channel) /\ Len(subC') <= ReqCap
    BY <1>2, <2>1 DEF SelectSub
  <2>3. subs' \in SUBSET (Channel \cup {Nil}) /\ todo' \in SUBSET subs'
    BY <1>2, <2>1 DEF SelectSub
  <2>4. count' \in Int
    BY <1>2 DEF SelectSub
  <2>5. QED
    BY <1>2, <2>2, <2>3, <2>4 DEF SelectSub
<1>3. CASE SelectSubClosed
  BY <1>3 DEF SelectSubClosed
<1>4. CASE SelectUnsub
  <2>1. Head(unsubC) \in Channel /\ Tail(unsubC) \in Seq(Channel)
        /\ Len(Tail(unsubC)) <= ReqCap
    BY <1>4, TailBound DEF SelectUnsub
  <2>2. closed' \in SUBSET Channel /\ count' \in Int
        /\ fault' \in {"none", "closeOfNil", "closeOfClosed", "sendOnClosed", "exit"}
    BY <1>4, <2>1 DEF SelectUnsub, Forget
  <2>3. subs' \in SUBSET (Channel \cup {Nil}) /\ todo' \in SUBSET subs'
    BY <1>4 DEF SelectUnsub, Forget
  <2>4. unsubC' \in Seq(Channel) /\ Len(unsubC') <= ReqCap
    BY <1>4, <2>1 DEF SelectUnsub
  <2>5. QED
    BY <1>4, <2>2, <2>3, <2>4 DEF SelectUnsub
<1>5. CASE SelectUnsubClosed
  BY <1>5 DEF SelectUnsubClosed
<1>6. CASE SelectBroadcast
  BY <1>6 DEF SelectBroadcast, TakeBroadcast, BeginFanout
<1>7. CASE SelectBroadcastClosed
  BY <1>7 DEF SelectBroadcastClosed, BeginFanout
<1>8. CASE SelectStop
  BY <1>8 DEF SelectStop
<1>9. ASSUME NEW c \in Channel \cup {Nil}, Fanout(c)
      PROVE  BrokerTypeInv'
  <2>1. buf' \in [Channel -> Seq(Message \cup {Nil})]
        /\ \A d \in Channel : Len(buf'[d]) <= SubCap
    <3>1. CASE buf' = buf
      BY <3>1
    <3>2. CASE ReadyToTake(c) /\ buf' = [buf EXCEPT ![c] = Append(@, msg)]
      <4>1. c \in Channel /\ buf[c] \in Seq(Message \cup {Nil})
            /\ Len(buf[c]) < SubCap /\ Len(buf[c]) \in Nat
        BY <3>2, <1>9 DEF ReadyToTake
      <4>2. Append(buf[c], msg) \in Seq(Message \cup {Nil})
            /\ Len(Append(buf[c], msg)) = Len(buf[c]) + 1
        BY <4>1, AppendProperties
      <4>3. QED
        BY <3>2, <4>1, <4>2
    <3>3. QED
      BY <1>9, <3>1, <3>2 DEF Fanout
  <2>2. QED
    BY <1>9, <2>1 DEF Fanout
<1>10. ASSUME NEW c \in Channel \cup {Nil}, CloseSub(c)
       PROVE  BrokerTypeInv'
  BY <1>10 DEF CloseSub
<1>11. QED
  BY <1>1, <1>2, <1>3, <1>4, <1>5, <1>6, <1>7, <1>8, <1>9, <1>10 DEF Loop

(* So does every step of the methods.                                      *)
LEMMA MethodsTypeInv == BrokerTypeInv /\ Methods => BrokerTypeInv'
<1> USE BrokerAssumption DEF BrokerAssumption, BrokerTypeInv, TypeOK,
        startVars, requests, clients
<1> SUFFICES ASSUME BrokerTypeInv, Methods
             PROVE  BrokerTypeInv'
  OBVIOUS
<1>1. CASE StopFlag
  BY <1>1 DEF StopFlag
<1>2. CASE StopClose
  BY <1>2 DEF StopClose
<1>3. ASSUME NEW c \in Channel, SubscribeCheck(c)
      PROVE  BrokerTypeInv'
  BY <1>3 DEF SubscribeCheck
<1>4. ASSUME NEW c \in Channel, SubscribeSend(c)
      PROVE  BrokerTypeInv'
  <2>1. subC' \in Seq(Channel) /\ Len(subC') <= ReqCap
    <3>1. CASE subC' = subC
      BY <3>1
    <3>2. CASE Len(subC) < ReqCap /\ subC' = Append(subC, c)
      BY <3>2, AppendBound
    <3>3. QED
      BY <1>4, <3>1, <3>2 DEF SubscribeSend
  <2>2. caller' \in [Channel -> {"idle", "subscribing", "open", "unsubscribing",
                                "left", "refused"}]
    BY <1>4 DEF SubscribeSend
  <2>3. QED
    BY <1>4, <2>1, <2>2 DEF SubscribeSend
<1>5. ASSUME NEW c \in Channel, UnsubscribeCheck(c)
      PROVE  BrokerTypeInv'
  BY <1>5 DEF UnsubscribeCheck
<1>6. ASSUME NEW c \in Channel, UnsubscribeSend(c)
      PROVE  BrokerTypeInv'
  <2>1. unsubC' \in Seq(Channel) /\ Len(unsubC') <= ReqCap
    <3>1. CASE unsubC' = unsubC
      BY <3>1
    <3>2. CASE Len(unsubC) < ReqCap /\ unsubC' = Append(unsubC, c)
      BY <3>2, AppendBound
    <3>3. QED
      BY <1>6, <3>1, <3>2 DEF UnsubscribeSend
  <2>2. caller' \in [Channel -> {"idle", "subscribing", "open", "unsubscribing",
                                "left", "refused"}]
    BY <1>6 DEF UnsubscribeSend
  <2>3. QED
    BY <1>6, <2>1, <2>2 DEF UnsubscribeSend
<1>7. ASSUME NEW c \in Channel, NEW v \in Message \cup {Nil}, Receive(c, v)
      PROVE  BrokerTypeInv'
  <2>1. buf' \in [Channel -> Seq(Message \cup {Nil})]
        /\ \A d \in Channel : Len(buf'[d]) <= SubCap
    <3>1. CASE buf' = buf
      BY <3>1
    <3>2. CASE buf[c] # <<>> /\ buf' = [buf EXCEPT ![c] = Tail(@)]
      <4>1. Tail(buf[c]) \in Seq(Message \cup {Nil})
            /\ Len(Tail(buf[c])) <= SubCap
        BY <3>2, HeadTailProperties
      <4>2. QED
        BY <3>2, <4>1
    <3>3. QED
      BY <1>7, <3>1, <3>2 DEF Receive
  <2>2. got' \in [Channel -> Seq(Message)]
    <3>1. CASE v = Nil
      BY <1>7, <3>1 DEF Receive
    <3>2. CASE v # Nil
      BY <1>7, <3>2, AppendProperties DEF Receive
    <3>3. QED
      BY <3>1, <3>2
  <2>3. QED
    BY <1>7, <2>1, <2>2 DEF Receive
<1>8. ASSUME NEW m \in Message, BroadcastCheck(m)
      PROVE  BrokerTypeInv'
  BY <1>8 DEF BroadcastCheck
<1>9. ASSUME NEW m \in Message, BroadcastSend(m)
      PROVE  BrokerTypeInv'
  <2>1. broadcastC' \in Seq(Message) /\ Len(broadcastC') <= ReqCap
    <3>1. CASE broadcastC' = broadcastC
      BY <3>1
    <3>2. CASE Len(broadcastC) < ReqCap /\ broadcastC' = Append(broadcastC, m)
      BY <3>2, AppendBound
    <3>3. QED
      BY <1>9, <3>1, <3>2 DEF BroadcastSend
  <2>2. pub' \in [Message -> {"idle", "sending", "sent", "refused", "panicked"}]
    BY <1>9 DEF BroadcastSend
  <2>3. QED
    BY <1>9, <2>1, <2>2 DEF BroadcastSend
<1>10. QED
  BY <1>1, <1>2, <1>3, <1>4, <1>5, <1>6, <1>7, <1>8, <1>9 DEF Methods

(* The broker's state has its type in every behaviour, whatever its        *)
(* callers do: in particular no channel ever holds more than its capacity. *)
THEOREM BrokerTypeCorrect == BrokerSpec => []TypeOK
<1>1. BrokerTypeInv /\ [BrokerNext]_brokerVars => BrokerTypeInv'
  <2>1. BrokerTypeInv /\ UNCHANGED brokerVars => BrokerTypeInv'
    BY DEF BrokerTypeInv, TypeOK, brokerVars, startVars, requests, clients
  <2>2. QED
    BY <2>1, LoopTypeInv, MethodsTypeInv DEF BrokerNext
<1>2. BrokerTypeInv => TypeOK
  BY DEF BrokerTypeInv
<1>3. QED
  BY BrokerInitTypeInv, <1>1, <1>2, PTL DEF BrokerSpec

-----------------------------------------------------------------------------
(* What a channel holds, without the nils at its end.                      *)
Entry == Message \cup {Nil}

LEMMA NilIsNoMessage == Nil \notin Message /\ Nil \notin Channel
BY BrokerAssumption DEF BrokerAssumption

\* A queue splits in one place only, ...
LEMMA RealOf ==
  ASSUME NEW s \in Seq(Entry), NEW n \in 0..Len(s), NilsFrom(s, n)
  PROVE  /\ Real(s) = SubSeq(s, 1, n)
         /\ Real(s) \in Seq(Message)
         /\ Len(Real(s)) = n
         /\ \A i \in 1..n : Real(s)[i] = s[i]
<1> DEFINE k == CHOOSE m \in 0..Len(s) : NilsFrom(s, m)
<1>1. k \in 0..Len(s) /\ NilsFrom(s, k)
  OBVIOUS
<1> HIDE DEF k
<1>2. Len(s) \in Nat /\ k \in Nat /\ n \in Nat /\ k <= Len(s) /\ n <= Len(s)
  BY <1>1, LenProperties
<1>3. k = n
  <2>1. ~(k < n)
    <3>1. SUFFICES ASSUME k < n PROVE FALSE
      OBVIOUS
    <3>2. n \in 1..Len(s)
      BY <3>1, <1>2
    <3>3. QED
      BY <3>1, <3>2, <1>1, <1>2 DEF NilsFrom
  <2>2. ~(n < k)
    <3>1. SUFFICES ASSUME n < k PROVE FALSE
      OBVIOUS
    <3>2. k \in 1..Len(s)
      BY <3>1, <1>2
    <3>3. QED
      BY <3>1, <3>2, <1>1, <1>2 DEF NilsFrom
  <2>3. QED
    BY <2>1, <2>2, <1>2
<1>4. Real(s) = SubSeq(s, 1, n)
  BY <1>3 DEF Real, k
<1>5. \A i \in 1..n : s[i] \in Message
  <2>1. SUFFICES ASSUME NEW i \in 1..n PROVE s[i] \in Message
    OBVIOUS
  <2>2. i \in 1..Len(s) /\ ~(i > n)
    BY <1>2
  <2>3. s[i] \in Entry /\ s[i] # Nil
    BY <2>2, ElementOfSeq DEF NilsFrom
  <2>4. QED
    BY <2>3 DEF Entry
<1>6. /\ SubSeq(s, 1, n) \in Seq(Message)
      /\ Len(SubSeq(s, 1, n)) = IF 1 <= n THEN n - 1 + 1 ELSE 0
      /\ \A i \in 1..(n - 1 + 1) : SubSeq(s, 1, n)[i] = s[1 + i - 1]
  BY <1>2, <1>5, SubSeqProperties
<1>7. n - 1 + 1 = n /\ \A i \in 1..n : 1 + i - 1 = i
  BY <1>2
<1>8. QED
  BY <1>2, <1>4, <1>6, <1>7

\* ... an empty one is all real, ...
LEMMA RealEmpty == NilsFrom(<<>>, 0) /\ Real(<<>>) = <<>>
<1>1. <<>> \in Seq(Entry) /\ Len(<<>>) = 0
  BY EmptySeq
<1>2. NilsFrom(<<>>, 0) /\ 0 \in 0..Len(<<>>)
  BY <1>1 DEF NilsFrom
<1>3. Real(<<>>) = SubSeq(<<>>, 1, 0)
  BY <1>1, <1>2, RealOf
<1>4. QED
  BY <1>2, <1>3, SubSeqEmpty

\* ... a message adds to one that holds no nil, ...
LEMMA RealAppend ==
  ASSUME NEW s \in Seq(Entry), NilsFrom(s, Len(s)), NEW m \in Message
  PROVE  /\ NilsFrom(Append(s, m), Len(Append(s, m)))
         /\ Real(s) = s
         /\ Real(Append(s, m)) = Append(s, m)
<1>1. Len(s) \in Nat /\ m \in Entry /\ m # Nil
  BY LenProperties, NilIsNoMessage DEF Entry
<1>2. /\ Append(s, m) \in Seq(Entry) /\ Len(Append(s, m)) = Len(s) + 1
      /\ \A i \in 1..Len(s) : Append(s, m)[i] = s[i]
      /\ Append(s, m)[Len(s) + 1] = m
  BY <1>1, AppendProperties
<1>3. ASSUME NEW i \in 1..Len(Append(s, m))
      PROVE  Append(s, m)[i] # Nil
  <2>1. CASE i \in 1..Len(s)
    BY <2>1, <1>1, <1>2 DEF NilsFrom
  <2>2. CASE i = Len(s) + 1
    BY <2>2, <1>1, <1>2
  <2>3. QED
    BY <2>1, <2>2, <1>1, <1>2
<1>4. NilsFrom(Append(s, m), Len(Append(s, m)))
  BY <1>1, <1>2, <1>3 DEF NilsFrom
<1>5. Real(s) = SubSeq(s, 1, Len(s))
  BY <1>1, RealOf
<1>6. Real(Append(s, m)) = SubSeq(Append(s, m), 1, Len(Append(s, m)))
  <2>1. Len(Append(s, m)) \in 0..Len(Append(s, m))
    BY <1>1, <1>2
  <2>2. QED
    BY <1>2, <1>4, <2>1, RealOf
<1>7. QED
  BY <1>2, <1>4, <1>5, <1>6, SubSeqFull

\* ... a nil adds nothing, ...
LEMMA RealNil ==
  ASSUME NEW s \in Seq(Entry), NEW n \in 0..Len(s), NilsFrom(s, n)
  PROVE  /\ n \in 0..Len(Append(s, Nil)) /\ NilsFrom(Append(s, Nil), n)
         /\ Real(Append(s, Nil)) = Real(s)
<1>1. Len(s) \in Nat /\ Nil \in Entry /\ n \in Nat /\ n <= Len(s)
  BY LenProperties DEF Entry
<1> DEFINE t == Append(s, Nil)
<1>2. /\ t \in Seq(Entry) /\ Len(t) = Len(s) + 1
      /\ \A i \in 1..Len(s) : t[i] = s[i]
      /\ t[Len(s) + 1] = Nil
  BY <1>1, AppendProperties
<1> HIDE DEF t
<1>3. n \in 0..Len(t)
  BY <1>1, <1>2
<1>4. NilsFrom(t, n)
  <2>1. SUFFICES ASSUME NEW i \in 1..Len(t) PROVE t[i] = Nil <=> i > n
    BY DEF NilsFrom
  <2>2. CASE i \in 1..Len(s)
    BY <2>2, <1>2 DEF NilsFrom
  <2>3. CASE i = Len(s) + 1
    BY <2>3, <1>1, <1>2
  <2>4. QED
    BY <2>2, <2>3, <1>1, <1>2
<1>5. /\ Real(s) \in Seq(Message) /\ Len(Real(s)) = n
      /\ \A i \in 1..n : Real(s)[i] = s[i]
  BY RealOf
<1>6. /\ Real(t) \in Seq(Message) /\ Len(Real(t)) = n
      /\ \A i \in 1..n : Real(t)[i] = t[i]
  BY <1>2, <1>3, <1>4, RealOf
<1>7. \A i \in 1..n : t[i] = s[i]
  BY <1>1, <1>2
<1>8. Real(t) = Real(s)
  BY <1>5, <1>6, <1>7, SeqEqual
<1>9. QED
  BY <1>3, <1>4, <1>8 DEF t

\* ... and taking the head takes the head of what is real, if there is any.
LEMMA RealTail ==
  ASSUME NEW s \in Seq(Entry), s # <<>>, NEW n \in 0..Len(s), NilsFrom(s, n)
  PROVE  /\ \E k \in 0..Len(Tail(s)) : NilsFrom(Tail(s), k)
         /\ Head(s) # Nil => /\ Real(s) # <<>>
                             /\ Head(s) = Head(Real(s))
                             /\ Real(Tail(s)) = Tail(Real(s))
         /\ Head(s) = Nil => Real(s) = <<>> /\ Real(Tail(s)) = <<>>
<1> DEFINE t == Tail(s)
<1>1. /\ Head(s) = s[1] /\ t \in Seq(Entry) /\ Len(t) = Len(s) - 1
      /\ \A i \in 1..Len(t) : t[i] = s[i + 1]
  BY HeadTailProperties
<1>2. Len(s) \in Nat /\ Len(t) \in Nat /\ n \in Nat /\ n <= Len(s) /\ Len(s) >= 1
  BY <1>1, LenProperties
<1> HIDE DEF t
<1>3. /\ Real(s) \in Seq(Message) /\ Len(Real(s)) = n
      /\ \A i \in 1..n : Real(s)[i] = s[i]
  BY RealOf
<1>4. CASE s[1] = Nil
  <2>1. n = 0
    BY <1>2, <1>4 DEF NilsFrom
  <2>2. NilsFrom(t, 0)
    <3>1. SUFFICES ASSUME NEW i \in 1..Len(t) PROVE t[i] = Nil
      BY <1>2 DEF NilsFrom
    <3>2. i + 1 \in 1..Len(s) /\ i + 1 > n
      BY <1>1, <1>2, <2>1
    <3>3. QED
      BY <1>1, <3>2 DEF NilsFrom
  <2>3. 0 \in 0..Len(t)
    BY <1>2
  <2>4. Real(t) \in Seq(Message) /\ Len(Real(t)) = 0
    BY <1>1, <2>2, <2>3, RealOf
  <2>5. Real(t) = <<>> /\ Real(s) = <<>>
    BY <1>3, <2>1, <2>4, EmptySeq
  <2>6. QED
    BY <1>1, <1>4, <2>2, <2>3, <2>5 DEF t
<1>5. CASE s[1] # Nil
  <2>1. n >= 1
    BY <1>2, <1>5 DEF NilsFrom
  <2>2. n - 1 \in 0..Len(t) /\ n - 1 \in Nat
    BY <1>1, <1>2, <2>1
  <2>3. NilsFrom(t, n - 1)
    <3>1. SUFFICES ASSUME NEW i \in 1..Len(t) PROVE t[i] = Nil <=> i > n - 1
      BY DEF NilsFrom
    <3>2. i + 1 \in 1..Len(s) /\ (i + 1 > n <=> i > n - 1)
      BY <1>1, <1>2, <2>1
    <3>3. QED
      BY <1>1, <3>2 DEF NilsFrom
  <2>4. /\ Real(t) \in Seq(Message) /\ Len(Real(t)) = n - 1
        /\ \A i \in 1..(n - 1) : Real(t)[i] = t[i]
    BY <1>1, <2>2, <2>3, RealOf
  <2>5. Real(s) # <<>>
    BY <1>3, <2>1, EmptySeq
  <2>6. /\ Tail(Real(s)) \in Seq(Message) /\ Len(Tail(Real(s))) = n - 1
        /\ \A i \in 1..(n - 1) : Tail(Real(s))[i] = Real(s)[i + 1]
        /\ Head(Real(s)) = Real(s)[1]
    BY <1>3, <2>5, HeadTailProperties
  <2>7. \A i \in 1..(n - 1) : Real(t)[i] = Tail(Real(s))[i]
    <3>1. SUFFICES ASSUME NEW i \in 1..(n - 1) PROVE Real(t)[i] = Tail(Real(s))[i]
      OBVIOUS
    <3>2. i + 1 \in 1..n /\ i \in 1..Len(t)
      BY <1>1, <1>2, <2>1
    <3>3. QED
      BY <1>1, <1>3, <2>4, <2>6, <3>2
  <2>8. Real(t) = Tail(Real(s))
    BY <2>4, <2>6, <2>7, SeqEqual
  <2>9. Head(Real(s)) = s[1]
    BY <1>2, <1>3, <2>1, <2>6
  <2>10. QED
    BY <1>1, <1>5, <2>2, <2>3, <2>5, <2>8, <2>9 DEF t
<1>6. QED
  BY <1>4, <1>5

-----------------------------------------------------------------------------
(* Order: g lists, in the order of l, entries of l from lo + 1 to hi.      *)
Ordered(g, l, lo, hi) ==
  /\ \A i \in 1..Len(g) : \E p \in lo + 1 .. hi : l[p] = g[i]
  /\ \A i, j \in 1..Len(g), p, q \in 1..Len(l) :
       i < j /\ g[i] = l[p] /\ g[j] = l[q] => p < q

Distinct(s) == \A i, j \in 1..Len(s) : s[i] = s[j] => i = j

LEMMA OrderedEmpty == ASSUME NEW l, NEW lo, NEW hi PROVE Ordered(<<>>, l, lo, hi)
<1>1. Len(<<>>) = 0 /\ 1..0 = {}
  BY EmptySeq
<1>2. QED
  BY <1>1 DEF Ordered

LEMMA OrderedWiden ==
  ASSUME NEW g, NEW l, NEW lo \in Nat, NEW hi \in Nat, NEW new \in Nat, hi <= new,
         Ordered(g, l, lo, hi)
  PROVE  Ordered(g, l, lo, new)
<1>1. lo + 1 .. hi \subseteq lo + 1 .. new
  OBVIOUS
<1>2. QED
  BY <1>1 DEF Ordered

LEMMA OrderedLog ==
  ASSUME NEW g \in Seq(Message), NEW l \in Seq(Message), NEW lo \in Nat,
         NEW hi \in 0..Len(l), Ordered(g, l, lo, hi),
         NEW m \in Message, \A p \in 1..Len(l) : l[p] # m
  PROVE  Ordered(g, Append(l, m), lo, hi)
<1> DEFINE k == Append(l, m)
<1>1. /\ Len(l) \in Nat /\ Len(k) = Len(l) + 1
      /\ \A p \in 1..Len(l) : k[p] = l[p]
      /\ k[Len(l) + 1] = m
  BY AppendProperties, LenProperties
<1> HIDE DEF k
<1>2. lo + 1 .. hi \subseteq 1..Len(l)
  BY <1>1
<1>3. \A i \in 1..Len(g) : \E p \in lo + 1 .. hi : k[p] = g[i]
  BY <1>1, <1>2 DEF Ordered
<1>4. \A i \in 1..Len(g) : g[i] # m
  BY <1>2 DEF Ordered
<1>5. ASSUME NEW i \in 1..Len(g), NEW p \in 1..Len(k), g[i] = k[p]
      PROVE  p \in 1..Len(l) /\ l[p] = g[i]
  <2>1. p # Len(l) + 1
    BY <1>1, <1>4, <1>5
  <2>2. p \in 1..Len(l)
    BY <2>1, <1>1
  <2>3. QED
    BY <2>2, <1>1, <1>5
<1>6. \A i, j \in 1..Len(g), p, q \in 1..Len(k) :
        i < j /\ g[i] = k[p] /\ g[j] = k[q] => p < q
  BY <1>5 DEF Ordered
<1>7. QED
  BY <1>3, <1>6 DEF Ordered, k

LEMMA OrderedAppend ==
  ASSUME NEW g \in Seq(Message), NEW l \in Seq(Message), Distinct(l),
         NEW lo \in Nat, lo < Len(l), Ordered(g, l, lo, Len(l) - 1)
  PROVE  Ordered(Append(g, l[Len(l)]), l, lo, Len(l))
<1> DEFINE n == Len(l)
           h == Append(g, l[n])
<1>1. n \in Nat /\ n \in 1..n /\ l[n] \in Message /\ Len(g) \in Nat /\ n - 1 \in Nat
  <2>1. n \in Nat /\ Len(g) \in Nat
    BY LenProperties
  <2>2. n >= 1
    BY <2>1
  <2>3. QED
    BY <2>1, <2>2, ElementOfSeq
<1>2. /\ Len(h) = Len(g) + 1
      /\ \A i \in 1..Len(g) : h[i] = g[i]
      /\ h[Len(g) + 1] = l[n]
  BY <1>1, AppendProperties
<1> HIDE DEF h, n
<1>3. Ordered(g, l, lo, n - 1) /\ lo < n /\ Len(l) = n
  BY DEF n
<1>4. ASSUME NEW i \in 1..Len(g), NEW p \in 1..n, g[i] = l[p]
      PROVE  p < n
  <2>1. PICK q \in lo + 1 .. n - 1 : l[q] = g[i]
    BY <1>3 DEF Ordered
  <2>2. q \in 1..Len(l) /\ p \in 1..Len(l)
    BY <1>1, <1>3
  <2>3. q = p
    BY <1>4, <2>1, <2>2 DEF Distinct
  <2>4. QED
    BY <2>3, <1>1
<1>5. \A i \in 1..Len(h) : \E p \in lo + 1 .. n : l[p] = h[i]
  <2>1. SUFFICES ASSUME NEW i \in 1..Len(h) PROVE \E p \in lo + 1 .. n : l[p] = h[i]
    OBVIOUS
  <2>2. CASE i \in 1..Len(g)
    <3>1. PICK q \in lo + 1 .. n - 1 : l[q] = g[i]
      BY <2>2, <1>3 DEF Ordered
    <3>2. q \in lo + 1 .. n
      BY <1>1
    <3>3. QED
      BY <3>1, <3>2, <2>2, <1>2
  <2>3. CASE i = Len(g) + 1
    <3>1. n \in lo + 1 .. n
      BY <1>1, <1>3
    <3>2. QED
      BY <3>1, <2>3, <1>2
  <2>4. QED
    BY <2>2, <2>3, <1>1, <1>2
<1>6. ASSUME NEW i \in 1..Len(h), NEW j \in 1..Len(h), NEW p \in 1..n, NEW q \in 1..n,
             i < j, h[i] = l[p], h[j] = l[q]
      PROVE  p < q
  <2>1. i \in 1..Len(g) /\ h[i] = g[i]
    BY <1>1, <1>2, <1>6
  <2>2. CASE j \in 1..Len(g)
    BY <2>1, <2>2, <1>2, <1>3, <1>6 DEF Ordered
  <2>3. CASE j = Len(g) + 1
    <3>1. l[q] = l[n] /\ q \in 1..Len(l) /\ n \in 1..Len(l)
      BY <2>3, <1>1, <1>2, <1>3, <1>6
    <3>2. q = n
      BY <3>1 DEF Distinct
    <3>3. QED
      BY <3>2, <2>1, <1>4, <1>6
  <2>4. QED
    BY <2>2, <2>3, <1>1, <1>2
<1>7. QED
  BY <1>3, <1>5, <1>6 DEF Ordered, h, n

-----------------------------------------------------------------------------
(* Loss: what is missing in given comes after SubCap entries that are not. *)
Behind(given, l, lo, k) == {j \in lo + 1 .. k - 1 : l[j] \in given}

Backlog(given, l, lo, hi) ==
  \A k \in lo + 1 .. hi :
    l[k] \in given \/ Cardinality(Behind(given, l, lo, k)) >= SubCap

LEMMA BehindFinite ==
  ASSUME NEW given, NEW l, NEW lo \in Nat, NEW k \in Nat
  PROVE  IsFiniteSet(Behind(given, l, lo, k)) /\ Cardinality(Behind(given, l, lo, k)) \in Nat
<1>1. IsFiniteSet(lo + 1 .. k - 1)
  BY FS_Interval
<1>2. Behind(given, l, lo, k) \subseteq lo + 1 .. k - 1
  BY DEF Behind
<1>3. QED
  BY <1>1, <1>2, FS_Subset, FS_CardinalityType

LEMMA BacklogMore ==
  ASSUME NEW given, NEW more, given \subseteq more, NEW l, NEW lo \in Nat,
         NEW hi \in Nat, Backlog(given, l, lo, hi)
  PROVE  Backlog(more, l, lo, hi)
<1>1. SUFFICES ASSUME NEW k \in lo + 1 .. hi, l[k] \notin given
               PROVE  Cardinality(Behind(more, l, lo, k)) >= SubCap
  BY DEF Backlog
<1>2. k \in Nat /\ SubCap \in Nat
  BY BrokerAssumption DEF BrokerAssumption
<1>3. Cardinality(Behind(given, l, lo, k)) >= SubCap
  BY <1>1 DEF Backlog
<1>4. Behind(given, l, lo, k) \subseteq Behind(more, l, lo, k)
  BY DEF Behind
<1>5. Cardinality(Behind(given, l, lo, k)) <= Cardinality(Behind(more, l, lo, k))
  BY <1>2, <1>4, BehindFinite, FS_Subset
<1>6. /\ Cardinality(Behind(given, l, lo, k)) \in Nat
      /\ Cardinality(Behind(more, l, lo, k)) \in Nat
  BY <1>2, BehindFinite
<1>7. QED
  BY <1>2, <1>3, <1>5, <1>6

LEMMA BacklogSame ==
  ASSUME NEW given, NEW l, NEW new, NEW lo \in Nat, NEW hi \in Nat,
         \A p \in 1..hi : new[p] = l[p], Backlog(given, l, lo, hi)
  PROVE  Backlog(given, new, lo, hi)
<1>1. SUFFICES ASSUME NEW k \in lo + 1 .. hi
               PROVE  new[k] \in given \/ Cardinality(Behind(given, new, lo, k)) >= SubCap
  BY DEF Backlog
<1>2. \A j \in lo + 1 .. k - 1 : j \in 1..hi
  OBVIOUS
<1>3. Behind(given, new, lo, k) = Behind(given, l, lo, k)
  BY <1>2 DEF Behind
<1>4. new[k] = l[k]
  OBVIOUS
<1>5. QED
  BY <1>3, <1>4 DEF Backlog

LEMMA BacklogStep ==
  ASSUME NEW given, NEW l, NEW lo \in Nat, NEW hi \in Nat \ {0},
         Backlog(given, l, lo, hi - 1),
         l[hi] \in given \/ Cardinality(Behind(given, l, lo, hi)) >= SubCap
  PROVE  Backlog(given, l, lo, hi)
<1>1. \A k \in lo + 1 .. hi : k = hi \/ k \in lo + 1 .. hi - 1
  OBVIOUS
<1>2. QED
  BY <1>1 DEF Backlog

\* A full queue of distinct entries from before hi is a backlog.
LEMMA FullIsBacklog ==
  ASSUME NEW q \in Seq(Message), Len(q) = SubCap, Distinct(q), NEW given,
         \A i \in 1..Len(q) : q[i] \in given,
         NEW l, NEW lo \in Nat, NEW hi \in Nat,
         \A i \in 1..Len(q) : \E p \in lo + 1 .. hi - 1 : l[p] = q[i]
  PROVE  Cardinality(Behind(given, l, lo, hi)) >= SubCap
<1> DEFINE n == Len(q)
           at == [i \in 1..n |-> CHOOSE p \in lo + 1 .. hi - 1 : l[p] = q[i]]
<1>1. n \in Nat /\ n = SubCap
  BY LenProperties
<1>2. \A i \in 1..n : at[i] \in lo + 1 .. hi - 1 /\ l[at[i]] = q[i]
  OBVIOUS
<1>3. at \in [1..n -> Behind(given, l, lo, hi)]
  BY <1>2 DEF Behind
<1>4. \A i, j \in 1..n : at[i] = at[j] => i = j
  <2>1. SUFFICES ASSUME NEW i \in 1..n, NEW j \in 1..n, at[i] = at[j] PROVE i = j
    OBVIOUS
  <2>2. q[i] = q[j]
    BY <1>2, <2>1
  <2>3. QED
    BY <2>2 DEF Distinct
<1> HIDE DEF at
<1>5. at \in Injection(1..n, Behind(given, l, lo, hi))
  BY <1>3, <1>4 DEF Injection, IsInjective
<1>6. IsFiniteSet(1..n) /\ Cardinality(1..n) = n
  BY <1>1, FS_Interval
<1>7. Cardinality(1..n) <= Cardinality(Behind(given, l, lo, hi))
  BY <1>5, <1>6, BehindFinite, FS_Injection
<1>8. QED
  BY <1>1, <1>6, <1>7

-----------------------------------------------------------------------------
(* The inductive invariant.  A message is handed to Broadcast once: it is  *)
(* in broadcastC or in the log, in one place.                              *)
SentOnce ==
  /\ Distinct(log)
  /\ Distinct(broadcastC)
  /\ \A p \in 1..Len(log) : pub[log[p]] = "sent"
  /\ \A i \in 1..Len(broadcastC) : pub[broadcastC[i]] = "sent"
  /\ \A p \in 1..Len(log), i \in 1..Len(broadcastC) : log[p] # broadcastC[i]

(* A channel is registered once: until the loop takes it from subC it is   *)
(* not in the map and was given nothing.                                   *)
Unregistered(c) == c \notin subs /\ got[c] = <<>> /\ buf[c] = <<>>

RegisteredOnce ==
  /\ \A c \in Channel :
       caller[c] \in {"idle", "subscribing", "refused"} =>
         Unregistered(c) /\ \A i \in 1..Len(subC) : subC[i] # c
  /\ \A i \in 1..Len(subC) : Unregistered(subC[i])
  /\ Distinct(subC)

(* Nils come from a closed and empty broadcastC, hence after the messages. *)
NilsLast ==
  /\ \A c \in Channel : \E n \in 0..Len(buf[c]) : NilsFrom(buf[c], n)
  /\ \/ \A c \in Channel : NilsFrom(buf[c], Len(buf[c]))
     \/ BroadcastCClosed /\ broadcastC = <<>> /\ (loop = "fanout" => msg = Nil)
  /\ loop = "fanout" /\ msg = Nil => BroadcastCClosed /\ broadcastC = <<>>

(* What is fanned out is the end of the log, to subscribers from before.   *)
FanoutIsLast ==
  loop = "fanout" /\ msg # Nil =>
    /\ Len(log) > 0
    /\ msg = log[Len(log)]
    /\ \A c \in todo \ {Nil} : since[c] < Len(log)

Delivery(c) ==
  /\ since[c] <= Len(log)
  /\ Ordered(Given(c), log, since[c], Visited(c))
  /\ c \in subs => Backlog(ToSet(Given(c)), log, since[c], Visited(c))

FeedInv ==
  /\ BrokerTypeInv
  /\ loop = "new" => subs = {}
  /\ SentOnce
  /\ RegisteredOnce
  /\ NilsLast
  /\ FanoutIsLast
  /\ \A c \in Channel : Delivery(c)

\* The types the steps below need, and what a channel was given.
LEMMA FeedTypes ==
  ASSUME FeedInv
  PROVE  /\ loop \in {"new", "select", "fanout", "closing", "done"}
         /\ loop \in {"new", "select", "done"} => todo = {}
         /\ subs \subseteq Entry \cup Channel /\ todo \subseteq subs
         /\ msg \in Message \cup {Nil} /\ stopStep \in 0..5
         /\ log \in Seq(Message) /\ Len(log) \in Nat
         /\ subC \in Seq(Channel) /\ Len(subC) \in Nat
         /\ broadcastC \in Seq(Message) /\ Len(broadcastC) \in Nat
         /\ buf \in [Channel -> Seq(Entry)]
         /\ got \in [Channel -> Seq(Message)]
         /\ since \in [Channel -> Nat]
         /\ caller \in [Channel -> {"idle", "subscribing", "open", "unsubscribing",
                                    "left", "refused"}]
         /\ pub \in [Message -> {"idle", "sending", "sent", "refused", "panicked"}]
         /\ \A c \in Channel : Len(buf[c]) \in Nat /\ Len(buf[c]) <= SubCap
<1>1. TypeOK
  BY DEF FeedInv, BrokerTypeInv
<1>2. log \in Seq(Message) /\ subC \in Seq(Channel) /\ broadcastC \in Seq(Message)
  BY <1>1 DEF TypeOK
<1>3. Len(log) \in Nat /\ Len(subC) \in Nat /\ Len(broadcastC) \in Nat
  BY <1>2, LenProperties
<1>4. buf \in [Channel -> Seq(Entry)] /\ \A c \in Channel : Len(buf[c]) <= SubCap
  BY <1>1 DEF TypeOK, Entry
<1>5. \A c \in Channel : Len(buf[c]) \in Nat
  <2>1. SUFFICES ASSUME NEW c \in Channel PROVE Len(buf[c]) \in Nat
    OBVIOUS
  <2>2. buf[c] \in Seq(Entry)
    BY <1>4
  <2>3. QED
    BY <2>2, LenProperties
<1>6. loop \in {"new", "select", "done"} => todo = {}
  BY DEF FeedInv, BrokerTypeInv
<1>7. QED
  BY <1>1, <1>3, <1>4, <1>5, <1>6 DEF TypeOK, Entry

LEMMA GivenType ==
  ASSUME FeedInv, NEW c \in Channel
  PROVE  /\ Real(buf[c]) \in Seq(Message)
         /\ Given(c) \in Seq(Message)
         /\ Len(Given(c)) = Len(got[c]) + Len(Real(buf[c]))
         /\ \A i \in 1..Len(got[c]) + Len(Real(buf[c])) :
              Given(c)[i] = IF i <= Len(got[c]) THEN got[c][i]
                                                ELSE Real(buf[c])[i - Len(got[c])]
<1>1. buf[c] \in Seq(Entry) /\ got[c] \in Seq(Message)
  BY FeedTypes
<1>2. PICK n \in 0..Len(buf[c]) : NilsFrom(buf[c], n)
  BY DEF FeedInv, NilsLast
<1>3. Real(buf[c]) \in Seq(Message)
  BY <1>1, <1>2, RealOf
<1>4. QED
  BY <1>1, <1>3, ConcatProperties DEF Given

LEMMA VisitedType ==
  ASSUME FeedInv, NEW c \in Channel
  PROVE  Visited(c) \in 0..Len(log) /\ Visited(c) \in Nat
<1>1. Len(log) \in Nat
  BY FeedTypes
<1>2. loop = "fanout" /\ msg # Nil => Len(log) > 0
  BY DEF FeedInv, FanoutIsLast
<1>3. QED
  BY <1>1, <1>2 DEF Visited

-----------------------------------------------------------------------------
(* What a step leaves alone stays as it is.                                *)
LEMMA SentOnceFrame ==
  ASSUME SentOnce, log' = log, broadcastC' = broadcastC, pub' = pub
  PROVE  SentOnce'
BY DEF SentOnce, Distinct

LEMMA RegisteredOnceFrame ==
  ASSUME FeedInv, caller' = caller, subC' = subC, got' = got, buf' = buf,
         \A c \in Channel : c \in subs' => c \in subs
  PROVE  RegisteredOnce'
<1>1. RegisteredOnce
  BY DEF FeedInv
<1>3. \A i \in 1..Len(subC) : subC[i] \in Channel
  BY FeedTypes, ElementOfSeq
<1>4. \A i \in 1..Len(subC) :
        subC[i] \notin subs' /\ got[subC[i]] = <<>> /\ buf[subC[i]] = <<>>
  BY <1>1, <1>3 DEF RegisteredOnce, Unregistered
<1>5. QED
  BY <1>1, <1>4 DEF RegisteredOnce, Unregistered, Distinct

\* A step that delivers nothing and does not begin or end a fan-out.
LEMMA QuietFrame ==
  ASSUME FeedInv, log' = log, since' = since, got' = got, buf' = buf,
         broadcastC' = broadcastC \/ ~BroadcastCClosed,
         stopStep' \in Int, stopStep' >= stopStep,
         \A c \in Channel : c \in subs' => c \in subs,
         \/ loop' = loop /\ msg' = msg /\ todo' = todo
         \/ loop # "fanout" /\ loop' # "fanout"
  PROVE  NilsLast' /\ FanoutIsLast' /\ \A c \in Channel : Delivery(c)'
<1>1. stopStep \in 0..5
  BY FeedTypes
<1>2. NilsLast'
  BY <1>1 DEF FeedInv, NilsLast, BroadcastCClosed
<1>3. FanoutIsLast'
  BY DEF FeedInv, FanoutIsLast
<1>4. ASSUME NEW c \in Channel
      PROVE  Delivery(c)'
  <2>1. Visited(c)' = Visited(c) /\ Given(c)' = Given(c)
    BY DEF Visited, Given
  <2>2. Delivery(c)
    BY DEF FeedInv
  <2>3. QED
    BY <2>1, <2>2 DEF Delivery
<1>5. QED
  BY <1>2, <1>3, <1>4

-----------------------------------------------------------------------------
(* The steps of the loop that deliver nothing.                             *)
LEMMA QuietLoopHolds ==
  ASSUME FeedInv, BrokerTypeInv',
         \/ StartLoop \/ SelectSubClosed \/ SelectUnsub \/ SelectUnsubClosed
         \/ SelectStop \/ \E c \in Channel \cup {Nil} : CloseSub(c)
  PROVE  FeedInv'
<1>1. /\ log' = log /\ since' = since /\ got' = got /\ buf' = buf
      /\ broadcastC' = broadcastC /\ stopStep' = stopStep
      /\ caller' = caller /\ pub' = pub /\ subC' = subC
      /\ loop # "fanout" /\ loop' # "fanout" /\ loop' # "new"
  BY FeedTypes DEF StartLoop, SelectSubClosed, SelectUnsub, SelectUnsubClosed,
     SelectStop, CloseSub, Forget, clients, requests
<1>2. \A c \in Channel : c \in subs' => c \in subs
  BY NilIsNoMessage DEF StartLoop, SelectSubClosed, SelectUnsub, SelectUnsubClosed,
     SelectStop, CloseSub, Forget
<1>3. stopStep' \in Int /\ stopStep' >= stopStep
  BY <1>1, FeedTypes
<1>4. NilsLast' /\ FanoutIsLast' /\ \A c \in Channel : Delivery(c)'
  BY <1>1, <1>2, <1>3, QuietFrame
<1>5. SentOnce'
  BY <1>1, SentOnceFrame DEF FeedInv
<1>6. RegisteredOnce'
  BY <1>1, <1>2, RegisteredOnceFrame
<1>7. QED
  BY <1>1, <1>4, <1>5, <1>6 DEF FeedInv

\* And those of the methods.
LEMMA QuietMethodHolds ==
  ASSUME FeedInv, BrokerTypeInv',
         \/ StopFlag \/ StopClose
         \/ \E c \in Channel : UnsubscribeCheck(c) \/ UnsubscribeSend(c) \/ SubscribeCheck(c)
         \/ \E m \in Message : BroadcastCheck(m)
  PROVE  FeedInv'
<1>1. /\ log' = log /\ since' = since /\ got' = got /\ buf' = buf
      /\ broadcastC' = broadcastC /\ subC' = subC /\ subs' = subs
      /\ loop' = loop /\ msg' = msg /\ todo' = todo
  BY DEF StopFlag, StopClose, UnsubscribeCheck, UnsubscribeSend, SubscribeCheck,
     BroadcastCheck, startVars, clients, requests
<1>2. stopStep' \in Int /\ stopStep' >= stopStep
  BY FeedTypes DEF StopFlag, StopClose, UnsubscribeCheck, UnsubscribeSend,
     SubscribeCheck, BroadcastCheck
<1>3. NilsLast' /\ FanoutIsLast' /\ \A c \in Channel : Delivery(c)'
  BY <1>1, <1>2, QuietFrame
<1>4. SentOnce'
  <2>1. \A m \in Message : pub[m] = "sent" => pub'[m] = "sent"
    BY FeedTypes DEF StopFlag, StopClose, UnsubscribeCheck, UnsubscribeSend,
       SubscribeCheck, BroadcastCheck, clients
  <2>2. /\ \A p \in 1..Len(log) : log[p] \in Message
        /\ \A i \in 1..Len(broadcastC) : broadcastC[i] \in Message
    BY FeedTypes, ElementOfSeq
  <2>3. SentOnce
    BY DEF FeedInv
  <2>4. /\ \A p \in 1..Len(log') : pub'[log'[p]] = "sent"
        /\ \A i \in 1..Len(broadcastC') : pub'[broadcastC'[i]] = "sent"
    BY <1>1, <2>1, <2>2, <2>3 DEF SentOnce
  <2>5. QED
    BY <1>1, <2>3, <2>4 DEF SentOnce, Distinct
<1>5. RegisteredOnce'
  <2>1. ASSUME NEW c \in Channel, caller'[c] \in {"idle", "subscribing", "refused"}
        PROVE  caller[c] \in {"idle", "subscribing", "refused"}
    BY <2>1, FeedTypes DEF StopFlag, StopClose, UnsubscribeCheck, UnsubscribeSend,
       SubscribeCheck, BroadcastCheck, clients
  <2>2. RegisteredOnce
    BY DEF FeedInv
  <2>3. \A c : Unregistered(c)' = Unregistered(c)
    BY <1>1 DEF Unregistered
  <2>4. QED
    BY <1>1, <2>1, <2>2, <2>3 DEF RegisteredOnce, Distinct
<1>6. QED
  BY <1>1, <1>3, <1>4, <1>5 DEF FeedInv

-----------------------------------------------------------------------------
(* The methods that add to the queues of the loop.                         *)
LEMMA SubscribeSendHolds ==
  ASSUME FeedInv, BrokerTypeInv', NEW c \in Channel, SubscribeSend(c)
  PROVE  FeedInv'
<1>1. /\ log' = log /\ since' = since /\ got' = got /\ buf' = buf
      /\ broadcastC' = broadcastC /\ stopStep' = stopStep /\ subs' = subs
      /\ loop' = loop /\ msg' = msg /\ todo' = todo /\ pub' = pub
  BY DEF SubscribeSend, startVars
<1>2. stopStep' \in Int /\ stopStep' >= stopStep
  BY <1>1, FeedTypes
<1>3. NilsLast' /\ FanoutIsLast' /\ \A d \in Channel : Delivery(d)'
  BY <1>1, <1>2, QuietFrame
<1>4. SentOnce'
  BY <1>1, SentOnceFrame DEF FeedInv
<1>5. RegisteredOnce'
  <2>1. CASE caller' = caller /\ subC' = subC
    BY <1>1, <2>1, RegisteredOnceFrame
  <2>2. CASE subC' = Append(subC, c) /\ caller' = [caller EXCEPT ![c] = "open"]
    <3>1. caller[c] = "subscribing" /\ RegisteredOnce
      BY DEF SubscribeSend, FeedInv
    <3>2. /\ Len(subC') = Len(subC) + 1 /\ Len(subC) \in Nat
          /\ \A i \in 1..Len(subC) : subC'[i] = subC[i]
          /\ subC'[Len(subC) + 1] = c
      BY <2>2, FeedTypes, AppendProperties
    <3>3. \A i \in 1..Len(subC') : i \in 1..Len(subC) \/ i = Len(subC) + 1
      BY <3>2
    <3>4. Unregistered(c) /\ \A i \in 1..Len(subC) : subC[i] # c
      BY <3>1 DEF RegisteredOnce
    <3>5. \A d : Unregistered(d)' = Unregistered(d)
      BY <1>1 DEF Unregistered
    <3>6. ASSUME NEW d \in Channel, caller'[d] \in {"idle", "subscribing", "refused"}
          PROVE  Unregistered(d) /\ \A i \in 1..Len(subC') : subC'[i] # d
      <4>1. d # c /\ caller[d] \in {"idle", "subscribing", "refused"}
        BY <2>2, <3>6, FeedTypes
      <4>2. QED
        BY <3>1, <3>2, <3>3, <4>1 DEF RegisteredOnce
    <3>7. \A i \in 1..Len(subC') :
            subC'[i] \notin subs /\ got[subC'[i]] = <<>> /\ buf[subC'[i]] = <<>>
      BY <3>1, <3>2, <3>3, <3>4 DEF RegisteredOnce, Unregistered
    <3>8. Distinct(subC')
      BY <3>1, <3>2, <3>3, <3>4 DEF RegisteredOnce, Distinct
    <3>9. QED
      BY <1>1, <3>5, <3>6, <3>7, <3>8 DEF RegisteredOnce, Unregistered, Distinct
  <2>3. QED
    BY <2>1, <2>2 DEF SubscribeSend
<1>6. QED
  BY <1>1, <1>3, <1>4, <1>5 DEF FeedInv

LEMMA BroadcastSendHolds ==
  ASSUME FeedInv, BrokerTypeInv', NEW m \in Message, BroadcastSend(m)
  PROVE  FeedInv'
<1>1. /\ log' = log /\ since' = since /\ got' = got /\ buf' = buf
      /\ stopStep' = stopStep /\ subs' = subs /\ caller' = caller /\ subC' = subC
      /\ loop' = loop /\ msg' = msg /\ todo' = todo
      /\ broadcastC' = broadcastC \/ ~BroadcastCClosed
  BY DEF BroadcastSend, startVars
<1>2. stopStep' \in Int /\ stopStep' >= stopStep
  BY <1>1, FeedTypes
<1>3. NilsLast' /\ FanoutIsLast' /\ \A d \in Channel : Delivery(d)'
  BY <1>1, <1>2, QuietFrame
<1>4. RegisteredOnce'
  BY <1>1, RegisteredOnceFrame
<1>5. SentOnce'
  <2>1. SentOnce /\ pub[m] = "sending"
    BY DEF FeedInv, BroadcastSend
  <2>2. /\ \A p \in 1..Len(log) : log[p] \in Message /\ log[p] # m
        /\ \A i \in 1..Len(broadcastC) : broadcastC[i] \in Message /\ broadcastC[i] # m
    BY <2>1, FeedTypes, ElementOfSeq DEF SentOnce
  <2>3. \A x \in Message : x # m => pub'[x] = pub[x]
    BY FeedTypes DEF BroadcastSend
  <2>4. CASE broadcastC' = broadcastC
    BY <1>1, <2>1, <2>2, <2>3, <2>4 DEF SentOnce, Distinct
  <2>5. CASE broadcastC' = Append(broadcastC, m) /\ pub' = [pub EXCEPT ![m] = "sent"]
    <3>1. /\ Len(broadcastC') = Len(broadcastC) + 1 /\ Len(broadcastC) \in Nat
          /\ \A i \in 1..Len(broadcastC) : broadcastC'[i] = broadcastC[i]
          /\ broadcastC'[Len(broadcastC) + 1] = m
      BY <2>5, FeedTypes, AppendProperties
    <3>2. \A i \in 1..Len(broadcastC') : i \in 1..Len(broadcastC) \/ i = Len(broadcastC) + 1
      BY <3>1
    <3>3. Distinct(broadcastC')
      BY <2>1, <2>2, <3>1, <3>2 DEF SentOnce, Distinct
    <3>4. pub'[m] = "sent"
      BY <2>5, FeedTypes
    <3>5. /\ \A p \in 1..Len(log) : pub'[log[p]] = "sent"
          /\ \A i \in 1..Len(broadcastC') : pub'[broadcastC'[i]] = "sent"
      BY <2>1, <2>2, <2>3, <3>1, <3>2, <3>4 DEF SentOnce
    <3>6. \A p \in 1..Len(log), i \in 1..Len(broadcastC') : log[p] # broadcastC'[i]
      BY <2>1, <2>2, <3>1, <3>2 DEF SentOnce
    <3>7. QED
      BY <1>1, <2>1, <3>3, <3>5, <3>6 DEF SentOnce, Distinct
  <2>6. QED
    BY <2>4, <2>5 DEF BroadcastSend
<1>6. QED
  BY <1>1, <1>3, <1>4, <1>5 DEF FeedInv

-----------------------------------------------------------------------------
(* The loop registers a channel.                                           *)
LEMMA SelectSubHolds ==
  ASSUME FeedInv, BrokerTypeInv', SelectSub
  PROVE  FeedInv'
<1> DEFINE c == Head(subC)
<1>1. /\ subC # <<>> /\ loop = "select" /\ loop' = loop /\ msg' = msg /\ todo' = todo
      /\ subC' = Tail(subC) /\ subs' = subs \cup {c}
      /\ since' = [since EXCEPT ![c] = Len(log)]
      /\ log' = log /\ got' = got /\ buf' = buf /\ broadcastC' = broadcastC
      /\ stopStep' = stopStep /\ caller' = caller /\ pub' = pub
  BY DEF SelectSub, clients
<1>2. /\ c \in Channel /\ c = subC[1] /\ Len(subC') = Len(subC) - 1
      /\ \A i \in 1..Len(subC') : subC'[i] = subC[i + 1]
      /\ Len(subC) \in Nat /\ Len(subC) >= 1
  BY <1>1, FeedTypes, HeadTailProperties, EmptySeq
<1>3. \A i \in 1..Len(subC') : i + 1 \in 1..Len(subC) /\ i + 1 # 1
  BY <1>2
<1>4. RegisteredOnce /\ Unregistered(c) /\ \A i \in 1..Len(subC') : subC'[i] # c
  <2>1. RegisteredOnce
    BY DEF FeedInv
  <2>2. 1 \in 1..Len(subC)
    BY <1>2
  <2>3. Unregistered(c)
    BY <1>2, <2>1, <2>2 DEF RegisteredOnce
  <2>4. QED
    BY <1>2, <1>3, <2>1, <2>2, <2>3 DEF RegisteredOnce, Distinct
<1> HIDE DEF c
<1>5. RegisteredOnce'
  <2>1. ASSUME NEW d \in Channel, caller[d] \in {"idle", "subscribing", "refused"}
        PROVE  /\ d \notin subs' /\ got[d] = <<>> /\ buf[d] = <<>>
               /\ \A i \in 1..Len(subC') : subC'[i] # d
    <3>1. Unregistered(d) /\ \A i \in 1..Len(subC) : subC[i] # d
      BY <1>4, <2>1 DEF RegisteredOnce
    <3>2. d # c
      BY <1>2, <3>1
    <3>3. QED
      BY <1>1, <1>2, <1>3, <3>1, <3>2 DEF Unregistered
  <2>2. \A i \in 1..Len(subC') :
          subC'[i] \notin subs' /\ got[subC'[i]] = <<>> /\ buf[subC'[i]] = <<>>
    BY <1>1, <1>2, <1>3, <1>4 DEF RegisteredOnce, Unregistered
  <2>3. Distinct(subC')
    <3>1. SUFFICES ASSUME NEW i \in 1..Len(subC'), NEW j \in 1..Len(subC'),
                          subC'[i] = subC'[j]
                   PROVE  i = j
      BY DEF Distinct
    <3>2. i + 1 = j + 1
      BY <1>2, <1>3, <1>4, <3>1 DEF RegisteredOnce, Distinct
    <3>3. QED
      BY <3>2
  <2>4. QED
    BY <1>1, <2>1, <2>2, <2>3 DEF RegisteredOnce, Unregistered, Distinct
<1>6. SentOnce'
  BY <1>1, SentOnceFrame DEF FeedInv
<1>7. NilsLast' /\ FanoutIsLast'
  BY <1>1 DEF FeedInv, NilsLast, FanoutIsLast, BroadcastCClosed
<1>8. ASSUME NEW d \in Channel
      PROVE  Delivery(d)'
  <2>1. Visited(d) = Len(log) /\ Visited(d)' = Len(log) /\ Given(d)' = Given(d)
    BY <1>1 DEF Visited, Given
  <2>2. Delivery(d)
    BY DEF FeedInv
  <2>3. CASE d = c
    <3>1. Given(d) = <<>>
      <4>1. got[d] = <<>> /\ Real(buf[d]) = <<>>
        BY <1>4, <2>3, RealEmpty DEF Unregistered
      <4>2. QED
        BY <4>1, ConcatEmptySeq, EmptySeq DEF Given
    <3>2. since'[d] = Len(log) /\ Len(log) \in Nat
      BY <1>1, <1>2, <2>3, FeedTypes
    <3>3. Ordered(<<>>, log, Len(log), Len(log))
      BY OrderedEmpty
    <3>4. Backlog(ToSet(Given(d)), log, Len(log), Len(log))
      BY <3>2 DEF Backlog
    <3>5. QED
      BY <1>1, <2>1, <3>1, <3>2, <3>3, <3>4 DEF Delivery
  <2>4. CASE d # c
    <3>1. since'[d] = since[d] /\ (d \in subs' => d \in subs)
      BY <1>1, <2>4, FeedTypes
    <3>2. QED
      BY <1>1, <2>1, <2>2, <3>1 DEF Delivery
  <2>5. QED
    BY <2>3, <2>4
<1>9. QED
  BY <1>1, <1>5, <1>6, <1>7, <1>8 DEF FeedInv

-----------------------------------------------------------------------------
(* The loop takes a message, or the zero value of a closed broadcastC.     *)
LEMMA SelectBroadcastClosedHolds ==
  ASSUME FeedInv, BrokerTypeInv', SelectBroadcastClosed
  PROVE  FeedInv'
<1>1. /\ log' = log /\ since' = since /\ got' = got /\ buf' = buf /\ subs' = subs
      /\ broadcastC' = broadcastC /\ stopStep' = stopStep /\ caller' = caller
      /\ pub' = pub /\ subC' = subC /\ msg' = Nil /\ loop = "select"
      /\ loop' \in {"select", "fanout"} /\ broadcastC = <<>> /\ BroadcastCClosed
  BY DEF SelectBroadcastClosed, BeginFanout, clients, requests
<1>2. NilsLast' /\ FanoutIsLast'
  BY <1>1 DEF FeedInv, NilsLast, FanoutIsLast, BroadcastCClosed
<1>3. ASSUME NEW c \in Channel
      PROVE  Delivery(c)'
  <2>1. Visited(c)' = Visited(c) /\ Given(c)' = Given(c)
    BY <1>1 DEF Visited, Given
  <2>2. Delivery(c)
    BY DEF FeedInv
  <2>3. QED
    BY <1>1, <2>1, <2>2 DEF Delivery
<1>4. SentOnce' /\ RegisteredOnce'
  BY <1>1, SentOnceFrame, RegisteredOnceFrame DEF FeedInv
<1>5. QED
  BY <1>1, <1>2, <1>3, <1>4 DEF FeedInv

LEMMA SelectBroadcastHolds ==
  ASSUME FeedInv, BrokerTypeInv', SelectBroadcast
  PROVE  FeedInv'
<1> DEFINE m == Head(broadcastC)
<1>1. /\ broadcastC # <<>> /\ broadcastC' = Tail(broadcastC)
      /\ loop = "select" /\ loop' = (IF subs = {} THEN "select" ELSE "fanout")
      /\ msg' = m /\ todo' = subs /\ log' = Append(log, m)
      /\ since' = since /\ got' = got /\ buf' = buf /\ subs' = subs
      /\ stopStep' = stopStep /\ caller' = caller /\ pub' = pub /\ subC' = subC
  BY DEF SelectBroadcast, TakeBroadcast, BeginFanout, clients
<1>2. /\ m \in Message /\ m = broadcastC[1] /\ Len(broadcastC') = Len(broadcastC) - 1
      /\ \A i \in 1..Len(broadcastC') : broadcastC'[i] = broadcastC[i + 1]
      /\ Len(broadcastC) \in Nat /\ Len(broadcastC) >= 1
  BY <1>1, FeedTypes, HeadTailProperties, EmptySeq
<1>3. \A i \in 1..Len(broadcastC') : i + 1 \in 1..Len(broadcastC) /\ i + 1 # 1
  BY <1>2
<1>4. /\ SentOnce /\ 1 \in 1..Len(broadcastC)
      /\ \A p \in 1..Len(log) : log[p] # m
  <2>1. SentOnce /\ 1 \in 1..Len(broadcastC)
    BY <1>2 DEF FeedInv
  <2>2. QED
    BY <1>2, <2>1 DEF SentOnce
<1>5. \A i \in 1..Len(broadcastC') : broadcastC'[i] # m
  BY <1>2, <1>3, <1>4 DEF SentOnce, Distinct
<1> HIDE DEF m
<1>6. /\ log' \in Seq(Message) /\ Len(log') = Len(log) + 1 /\ Len(log) \in Nat
      /\ \A p \in 1..Len(log) : log'[p] = log[p]
      /\ log'[Len(log) + 1] = m
  BY <1>1, <1>2, FeedTypes, AppendProperties
<1>7. \A p \in 1..Len(log') : p \in 1..Len(log) \/ p = Len(log) + 1
  BY <1>6
<1>8. SentOnce'
  <2>1. Distinct(log')
    BY <1>4, <1>6, <1>7 DEF SentOnce, Distinct
  <2>2. Distinct(broadcastC')
    <3>1. SUFFICES ASSUME NEW i \in 1..Len(broadcastC'), NEW j \in 1..Len(broadcastC'),
                          broadcastC'[i] = broadcastC'[j]
                   PROVE  i = j
      BY DEF Distinct
    <3>2. i + 1 = j + 1
      BY <1>2, <1>3, <1>4, <3>1 DEF SentOnce, Distinct
    <3>3. QED
      BY <3>2
  <2>3. \A p \in 1..Len(log') : pub[log'[p]] = "sent"
    BY <1>2, <1>4, <1>6, <1>7 DEF SentOnce
  <2>4. \A i \in 1..Len(broadcastC') : pub[broadcastC'[i]] = "sent"
    BY <1>2, <1>3, <1>4 DEF SentOnce
  <2>5. \A p \in 1..Len(log'), i \in 1..Len(broadcastC') : log'[p] # broadcastC'[i]
    BY <1>2, <1>3, <1>4, <1>5, <1>6, <1>7 DEF SentOnce
  <2>6. QED
    BY <1>1, <2>1, <2>2, <2>3, <2>4, <2>5 DEF SentOnce, Distinct
<1>9. RegisteredOnce'
  BY <1>1, RegisteredOnceFrame
<1>10. m # Nil
  BY <1>2, NilIsNoMessage
<1>11. NilsLast'
  <2>1. /\ \A c \in Channel : \E n \in 0..Len(buf[c]) : NilsFrom(buf[c], n)
        /\ \A c \in Channel : NilsFrom(buf[c], Len(buf[c]))
    BY <1>1 DEF FeedInv, NilsLast
  <2>2. QED
    BY <1>1, <1>10, <2>1 DEF NilsLast, NilsFrom
<1>12. \A c \in Channel : since[c] \in Nat /\ since[c] <= Len(log)
  BY FeedTypes DEF FeedInv, Delivery
<1>13. FanoutIsLast'
  <2>1. Len(log') > 0 /\ msg' = log'[Len(log')]
    BY <1>1, <1>6
  <2>2. subs \subseteq Channel \cup {Nil}
    BY DEF FeedInv, BrokerTypeInv, TypeOK
  <2>3. \A c \in todo' \ {Nil} : since'[c] < Len(log')
    BY <1>1, <1>6, <1>12, <2>2
  <2>4. QED
    BY <2>1, <2>3 DEF FanoutIsLast
<1>14. ASSUME NEW c \in Channel
       PROVE  Delivery(c)'
  <2>1. Given(c)' = Given(c) /\ Given(c) \in Seq(Message) /\ since[c] \in Nat
        /\ since[c] <= Len(log) /\ log \in Seq(Message)
    BY <1>1, <1>12, GivenType, FeedTypes DEF Given
  <2>2. Visited(c) = Len(log)
    BY <1>1 DEF Visited
  <2>3. /\ Ordered(Given(c), log, since[c], Len(log))
        /\ c \in subs => Backlog(ToSet(Given(c)), log, since[c], Len(log))
    BY <2>2 DEF FeedInv, Delivery
  <2>4. /\ Visited(c)' \in Nat /\ Len(log) <= Visited(c)'
        /\ c \in subs => Visited(c)' = Len(log)
    BY <1>1, <1>6, <1>10 DEF Visited
  <2>5. Len(log) \in 0..Len(log)
    BY <1>6
  <2>6. Ordered(Given(c), log', since[c], Len(log))
    BY <1>1, <1>2, <1>4, <2>1, <2>3, <2>5, OrderedLog
  <2>7. Ordered(Given(c), log', since[c], Visited(c)')
    BY <1>6, <2>1, <2>4, <2>6, OrderedWiden
  <2>8. c \in subs => Backlog(ToSet(Given(c)), log', since[c], Len(log))
    BY <1>6, <2>1, <2>3, BacklogSame
  <2>9. QED
    BY <1>1, <1>6, <2>1, <2>4, <2>7, <2>8 DEF Delivery
<1>15. QED
  BY <1>1, <1>8, <1>9, <1>11, <1>13, <1>14 DEF FeedInv

-----------------------------------------------------------------------------
(* A subscriber receives.                                                  *)
LEMMA ConcatAppend ==
  ASSUME NEW s \in Seq(Message), NEW t \in Seq(Message), NEW m \in Message
  PROVE  s \o Append(t, m) = Append(s \o t, m)
<1>1. <<m>> \in Seq(Message) /\ s \o t \in Seq(Message)
  BY ConcatProperties
<1>2. Append(t, m) = t \o <<m>> /\ Append(s \o t, m) = (s \o t) \o <<m>>
  BY <1>1, AppendIsConcat
<1>3. QED
  BY <1>1, <1>2, ConcatAssociative

LEMMA ConcatShift ==
  ASSUME NEW s \in Seq(Message), NEW t \in Seq(Message), t # <<>>
  PROVE  Append(s, Head(t)) \o Tail(t) = s \o t
<1>1. /\ Head(t) \in Message /\ Head(t) = t[1] /\ Tail(t) \in Seq(Message)
      /\ Len(t) \in Nat /\ Len(t) >= 1
  BY HeadTailProperties, EmptySeq
<1>2. <<Head(t)>> \in Seq(Message)
  BY <1>1
<1>3. t = <<Head(t)>> \o Tail(t)
  <2>1. SubSeq(t, 1, Len(t)) = <<t[1]>> \o SubSeq(t, 1 + 1, Len(t))
    BY <1>1, SubSeqRecursiveFirst
  <2>2. SubSeq(t, 1, Len(t)) = t /\ Tail(t) = SubSeq(t, 2, Len(t))
    BY SubSeqFull, TailIsSubSeq
  <2>3. QED
    BY <1>1, <2>1, <2>2
<1>4. Append(s, Head(t)) = s \o <<Head(t)>>
  BY <1>1, AppendIsConcat
<1>5. (s \o <<Head(t)>>) \o Tail(t) = s \o (<<Head(t)>> \o Tail(t))
  BY <1>1, <1>2, ConcatAssociative
<1>6. QED
  BY <1>3, <1>4, <1>5

LEMMA ReceiveHolds ==
  ASSUME FeedInv, BrokerTypeInv', NEW c \in Channel, NEW v \in Message \cup {Nil},
         Receive(c, v)
  PROVE  FeedInv'
<1>1. /\ log' = log /\ since' = since /\ broadcastC' = broadcastC /\ subs' = subs
      /\ loop' = loop /\ msg' = msg /\ todo' = todo /\ subC' = subC
      /\ stopStep' = stopStep /\ caller' = caller /\ pub' = pub
      /\ caller[c] = "open"
      /\ got' = (IF v = Nil THEN got ELSE [got EXCEPT ![c] = Append(@, v)])
      /\ \/ buf[c] # <<>> /\ v = Head(buf[c]) /\ buf' = [buf EXCEPT ![c] = Tail(@)]
         \/ buf[c] = <<>> /\ v = Nil /\ buf' = buf
  BY DEF Receive, startVars, requests
<1>2. /\ buf \in [Channel -> Seq(Entry)] /\ got \in [Channel -> Seq(Message)]
      /\ buf[c] \in Seq(Entry) /\ got[c] \in Seq(Message)
  BY FeedTypes
<1>3. \A d \in Channel : d # c => buf'[d] = buf[d] /\ got'[d] = got[d]
  BY <1>1, <1>2
<1>4. PICK n \in 0..Len(buf[c]) : NilsFrom(buf[c], n)
  BY DEF FeedInv, NilsLast
<1>5. Given(c)' = Given(c)
  <2>1. CASE buf' = buf /\ v = Nil
    BY <1>1, <2>1 DEF Given
  <2>2. CASE buf[c] # <<>> /\ v = Head(buf[c]) /\ buf' = [buf EXCEPT ![c] = Tail(@)]
    <3>1. buf'[c] = Tail(buf[c])
      BY <1>2, <2>2
    <3>2. CASE v = Nil
      <4>1. Real(buf[c]) = <<>> /\ Real(buf'[c]) = <<>> /\ got' = got
        BY <1>1, <1>2, <1>4, <2>2, <3>1, <3>2, RealTail
      <4>2. QED
        BY <4>1 DEF Given
    <3>3. CASE v # Nil
      <4>1. /\ Real(buf[c]) # <<>> /\ v = Head(Real(buf[c]))
            /\ Real(buf'[c]) = Tail(Real(buf[c]))
        BY <1>2, <1>4, <2>2, <3>1, <3>3, RealTail
      <4>2. got'[c] = Append(got[c], v)
        BY <1>1, <1>2, <3>3
      <4>3. Real(buf[c]) \in Seq(Message)
        BY <1>2, <1>4, RealOf
      <4>4. Append(got[c], Head(Real(buf[c]))) \o Tail(Real(buf[c]))
              = got[c] \o Real(buf[c])
        BY <1>2, <4>1, <4>3, ConcatShift
      <4>5. QED
        BY <4>1, <4>2, <4>4 DEF Given
    <3>4. QED
      BY <3>2, <3>3
  <2>3. QED
    BY <1>1, <2>1, <2>2
<1>6. ASSUME NEW d \in Channel
      PROVE  Delivery(d)'
  <2>1. Given(d)' = Given(d)
    BY <1>3, <1>5 DEF Given
  <2>2. Visited(d)' = Visited(d)
    BY <1>1 DEF Visited
  <2>3. Delivery(d)
    BY DEF FeedInv
  <2>4. QED
    BY <1>1, <2>1, <2>2, <2>3 DEF Delivery
<1>7. SentOnce' /\ FanoutIsLast'
  BY <1>1, SentOnceFrame DEF FeedInv, FanoutIsLast
<1>8. RegisteredOnce'
  <2>1. RegisteredOnce
    BY DEF FeedInv
  <2>2. ASSUME NEW d \in Channel, Unregistered(d)
        PROVE  got'[d] = <<>> /\ buf'[d] = <<>>
    <3>1. CASE d = c
      BY <1>1, <2>2, <3>1 DEF Unregistered
    <3>2. CASE d # c
      BY <1>3, <2>2, <3>2 DEF Unregistered
    <3>3. QED
      BY <3>1, <3>2
  <2>3. \A i \in 1..Len(subC) : subC[i] \in Channel
    BY FeedTypes, ElementOfSeq
  <2>4. QED
    BY <1>1, <2>1, <2>2, <2>3 DEF RegisteredOnce, Unregistered, Distinct
<1>9. NilsLast'
  <2>1. \A d \in Channel : \E k \in 0..Len(buf'[d]) : NilsFrom(buf'[d], k)
    <3>1. \E k \in 0..Len(buf'[c]) : NilsFrom(buf'[c], k)
      BY <1>1, <1>2, <1>4, RealTail
    <3>2. QED
      BY <1>3, <3>1 DEF FeedInv, NilsLast
  <2>2. ASSUME NilsFrom(buf[c], Len(buf[c]))
        PROVE  NilsFrom(buf'[c], Len(buf'[c]))
    <3>1. CASE buf' = buf
      BY <2>2, <3>1
    <3>2. CASE buf[c] # <<>> /\ buf'[c] = Tail(buf[c])
      <4>1. /\ Len(buf'[c]) = Len(buf[c]) - 1
            /\ \A i \in 1..Len(buf'[c]) : buf'[c][i] = buf[c][i + 1]
            /\ Len(buf[c]) \in Nat
        BY <1>2, <3>2, HeadTailProperties, LenProperties
      <4>2. \A i \in 1..Len(buf'[c]) : i + 1 \in 1..Len(buf[c])
        BY <4>1
      <4>3. \A i \in 1..Len(buf'[c]) : buf'[c][i] # Nil
        BY <2>2, <4>1, <4>2 DEF NilsFrom
      <4>4. QED
        BY <4>1, <4>3 DEF NilsFrom
    <3>3. QED
      BY <1>1, <1>2, <3>1, <3>2
  <2>3. (\A d \in Channel : NilsFrom(buf[d], Len(buf[d]))) =>
          \A d \in Channel : NilsFrom(buf'[d], Len(buf'[d]))
    BY <1>3, <2>2
  <2>4. QED
    BY <1>1, <2>1, <2>3 DEF FeedInv, NilsLast, BroadcastCClosed, NilsFrom
<1>10. QED
  BY <1>1, <1>6, <1>7, <1>8, <1>9 DEF FeedInv

-----------------------------------------------------------------------------
(* One turn of the fan-out, for the channel it visits.                     *)

\* The visited channel holds no nil yet, when there is a message to send.
LEMMA NoNilYet ==
  ASSUME FeedInv, loop = "fanout", msg # Nil, NEW c \in Channel
  PROVE  /\ NilsFrom(buf[c], Len(buf[c])) /\ Real(buf[c]) = buf[c]
         /\ msg \in Message
<1>1. NilsFrom(buf[c], Len(buf[c])) /\ buf[c] \in Seq(Entry) /\ msg \in Message
  BY FeedTypes DEF FeedInv, NilsLast
<1>2. QED
  BY <1>1, RealAppend

\* One that is behind has a full queue to show for it.
LEMMA FullHasBacklog ==
  ASSUME FeedInv, loop = "fanout", msg # Nil, NEW c \in Channel, c \in todo,
         ~(Len(buf[c]) < SubCap)
  PROVE  Cardinality(Behind(ToSet(Given(c)), log, since[c], Len(log))) >= SubCap
<1> DEFINE q == buf[c]
           g == Given(c)
           n == Len(got[c])
<1>1. SubCap \in Nat /\ Len(q) = SubCap /\ Len(log) \in Nat
  BY FeedTypes, BrokerAssumption DEF BrokerAssumption
<1>2. /\ Real(q) = q /\ q \in Seq(Message)
      /\ g \in Seq(Message)
      /\ Len(g) = n + Len(q)
      /\ \A i \in 1..n + Len(q) : g[i] = IF i <= n THEN got[c][i] ELSE q[i - n]
  BY NoNilYet, GivenType
<1>3. n \in Nat /\ since[c] \in Nat
  <2>1. got[c] \in Seq(Message) /\ since[c] \in Nat
    BY FeedTypes
  <2>2. QED
    BY <2>1, LenProperties
<1>4. \A i \in 1..Len(q) : n + i \in 1..Len(g) /\ g[n + i] = q[i]
  <2>1. SUFFICES ASSUME NEW i \in 1..Len(q)
                 PROVE  n + i \in 1..Len(g) /\ g[n + i] = q[i]
    OBVIOUS
  <2>2. n + i \in 1..n + Len(q) /\ ~(n + i <= n) /\ (n + i) - n = i
    BY <1>1, <1>3
  <2>3. QED
    BY <1>2, <2>2
<1>5. Visited(c) = Len(log) - 1
  BY DEF Visited
<1>6. Ordered(g, log, since[c], Len(log) - 1)
  BY <1>5 DEF FeedInv, Delivery
<1>7. DOMAIN g = 1..Len(g)
  BY <1>2, LenProperties
<1> HIDE DEF g, n, q
<1>8. \A i \in 1..Len(q) : \E p \in since[c] + 1 .. Len(log) - 1 : log[p] = q[i]
  BY <1>4, <1>6 DEF Ordered
<1>9. since[c] + 1 .. Len(log) - 1 \subseteq 1..Len(log)
  BY <1>1, <1>3
<1>10. Distinct(q)
  <2>1. ASSUME NEW i \in 1..Len(q), NEW j \in 1..Len(q), q[i] = q[j], i < j
        PROVE  FALSE
    <3>1. PICK p \in since[c] + 1 .. Len(log) - 1 : log[p] = q[i]
      BY <1>8
    <3>2. p \in 1..Len(log) /\ n + i < n + j
      BY <1>1, <1>3, <1>9, <2>1
    <3>3. /\ n + i \in 1..Len(g) /\ n + j \in 1..Len(g)
          /\ g[n + i] = log[p] /\ g[n + j] = log[p]
      BY <1>4, <2>1, <3>1
    <3>4. p < p
      BY <1>6, <3>2, <3>3 DEF Ordered
    <3>5. QED
      BY <3>2, <3>4, <1>1
  <2>2. \A i, j \in 1..Len(q) : i < j \/ j < i \/ i = j
    BY <1>1
  <2>3. QED
    BY <2>1, <2>2 DEF Distinct
<1>11. \A i \in 1..Len(q) : q[i] \in ToSet(g)
  BY <1>4, <1>7 DEF ToSet
<1>12. Cardinality(Behind(ToSet(g), log, since[c], Len(log))) >= SubCap
  BY <1>1, <1>2, <1>3, <1>8, <1>10, <1>11, FullIsBacklog DEF q
<1>13. QED
  BY <1>12 DEF g

LEMMA VisitDelivers ==
  ASSUME FeedInv, NEW c \in Channel, Fanout(c), c \notin closed
  PROVE  Delivery(c)'
<1>1. /\ loop = "fanout" /\ c \in todo /\ todo' = todo \ {c} /\ c \in subs
      /\ log' = log /\ since' = since /\ got' = got /\ subs' = subs /\ msg' = msg
      /\ buf' = IF ReadyToTake(c) THEN [buf EXCEPT ![c] = Append(@, msg)] ELSE buf
  BY FeedTypes DEF Fanout, clients
<1>2. /\ buf \in [Channel -> Seq(Entry)] /\ buf[c] \in Seq(Entry)
      /\ got[c] \in Seq(Message) /\ since[c] \in Nat
      /\ log \in Seq(Message) /\ Len(log) \in Nat
  BY FeedTypes
<1>3. Visited(c)' = Len(log)
  BY <1>1 DEF Visited
<1>4. Delivery(c) /\ Given(c) \in Seq(Message)
  BY GivenType DEF FeedInv
<1>5. CASE msg = Nil
  <2>1. Visited(c) = Len(log)
    BY <1>5 DEF Visited
  <2>2. PICK n \in 0..Len(buf[c]) : NilsFrom(buf[c], n)
    BY DEF FeedInv, NilsLast
  <2>3. Real(buf'[c]) = Real(buf[c])
    <3>1. CASE ReadyToTake(c)
      <4>1. buf'[c] = Append(buf[c], Nil)
        BY <1>1, <1>2, <1>5, <3>1
      <4>2. QED
        BY <1>2, <2>2, <4>1, RealNil
    <3>2. CASE ~ReadyToTake(c)
      BY <1>1, <3>2
    <3>3. QED
      BY <3>1, <3>2
  <2>4. Given(c)' = Given(c)
    BY <1>1, <2>3 DEF Given
  <2>5. QED
    BY <1>1, <1>3, <1>4, <2>1, <2>4 DEF Delivery
<1>6. CASE msg # Nil
  <2>1. /\ Len(log) > 0 /\ msg = log[Len(log)] /\ since[c] < Len(log)
    BY <1>1, <1>6, NilIsNoMessage DEF FeedInv, FanoutIsLast
  <2>2. Visited(c) = Len(log) - 1
    BY <1>1, <1>6 DEF Visited
  <2>3. /\ Ordered(Given(c), log, since[c], Len(log) - 1)
        /\ Backlog(ToSet(Given(c)), log, since[c], Len(log) - 1)
    BY <1>1, <1>4, <2>2 DEF Delivery
  <2>4. Distinct(log) /\ Len(log) \in Nat \ {0} /\ Len(log) - 1 \in Nat
    BY <1>2, <2>1 DEF FeedInv, SentOnce
  <2>5. /\ NilsFrom(buf[c], Len(buf[c])) /\ Real(buf[c]) = buf[c] /\ msg \in Message
    BY <1>1, <1>6, NoNilYet
  <2>6. CASE ReadyToTake(c)
    <3>1. buf'[c] = Append(buf[c], msg) /\ buf[c] \in Seq(Message)
      BY <1>1, <1>2, <2>5, <2>6, GivenType
    <3>2. Real(buf'[c]) = Append(buf[c], msg)
      BY <1>2, <2>5, <3>1, RealAppend
    <3>3. Given(c)' = Append(Given(c), msg)
      <4>1. got[c] \o Append(buf[c], msg) = Append(got[c] \o buf[c], msg)
        BY <1>2, <2>5, <3>1, ConcatAppend
      <4>2. QED
        BY <1>1, <2>5, <3>2, <4>1 DEF Given
    <3>4. Ordered(Append(Given(c), msg), log, since[c], Len(log))
      BY <1>2, <1>4, <2>1, <2>3, <2>4, OrderedAppend
    <3>5. ToSet(Given(c)) \subseteq ToSet(Append(Given(c), msg))
          /\ msg \in ToSet(Append(Given(c), msg))
      <4>1. /\ Append(Given(c), msg) \in Seq(Message)
            /\ Len(Append(Given(c), msg)) = Len(Given(c)) + 1
            /\ \A i \in 1..Len(Given(c)) : Append(Given(c), msg)[i] = Given(c)[i]
            /\ Append(Given(c), msg)[Len(Given(c)) + 1] = msg
            /\ Len(Given(c)) \in Nat
        BY <1>4, <2>5, AppendProperties, LenProperties
      <4>2. /\ DOMAIN Given(c) = 1..Len(Given(c))
            /\ DOMAIN Append(Given(c), msg) = 1..Len(Given(c)) + 1
        BY <1>4, <4>1, LenProperties
      <4>3. Len(Given(c)) + 1 \in 1..Len(Given(c)) + 1
            /\ 1..Len(Given(c)) \subseteq 1..Len(Given(c)) + 1
        BY <4>1
      <4>4. QED
        BY <4>1, <4>2, <4>3 DEF ToSet
    <3>6. Backlog(ToSet(Append(Given(c), msg)), log, since[c], Len(log) - 1)
      BY <1>2, <2>3, <2>4, <3>5, BacklogMore
    <3>7. Backlog(ToSet(Append(Given(c), msg)), log, since[c], Len(log))
      BY <1>2, <2>1, <2>4, <3>5, <3>6, BacklogStep
    <3>8. QED
      BY <1>1, <1>3, <1>4, <3>3, <3>4, <3>7 DEF Delivery
  <2>7. CASE ~ReadyToTake(c)
    <3>1. ~(Len(buf[c]) < SubCap)
      BY <2>7, NilIsNoMessage DEF ReadyToTake
    <3>2. Cardinality(Behind(ToSet(Given(c)), log, since[c], Len(log))) >= SubCap
      BY <1>1, <1>6, <3>1, FullHasBacklog
    <3>3. Backlog(ToSet(Given(c)), log, since[c], Len(log))
      BY <1>2, <2>3, <2>4, <3>2, BacklogStep
    <3>4. Ordered(Given(c), log, since[c], Len(log))
      BY <1>2, <2>3, <2>4, OrderedWiden
    <3>5. Given(c)' = Given(c)
      BY <1>1, <2>7 DEF Given
    <3>6. QED
      BY <1>1, <1>3, <1>4, <3>3, <3>4, <3>5 DEF Delivery
  <2>8. QED
    BY <2>6, <2>7
<1>7. QED
  BY <1>5, <1>6

LEMMA FanoutHolds ==
  ASSUME FeedInv, BrokerTypeInv', NEW c \in Channel \cup {Nil}, Fanout(c)
  PROVE  FeedInv'
<1>1. /\ log' = log /\ since' = since /\ got' = got /\ broadcastC' = broadcastC
      /\ stopStep' = stopStep /\ caller' = caller /\ pub' = pub /\ subC' = subC
      /\ subs' = subs /\ msg' = msg /\ loop = "fanout" /\ c \in todo
      /\ loop' \in {"select", "fanout"}
  BY DEF Fanout, clients, requests
<1>2. SentOnce'
  BY <1>1, SentOnceFrame DEF FeedInv
<1>3. CASE c \in closed
  <2>1. loop' = loop /\ todo' = todo /\ buf' = buf
    BY <1>3 DEF Fanout
  <2>2. stopStep' \in Int /\ stopStep' >= stopStep
    BY <1>1, FeedTypes
  <2>3. NilsLast' /\ FanoutIsLast' /\ \A d \in Channel : Delivery(d)'
    BY <1>1, <2>1, <2>2, QuietFrame
  <2>4. RegisteredOnce'
    BY <1>1, <2>1, RegisteredOnceFrame
  <2>5. QED
    BY <1>1, <1>2, <2>1, <2>3, <2>4 DEF FeedInv
<1>4. CASE c \notin closed
  <2>1. /\ todo' = todo \ {c}
        /\ loop' = (IF todo = {c} THEN "select" ELSE "fanout")
        /\ buf' = (IF ReadyToTake(c) THEN [buf EXCEPT ![c] = Append(@, msg)] ELSE buf)
    BY <1>4 DEF Fanout
  <2>2. buf \in [Channel -> Seq(Entry)] /\ todo \subseteq subs /\ msg \in Entry
    BY FeedTypes DEF Entry
  <2>3. \A d \in Channel : d # c => buf'[d] = buf[d]
    BY <2>1, <2>2
  <2>4. c = Nil => buf' = buf
    BY <2>1 DEF ReadyToTake
  <2>5. ASSUME NEW d \in Channel
        PROVE  Delivery(d)'
    <3>1. CASE d = c
      BY <1>4, <3>1, VisitDelivers
    <3>2. CASE d # c
      <4>1. Given(d)' = Given(d)
        BY <1>1, <2>3, <3>2 DEF Given
      <4>2. Visited(d)' = Visited(d)
        BY <1>1, <2>1, <3>2 DEF Visited
      <4>3. Delivery(d)
        BY DEF FeedInv
      <4>4. QED
        BY <1>1, <4>1, <4>2, <4>3 DEF Delivery
    <3>3. QED
      BY <3>1, <3>2
  <2>6. FanoutIsLast'
    BY <1>1, <2>1 DEF FeedInv, FanoutIsLast
  <2>7. RegisteredOnce'
    <3>1. RegisteredOnce
      BY DEF FeedInv
    <3>2. \A d \in Channel : Unregistered(d) => buf'[d] = <<>>
      BY <1>1, <2>2, <2>3 DEF Unregistered
    <3>3. \A i \in 1..Len(subC) : subC[i] \in Channel
      BY FeedTypes, ElementOfSeq
    <3>4. QED
      BY <1>1, <3>1, <3>2, <3>3 DEF RegisteredOnce, Unregistered, Distinct
  <2>8. NilsLast'
    <3>1. NilsLast
      BY DEF FeedInv
    <3>2. CASE buf' = buf
      BY <1>1, <3>1, <3>2 DEF NilsLast, BroadcastCClosed
    <3>3. CASE buf' # buf
      <4>1. c \in Channel /\ buf'[c] = Append(buf[c], msg) /\ buf[c] \in Seq(Entry)
        BY <2>1, <2>2, <2>4, <3>3
      <4>2. CASE msg = Nil
        <5>1. PICK n \in 0..Len(buf[c]) : NilsFrom(buf[c], n)
          BY <3>1, <4>1 DEF NilsLast
        <5>2. n \in 0..Len(buf'[c]) /\ NilsFrom(buf'[c], n)
          BY <4>1, <4>2, <5>1, RealNil
        <5>3. \A d \in Channel : \E k \in 0..Len(buf'[d]) : NilsFrom(buf'[d], k)
          BY <2>3, <3>1, <5>2 DEF NilsLast
        <5>4. BroadcastCClosed' /\ broadcastC' = <<>>
          BY <1>1, <3>1, <4>2 DEF NilsLast, BroadcastCClosed
        <5>5. QED
          BY <1>1, <4>2, <5>3, <5>4 DEF NilsLast
      <4>3. CASE msg # Nil
        <5>1. \A d \in Channel : NilsFrom(buf[d], Len(buf[d]))
          BY <1>1, <4>3, NoNilYet
        <5>2. msg \in Message
          BY <2>2, <4>3 DEF Entry
        <5>3. NilsFrom(buf'[c], Len(buf'[c]))
          BY <4>1, <5>1, <5>2, RealAppend
        <5>4. \A d \in Channel : NilsFrom(buf'[d], Len(buf'[d]))
          BY <2>3, <5>1, <5>3
        <5>5. \A d \in Channel : Len(buf'[d]) \in 0..Len(buf'[d])
          <6>1. \A d \in Channel : buf'[d] \in Seq(Entry)
            BY DEF BrokerTypeInv, TypeOK, Entry
          <6>2. \A d \in Channel : Len(buf'[d]) \in Nat
            BY <6>1, LenProperties
          <6>3. QED
            BY <6>2
        <5>6. QED
          BY <1>1, <4>3, <5>4, <5>5 DEF NilsLast
      <4>4. QED
        BY <4>2, <4>3
    <3>4. QED
      BY <3>2, <3>3
  <2>9. QED
    BY <1>1, <1>2, <2>5, <2>6, <2>7, <2>8 DEF FeedInv
<1>5. QED
  BY <1>3, <1>4

-----------------------------------------------------------------------------
(* The invariant of every behaviour of the broker.                         *)
LEMMA InitFeedInv == BrokerInit => FeedInv
<1> SUFFICES ASSUME BrokerInit PROVE FeedInv
  OBVIOUS
<1>1. BrokerTypeInv
  BY BrokerInitTypeInv
<1>2. /\ subC = <<>> /\ broadcastC = <<>> /\ log = <<>> /\ subs = {} /\ todo = {}
      /\ loop = "new" /\ msg = Nil
      /\ \A c \in Channel : buf[c] = <<>> /\ got[c] = <<>> /\ since[c] = 0
  BY DEF BrokerInit
<1>3. Len(<<>>) = 0 /\ 1..0 = {}
  BY EmptySeq
<1>4. SentOnce /\ RegisteredOnce /\ FanoutIsLast
  BY <1>2, <1>3 DEF SentOnce, RegisteredOnce, FanoutIsLast, Distinct, Unregistered
<1>5. NilsFrom(<<>>, 0) /\ Real(<<>>) = <<>>
  BY RealEmpty
<1>6. NilsLast
  <2>1. 0 \in 0..Len(<<>>)
    BY <1>3
  <2>2. \A c \in Channel : \E n \in 0..Len(buf[c]) : NilsFrom(buf[c], n)
    BY <1>2, <1>5, <2>1
  <2>3. \A c \in Channel : NilsFrom(buf[c], Len(buf[c]))
    BY <1>2, <1>3, <1>5
  <2>4. QED
    BY <1>2, <2>2, <2>3 DEF NilsLast
<1>7. ASSUME NEW c \in Channel
      PROVE  Delivery(c)
  <2>1. Given(c) = <<>>
    BY <1>2, <1>5, ConcatEmptySeq, EmptySeq DEF Given
  <2>2. Ordered(<<>>, log, since[c], Visited(c))
    BY OrderedEmpty
  <2>3. since[c] <= Len(log)
    BY <1>2, <1>3
  <2>4. QED
    BY <1>2, <2>1, <2>2, <2>3 DEF Delivery
<1>8. QED
  BY <1>1, <1>2, <1>4, <1>6, <1>7 DEF FeedInv

LEMMA NextFeedInv == FeedInv /\ [BrokerNext]_brokerVars => FeedInv'
<1> SUFFICES ASSUME FeedInv, [BrokerNext]_brokerVars PROVE FeedInv'
  OBVIOUS
<1>1. CASE Loop
  <2>1. BrokerTypeInv'
    BY <1>1, LoopTypeInv DEF FeedInv
  <2>2. CASE SelectSub
    BY <2>1, <2>2, SelectSubHolds
  <2>3. CASE SelectBroadcast
    BY <2>1, <2>3, SelectBroadcastHolds
  <2>4. CASE SelectBroadcastClosed
    BY <2>1, <2>4, SelectBroadcastClosedHolds
  <2>5. CASE \E c \in Channel \cup {Nil} : Fanout(c)
    BY <2>1, <2>5, FanoutHolds
  <2>6. CASE \/ StartLoop \/ SelectSubClosed \/ SelectUnsub \/ SelectUnsubClosed
             \/ SelectStop \/ \E c \in Channel \cup {Nil} : CloseSub(c)
    BY <2>1, <2>6, QuietLoopHolds
  <2>7. QED
    BY <1>1, <2>2, <2>3, <2>4, <2>5, <2>6 DEF Loop
<1>2. CASE Methods
  <2>1. BrokerTypeInv'
    BY <1>2, MethodsTypeInv DEF FeedInv
  <2>2. CASE \E c \in Channel : SubscribeSend(c)
    BY <2>1, <2>2, SubscribeSendHolds
  <2>3. CASE \E m \in Message : BroadcastSend(m)
    BY <2>1, <2>3, BroadcastSendHolds
  <2>4. CASE \E c \in Channel, v \in Message \cup {Nil} : Receive(c, v)
    BY <2>1, <2>4, ReceiveHolds
  <2>5. CASE \/ StopFlag \/ StopClose
             \/ \E c \in Channel : UnsubscribeCheck(c) \/ UnsubscribeSend(c) \/ SubscribeCheck(c)
             \/ \E m \in Message : BroadcastCheck(m)
    BY <2>1, <2>5, QuietMethodHolds
  <2>6. QED
    BY <1>2, <2>2, <2>3, <2>4, <2>5 DEF Methods
<1>3. CASE UNCHANGED brokerVars
  <2>1. /\ log' = log /\ since' = since /\ got' = got /\ buf' = buf /\ subs' = subs
        /\ broadcastC' = broadcastC /\ stopStep' = stopStep /\ caller' = caller
        /\ pub' = pub /\ subC' = subC /\ loop' = loop /\ msg' = msg /\ todo' = todo
    BY <1>3 DEF brokerVars, startVars, requests, clients
  <2>2. BrokerTypeInv'
    BY <1>3 DEF FeedInv, BrokerTypeInv, TypeOK, brokerVars, startVars, requests, clients
  <2>3. stopStep' \in Int /\ stopStep' >= stopStep
    BY <2>1, FeedTypes
  <2>4. NilsLast' /\ FanoutIsLast' /\ \A c \in Channel : Delivery(c)'
    BY <2>1, <2>3, QuietFrame
  <2>5. SentOnce' /\ RegisteredOnce'
    BY <2>1, SentOnceFrame, RegisteredOnceFrame DEF FeedInv
  <2>6. QED
    BY <2>1, <2>2, <2>4, <2>5 DEF FeedInv
<1>4. QED
  BY <1>1, <1>2, <1>3 DEF BrokerNext

LEMMA AlwaysFeedInv == BrokerSpec => []FeedInv
BY InitFeedInv, NextFeedInv, PTL DEF BrokerSpec

LEMMA FeedInvOrders ==
  ASSUME FeedInv PROVE DeliveredInOrder
<1>1. SUFFICES ASSUME NEW c \in Channel
               PROVE  Ordered(Given(c), log, since[c], Len(log))
  BY DEF DeliveredInOrder, Ordered
<1>2. Ordered(Given(c), log, since[c], Visited(c))
  BY DEF FeedInv, Delivery
<1>3. /\ since[c] \in Nat /\ Len(log) \in Nat
      /\ Visited(c) \in Nat /\ Visited(c) <= Len(log)
  BY FeedTypes, VisitedType
<1>4. QED
  BY <1>2, <1>3, OrderedWiden

LEMMA FeedInvLoses ==
  ASSUME FeedInv PROVE LossNeedsBacklog
<1>1. SUFFICES ASSUME NEW c \in subs \ {Nil}
               PROVE  Backlog(ToSet(Given(c)), log, since[c], Visited(c))
  BY DEF LossNeedsBacklog, Backlog, Behind
<1>2. c \in Channel
  BY DEF FeedInv, BrokerTypeInv, TypeOK
<1>3. QED
  BY <1>2 DEF FeedInv, Delivery

(* Every subscriber is given the messages in the order the loop took them, *)
(* each once and none from before it registered, whatever callers do.      *)
THEOREM SubscribersSeeOrder == BrokerSpec => []DeliveredInOrder
<1>1. FeedInv => DeliveredInOrder
  BY FeedInvOrders
<1>2. QED
  BY <1>1, AlwaysFeedInv, PTL

(* A registered channel misses a message only when it was given SubCap     *)
(* others of those before it since it registered.                          *)
THEOREM LossIsBacklog == BrokerSpec => []LossNeedsBacklog
<1>1. FeedInv => LossNeedsBacklog
  BY FeedInvLoses
<1>2. QED
  BY <1>1, AlwaysFeedInv, PTL

-----------------------------------------------------------------------------
(* The broker implements ReleaseFeed.  The four variables of the feed:     *)
FeedMember  == subs \ {Nil}
FeedOffered == [c \in Channel |-> IF c \in subs THEN Visited(c) ELSE 0]
FeedQueue   == [c \in Channel |-> Real(buf[c])]

\* A step that keeps the log, the members and what they hold is a stutter.
LEMMA FeedStutter ==
  ASSUME log' = log,
         \A c \in Channel : c \in subs' <=> c \in subs,
         subs' \subseteq Channel \cup {Nil}, subs \subseteq Channel \cup {Nil},
         \A c \in Channel : c \in subs => Visited(c)' = Visited(c),
         \A c \in Channel : Real(buf'[c]) = Real(buf[c])
  PROVE  UNCHANGED Feed!vars
<1>1. FeedMember' = FeedMember
  BY DEF FeedMember
<1>2. FeedOffered' = FeedOffered
  BY DEF FeedOffered
<1>3. FeedQueue' = FeedQueue
  BY DEF FeedQueue
<1>4. QED
  BY <1>1, <1>2, <1>3 DEF Feed!vars, FeedMember, FeedOffered, FeedQueue

LEMMA MembersAreChannels ==
  ASSUME FeedInv PROVE subs \subseteq Channel \cup {Nil}
BY DEF FeedInv, BrokerTypeInv, TypeOK

\* The steps that leave the feed alone.
LEMMA QuietStepStutters ==
  ASSUME FeedInv, FeedInv',
         \/ StartLoop \/ SelectSubClosed \/ SelectUnsubClosed \/ SelectStop
         \/ SelectBroadcastClosed
         \/ \E c \in Channel \cup {Nil} : CloseSub(c)
         \/ StopFlag \/ StopClose
         \/ \E c \in Channel : \/ SubscribeCheck(c) \/ SubscribeSend(c)
                               \/ UnsubscribeCheck(c) \/ UnsubscribeSend(c)
         \/ \E m \in Message : BroadcastCheck(m) \/ BroadcastSend(m)
         \/ UNCHANGED brokerVars
  PROVE  UNCHANGED Feed!vars
<1>1. log' = log /\ buf' = buf
  BY DEF StartLoop, SelectSubClosed, SelectUnsubClosed, SelectStop,
     SelectBroadcastClosed, CloseSub, StopFlag, StopClose, SubscribeCheck,
     SubscribeSend, UnsubscribeCheck, UnsubscribeSend, BroadcastCheck, BroadcastSend,
     brokerVars
<1>2. \A c \in Channel : c \in subs' <=> c \in subs
  BY NilIsNoMessage DEF FeedInv, StartLoop, SelectSubClosed, SelectUnsubClosed, SelectStop,
     SelectBroadcastClosed, CloseSub, StopFlag, StopClose, SubscribeCheck,
     SubscribeSend, UnsubscribeCheck, UnsubscribeSend, BroadcastCheck, BroadcastSend,
     brokerVars, startVars
<1>3. \/ loop' = loop /\ msg' = msg /\ todo' = todo
      \/ loop # "fanout" /\ (loop' = "fanout" => msg' = Nil)
  BY DEF StartLoop, SelectSubClosed, SelectUnsubClosed, SelectStop,
     SelectBroadcastClosed, BeginFanout, CloseSub, StopFlag, StopClose, SubscribeCheck,
     SubscribeSend, UnsubscribeCheck, UnsubscribeSend, BroadcastCheck, BroadcastSend,
     brokerVars, startVars
<1>4. \A c \in Channel : Visited(c)' = Visited(c)
  BY <1>1, <1>3 DEF Visited
<1>5. subs \subseteq Channel \cup {Nil} /\ subs' \subseteq Channel \cup {Nil}
  BY MembersAreChannels DEF FeedInv, BrokerTypeInv, TypeOK
<1>6. QED
  BY <1>1, <1>2, <1>4, <1>5, FeedStutter

LEMMA SelectSubJoins ==
  ASSUME FeedInv, SelectSub
  PROVE  \E c \in Channel : Feed!Join(c)
<1>0. Head(subC) \in Channel
  BY FeedTypes, HeadTailProperties DEF SelectSub
<1> PICK c \in Channel : c = Head(subC)
  BY <1>0
<1>1. /\ subC # <<>> /\ loop = "select" /\ loop' = loop /\ subs' = subs \cup {c}
      /\ log' = log /\ buf' = buf
  BY DEF SelectSub
<1>2. c \in Channel /\ c = subC[1] /\ 1 \in 1..Len(subC)
  BY <1>1, FeedTypes, HeadTailProperties, EmptySeq
<1>3. c \notin subs /\ c # Nil
  BY <1>2, NilIsNoMessage DEF FeedInv, RegisteredOnce, Unregistered
<1>4. \A d \in Channel : Visited(d) = Len(log) /\ Visited(d)' = Len(log)
  BY <1>1 DEF Visited
<1>5. FeedMember' = FeedMember \cup {c} /\ c \notin FeedMember
  BY <1>1, <1>3 DEF FeedMember
<1>6. FeedOffered' = [FeedOffered EXCEPT ![c] = Len(log)]
  BY <1>1, <1>2, <1>3, <1>4 DEF FeedOffered
<1>7. FeedQueue' = FeedQueue
  BY <1>1 DEF FeedQueue
<1>8. Feed!Join(c)
  BY <1>1, <1>5, <1>6, <1>7 DEF Feed!Join, FeedMember, FeedOffered, FeedQueue
<1>9. QED
  BY <1>8

\* Taking a channel that is no longer in the map from unsubC is no step.
LEMMA SelectUnsubLeaves ==
  ASSUME FeedInv, FeedInv', SelectUnsub
  PROVE  (\E c \in Channel : Feed!Leave(c)) \/ UNCHANGED Feed!vars
<1>0. Head(unsubC) \in Channel
  <2>1. unsubC \in Seq(Channel)
    BY DEF FeedInv, BrokerTypeInv, TypeOK
  <2>2. QED
    BY <2>1, HeadTailProperties DEF SelectUnsub
<1> PICK c \in Channel : c = Head(unsubC)
  BY <1>0
<1>1. /\ unsubC # <<>> /\ loop = "select" /\ loop' = loop /\ subs' = subs \ {c}
      /\ log' = log /\ buf' = buf
  BY DEF SelectUnsub, Forget
<1>2. c # Nil
  BY NilIsNoMessage
<1>3. \A d \in Channel : Visited(d) = Len(log) /\ Visited(d)' = Len(log)
  BY <1>1 DEF Visited
<1>4. CASE c \in subs
  <2>1. FeedMember' = FeedMember \ {c} /\ c \in FeedMember
    BY <1>1, <1>2, <1>4 DEF FeedMember
  <2>2. FeedOffered' = [FeedOffered EXCEPT ![c] = 0]
    BY <1>1, <1>2, <1>3 DEF FeedOffered
  <2>3. FeedQueue' = FeedQueue
    BY <1>1 DEF FeedQueue
  <2>4. Feed!Leave(c)
    BY <1>1, <2>1, <2>2, <2>3 DEF Feed!Leave, FeedMember, FeedOffered, FeedQueue
  <2>5. QED
    BY <2>4
<1>5. CASE c \notin subs
  <2>1. subs' = subs
    BY <1>1, <1>5
  <2>2. QED
    BY <1>1, <1>3, <2>1, MembersAreChannels, FeedStutter
<1>6. QED
  BY <1>4, <1>5

LEMMA SelectBroadcastPublishes ==
  ASSUME FeedInv, SelectBroadcast
  PROVE  \E m \in Message : Feed!Publish(m)
<1> DEFINE m == Head(broadcastC)
<1>1. /\ broadcastC # <<>> /\ loop = "select" /\ subs' = subs /\ msg' = m
      /\ loop' = (IF subs = {} THEN "select" ELSE "fanout")
      /\ todo' = subs /\ log' = Append(log, m) /\ buf' = buf
  BY DEF SelectBroadcast, TakeBroadcast, BeginFanout
<1>2. m \in Message /\ m # Nil
  BY <1>1, FeedTypes, HeadTailProperties, NilIsNoMessage
<1> HIDE DEF m
<1>3. Len(log') = Len(log) + 1 /\ Len(log) \in Nat
  BY <1>1, <1>2, FeedTypes, AppendProperties
<1>4. \A c \in Channel : c \in subs => Visited(c) = Len(log) /\ Visited(c)' = Len(log)
  BY <1>1, <1>2, <1>3 DEF Visited
<1>5. FeedMember' = FeedMember
  BY <1>1 DEF FeedMember
<1>6. FeedOffered' = FeedOffered
  BY <1>1, <1>4 DEF FeedOffered
<1>7. FeedQueue' = FeedQueue
  BY <1>1 DEF FeedQueue
<1>8. \A c \in FeedMember : FeedOffered[c] = Len(log)
  <2>1. FeedMember \subseteq Channel /\ FeedMember \subseteq subs
    BY MembersAreChannels DEF FeedMember
  <2>2. QED
    BY <1>4, <2>1 DEF FeedOffered
<1>9. Feed!Publish(m)
  BY <1>1, <1>5, <1>6, <1>7, <1>8 DEF Feed!Publish, FeedMember, FeedOffered, FeedQueue
<1>10. QED
  BY <1>2, <1>9

\* A turn of the fan-out is an offer to a member, unless there is nothing
\* to send or nobody to send it to.
LEMMA FanoutOffers ==
  ASSUME FeedInv, FeedInv', NEW c \in Channel \cup {Nil}, Fanout(c)
  PROVE  (\E d \in Channel : Feed!Offer(d)) \/ UNCHANGED Feed!vars
<1>1. /\ log' = log /\ subs' = subs /\ msg' = msg /\ loop = "fanout" /\ c \in todo
      /\ subs \subseteq Channel \cup {Nil} /\ todo \subseteq subs
  BY MembersAreChannels, FeedTypes DEF Fanout
<1>2. buf \in [Channel -> Seq(Entry)] /\ msg \in Entry
  BY FeedTypes DEF Entry
<1>3. CASE c \in closed
  <2>1. loop' = loop /\ todo' = todo /\ buf' = buf
    BY <1>3 DEF Fanout
  <2>2. \A d \in Channel : Visited(d)' = Visited(d)
    BY <1>1, <2>1 DEF Visited
  <2>3. QED
    BY <1>1, <2>1, <2>2, FeedStutter
<1>4. CASE c \notin closed
  <2>1. /\ todo' = todo \ {c}
        /\ loop' = (IF todo = {c} THEN "select" ELSE "fanout")
        /\ buf' = (IF ReadyToTake(c) THEN [buf EXCEPT ![c] = Append(@, msg)] ELSE buf)
    BY <1>4 DEF Fanout
  <2>2. \A d \in Channel : d # c => Visited(d)' = Visited(d) /\ buf'[d] = buf[d]
    BY <1>1, <1>2, <2>1 DEF Visited
  <2>3. CASE c = Nil
    BY <1>1, <2>2, <2>3, FeedStutter, NilIsNoMessage
  <2>4. CASE c \in Channel /\ msg = Nil
    <3>1. Visited(c)' = Visited(c)
      BY <1>1, <2>4 DEF Visited
    <3>2. Real(buf'[c]) = Real(buf[c])
      <4>1. CASE ReadyToTake(c)
        <5>1. PICK n \in 0..Len(buf[c]) : NilsFrom(buf[c], n)
          BY <2>4 DEF FeedInv, NilsLast
        <5>2. buf'[c] = Append(buf[c], Nil) /\ buf[c] \in Seq(Entry)
          BY <1>2, <2>1, <2>4, <4>1
        <5>3. QED
          BY <5>1, <5>2, RealNil
      <4>2. CASE ~ReadyToTake(c)
        BY <2>1, <4>2
      <4>3. QED
        BY <4>1, <4>2
    <3>3. \A d \in Channel : Visited(d)' = Visited(d) /\ Real(buf'[d]) = Real(buf[d])
      BY <2>2, <3>1, <3>2
    <3>4. QED
      BY <1>1, <3>3, FeedStutter
  <2>5. CASE c \in Channel /\ msg # Nil
    <3>1. /\ Len(log) > 0 /\ msg = log[Len(log)] /\ Len(log) \in Nat
      BY <1>1, <2>5, FeedTypes DEF FeedInv, FanoutIsLast
    <3>2. /\ Visited(c) = Len(log) - 1 /\ Visited(c)' = Len(log)
          /\ Visited(c) + 1 = Len(log)
      BY <1>1, <2>1, <2>5, <3>1 DEF Visited
    <3>3. /\ NilsFrom(buf[c], Len(buf[c])) /\ Real(buf[c]) = buf[c] /\ msg \in Message
          /\ buf[c] \in Seq(Entry) /\ c # Nil
      BY <1>1, <1>2, <2>5, NoNilYet, NilIsNoMessage
    <3>4. Real(buf'[c]) = IF Len(buf[c]) < SubCap THEN Append(buf[c], msg) ELSE buf[c]
      <4>1. CASE Len(buf[c]) < SubCap
        <5>1. buf'[c] = Append(buf[c], msg)
          BY <1>2, <2>1, <2>5, <3>3, <4>1 DEF ReadyToTake
        <5>2. QED
          BY <3>3, <4>1, <5>1, RealAppend
      <4>2. CASE ~(Len(buf[c]) < SubCap)
        BY <2>1, <3>3, <4>2 DEF ReadyToTake
      <4>3. QED
        BY <4>1, <4>2
    <3>5. c \in FeedMember /\ FeedMember' = FeedMember
      BY <1>1, <3>3 DEF FeedMember
    <3>6. FeedOffered[c] = Visited(c) /\ FeedOffered \in [Channel -> {FeedOffered[d] : d \in Channel}]
      BY <1>1, <2>5 DEF FeedOffered
    <3>7. FeedOffered' = [FeedOffered EXCEPT ![c] = FeedOffered[c] + 1]
      BY <1>1, <2>2, <2>5, <3>2 DEF FeedOffered
    <3>8. FeedQueue[c] = buf[c]
      BY <2>5, <3>3 DEF FeedQueue
    <3>9. FeedQueue' = [FeedQueue EXCEPT ![c] =
                          IF Len(FeedQueue[c]) < SubCap
                          THEN Append(FeedQueue[c], log[FeedOffered[c] + 1])
                          ELSE FeedQueue[c]]
      <4>1. log[FeedOffered[c] + 1] = msg
        BY <3>1, <3>2, <3>6
      <4>2. QED
        BY <2>2, <2>5, <3>4, <3>8, <4>1 DEF FeedQueue
    <3>10. FeedOffered[c] < Len(log)
      BY <3>1, <3>2, <3>6
    <3>11. Feed!Offer(c)
      BY <1>1, <3>5, <3>7, <3>9, <3>10 DEF Feed!Offer, FeedMember, FeedOffered, FeedQueue
    <3>12. QED
      BY <2>5, <3>11
  <2>6. QED
    BY <2>3, <2>4, <2>5
<1>5. QED
  BY <1>3, <1>4

LEMMA ReceiveTakes ==
  ASSUME FeedInv, FeedInv', NEW c \in Channel, NEW v \in Message \cup {Nil}, Receive(c, v)
  PROVE  Feed!Take(c) \/ UNCHANGED Feed!vars
<1>1. /\ log' = log /\ subs' = subs /\ loop' = loop /\ msg' = msg /\ todo' = todo
      /\ subs \subseteq Channel \cup {Nil}
      /\ \/ buf[c] # <<>> /\ v = Head(buf[c]) /\ buf' = [buf EXCEPT ![c] = Tail(@)]
         \/ buf' = buf
  BY MembersAreChannels DEF Receive, startVars
<1>2. \A d \in Channel : Visited(d)' = Visited(d)
  BY <1>1 DEF Visited
<1>3. CASE buf' = buf
  BY <1>1, <1>2, <1>3, FeedStutter
<1>4. CASE buf[c] # <<>> /\ v = Head(buf[c]) /\ buf' = [buf EXCEPT ![c] = Tail(@)]
  <2>1. buf \in [Channel -> Seq(Entry)]
    BY FeedTypes
  <2>2. /\ buf'[c] = Tail(buf[c]) /\ buf[c] \in Seq(Entry)
        /\ \A d \in Channel : d # c => buf'[d] = buf[d]
    BY <1>4, <2>1
  <2>3. PICK n \in 0..Len(buf[c]) : NilsFrom(buf[c], n)
    BY DEF FeedInv, NilsLast
  <2>4. CASE v = Nil
    <3>1. Real(buf'[c]) = Real(buf[c])
      BY <1>4, <2>2, <2>3, <2>4, RealTail
    <3>2. \A d \in Channel : Real(buf'[d]) = Real(buf[d])
      BY <2>2, <3>1
    <3>3. QED
      BY <1>1, <1>2, <3>2, FeedStutter
  <2>5. CASE v # Nil
    <3>1. Real(buf[c]) # <<>> /\ Real(buf'[c]) = Tail(Real(buf[c]))
      BY <1>4, <2>2, <2>3, <2>5, RealTail
    <3>2. FeedQueue[c] # <<>> /\ FeedQueue' = [FeedQueue EXCEPT ![c] = Tail(FeedQueue[c])]
      BY <2>2, <3>1 DEF FeedQueue
    <3>3. FeedMember' = FeedMember /\ FeedOffered' = FeedOffered
      BY <1>1, <1>2 DEF FeedMember, FeedOffered
    <3>4. Feed!Take(c)
      BY <1>1, <3>2, <3>3 DEF Feed!Take, FeedMember, FeedOffered, FeedQueue
    <3>5. QED
      BY <3>4
  <2>6. QED
    BY <2>4, <2>5
<1>5. QED
  BY <1>1, <1>3, <1>4

LEMMA BrokerStepIsFeedStep ==
  FeedInv /\ FeedInv' /\ [BrokerNext]_brokerVars => [Feed!Next]_(Feed!vars)
<1> SUFFICES ASSUME FeedInv, FeedInv', [BrokerNext]_brokerVars
             PROVE  Feed!Next \/ UNCHANGED Feed!vars
  OBVIOUS
<1> USE DEF Feed!Next
<1>1. CASE Loop
  <2>1. CASE SelectSub
    BY <2>1, SelectSubJoins
  <2>2. CASE SelectUnsub
    BY <2>2, SelectUnsubLeaves
  <2>3. CASE SelectBroadcast
    BY <2>3, SelectBroadcastPublishes
  <2>4. CASE \E c \in Channel \cup {Nil} : Fanout(c)
    BY <2>4, FanoutOffers
  <2>5. CASE \/ StartLoop \/ SelectSubClosed \/ SelectUnsubClosed \/ SelectStop
             \/ SelectBroadcastClosed \/ \E c \in Channel \cup {Nil} : CloseSub(c)
    BY <2>5, QuietStepStutters
  <2>6. QED
    BY <1>1, <2>1, <2>2, <2>3, <2>4, <2>5 DEF Loop
<1>2. CASE Methods
  <2>1. CASE \E c \in Channel, v \in Message \cup {Nil} : Receive(c, v)
    BY <2>1, ReceiveTakes
  <2>2. CASE \/ StopFlag \/ StopClose
             \/ \E c \in Channel : \/ SubscribeCheck(c) \/ SubscribeSend(c)
                                   \/ UnsubscribeCheck(c) \/ UnsubscribeSend(c)
             \/ \E m \in Message : BroadcastCheck(m) \/ BroadcastSend(m)
    BY <2>2, QuietStepStutters
  <2>3. QED
    BY <1>2, <2>1, <2>2 DEF Methods
<1>3. CASE UNCHANGED brokerVars
  BY <1>3, QuietStepStutters
<1>4. QED
  BY <1>1, <1>2, <1>3 DEF BrokerNext

LEMMA BrokerInitIsFeedInit == BrokerInit => Feed!Init
<1> SUFFICES ASSUME BrokerInit PROVE Feed!Init
  OBVIOUS
<1>1. subs = {} /\ log = <<>> /\ \A c \in Channel : buf[c] = <<>>
  BY DEF BrokerInit
<1>2. Real(<<>>) = <<>>
  BY RealEmpty
<1>3. QED
  BY <1>1, <1>2 DEF Feed!Init

(* The broker is a feed, whatever its callers do: an entry goes to every   *)
(* member in order or is lost to a full queue, joining shows nothing of    *)
(* the past, and a reader can only take what it was offered.               *)
THEOREM BrokerImplementsFeed == BrokerSpec => FeedSpec
BY AlwaysFeedInv, BrokerInitIsFeedInit, BrokerStepIsFeedStep, PTL
   DEF BrokerSpec, FeedSpec, Feed!Spec

-----------------------------------------------------------------------------
(* Once subC has accepted a channel the loop will know it, knows it or has *)
(* closed it, and a loop that ends closes all it knows.                    *)
Known(c) == (\E i \in 1..Len(subC) : subC[i] = c) \/ c \in subs \/ c \in closed

Accounted ==
  /\ \A c \in Channel : caller[c] \in {"open", "unsubscribing", "left"} => Known(c)
  /\ loop \in {"closing", "done"} => subs \subseteq todo \cup closed \cup {Nil}

\* A step that forgets nobody and changes no request to subscribe.
LEMMA AccountedFrame ==
  ASSUME Accounted, subC' = subC, caller' = caller, closed \subseteq closed',
         \A c \in Channel : c \in subs => c \in subs' \/ c \in closed',
         loop' \in {"closing", "done"} => subs' \subseteq todo' \cup closed' \cup {Nil}
  PROVE  Accounted'
<1>1. \A c \in Channel : Known(c) => Known(c)'
  BY DEF Known
<1>2. QED
  BY <1>1 DEF Accounted

LEMMA LoopAccounted == FeedInv /\ Accounted /\ Loop => Accounted'
<1> SUFFICES ASSUME FeedInv, Accounted, Loop PROVE Accounted'
  OBVIOUS
<1>1. CASE StartLoop
  BY <1>1, AccountedFrame DEF StartLoop, FeedInv, clients, requests
<1>2. CASE SelectSub
  <2>1. /\ subC # <<>> /\ subC' = Tail(subC) /\ subs' = subs \cup {Head(subC)}
        /\ closed' = closed /\ caller' = caller /\ loop' = "select"
    BY <1>2 DEF SelectSub, clients
  <2>2. /\ Head(subC) = subC[1] /\ Len(subC') = Len(subC) - 1
        /\ \A i \in 1..Len(subC') : subC'[i] = subC[i + 1]
        /\ Len(subC) \in Nat
    BY <2>1, FeedTypes, HeadTailProperties
  <2>3. ASSUME NEW c \in Channel, Known(c)
        PROVE  Known(c)'
    <3>1. ASSUME NEW i \in 1..Len(subC), subC[i] = c
          PROVE  Known(c)'
      <4>1. CASE i = 1
        BY <2>1, <2>2, <3>1, <4>1 DEF Known
      <4>2. CASE i # 1
        <5>1. i - 1 \in 1..Len(subC') /\ (i - 1) + 1 = i
          BY <2>2, <4>2
        <5>2. QED
          BY <2>2, <3>1, <5>1 DEF Known
      <4>3. QED
        BY <4>1, <4>2
    <3>2. QED
      BY <2>1, <2>3, <3>1 DEF Known
  <2>4. QED
    BY <2>1, <2>3 DEF Accounted
<1>3. CASE SelectSubClosed
  BY <1>3, AccountedFrame DEF SelectSubClosed, clients, requests
<1>4. CASE SelectUnsub
  BY <1>4, AccountedFrame DEF SelectUnsub, Forget, clients
<1>5. CASE SelectUnsubClosed
  BY <1>5, AccountedFrame, NilIsNoMessage DEF SelectUnsubClosed, clients, requests
<1>6. CASE SelectBroadcast
  BY <1>6, AccountedFrame DEF SelectBroadcast, TakeBroadcast, BeginFanout, clients
<1>7. CASE SelectBroadcastClosed
  BY <1>7, AccountedFrame DEF SelectBroadcastClosed, BeginFanout, clients, requests
<1>8. CASE SelectStop
  BY <1>8, AccountedFrame DEF SelectStop, clients, requests
<1>9. ASSUME NEW c \in Channel \cup {Nil}, Fanout(c)
      PROVE  Accounted'
  BY <1>9, AccountedFrame DEF Fanout, clients, requests
<1>10. ASSUME NEW c \in Channel \cup {Nil}, CloseSub(c)
       PROVE  Accounted'
  <2>1. subs \subseteq todo \cup closed \cup {Nil}
    BY <1>10 DEF CloseSub, Accounted
  <2>2. QED
    BY <1>10, <2>1, AccountedFrame DEF CloseSub, clients, requests
<1>11. QED
  BY <1>1, <1>2, <1>3, <1>4, <1>5, <1>6, <1>7, <1>8, <1>9, <1>10 DEF Loop

LEMMA MethodsAccounted == FeedInv /\ Accounted /\ Methods => Accounted'
<1> SUFFICES ASSUME FeedInv, Accounted, Methods PROVE Accounted'
  OBVIOUS
<1>1. CASE \/ StopFlag \/ StopClose
           \/ \E m \in Message : BroadcastCheck(m) \/ BroadcastSend(m)
           \/ \E c \in Channel, v \in Message \cup {Nil} : Receive(c, v)
  <2>1. /\ subC' = subC /\ caller' = caller /\ closed' = closed /\ subs' = subs
        /\ loop' = loop /\ todo' = todo
    BY <1>1 DEF StopFlag, StopClose, BroadcastCheck, BroadcastSend, Receive,
       startVars, requests, clients
  <2>2. QED
    BY <2>1 DEF Accounted, Known
<1>2. ASSUME NEW c \in Channel,
             SubscribeCheck(c) \/ UnsubscribeCheck(c) \/ UnsubscribeSend(c)
      PROVE  Accounted'
  <2>1. /\ subC' = subC /\ closed' = closed /\ subs' = subs /\ loop' = loop /\ todo' = todo
    BY <1>2 DEF SubscribeCheck, UnsubscribeCheck, UnsubscribeSend, startVars, requests
  <2>2. ASSUME NEW d \in Channel, caller'[d] \in {"open", "unsubscribing", "left"}
        PROVE  caller[d] \in {"open", "unsubscribing", "left"}
    BY <1>2, <2>2, FeedTypes DEF SubscribeCheck, UnsubscribeCheck, UnsubscribeSend
  <2>3. QED
    BY <2>1, <2>2 DEF Accounted, Known
<1>3. ASSUME NEW c \in Channel, SubscribeSend(c)
      PROVE  Accounted'
  <2>1. closed' = closed /\ subs' = subs /\ loop' = loop /\ todo' = todo
    BY <1>3 DEF SubscribeSend, startVars
  <2>2. CASE subC' = subC /\ caller' = caller
    BY <2>1, <2>2 DEF Accounted, Known
  <2>3. CASE subC' = Append(subC, c) /\ caller' = [caller EXCEPT ![c] = "open"]
    <3>1. /\ Len(subC') = Len(subC) + 1 /\ Len(subC) \in Nat
          /\ \A i \in 1..Len(subC) : subC'[i] = subC[i]
          /\ subC'[Len(subC) + 1] = c
      BY <2>3, FeedTypes, AppendProperties
    <3>2. 1..Len(subC) \subseteq 1..Len(subC') /\ Len(subC) + 1 \in 1..Len(subC')
      BY <3>1
    <3>3. Known(c)' /\ \A d \in Channel : Known(d) => Known(d)'
      BY <2>1, <3>1, <3>2 DEF Known
    <3>4. \A d \in Channel : d # c => caller'[d] = caller[d]
      BY <2>3, FeedTypes
    <3>5. QED
      BY <2>1, <3>3, <3>4 DEF Accounted
  <2>4. QED
    BY <1>3, <2>2, <2>3 DEF SubscribeSend
<1>4. QED
  BY <1>1, <1>2, <1>3 DEF Methods

LEMMA InitAccounted == BrokerInit => Accounted
BY DEF BrokerInit, Accounted

LEMMA NextAccounted == FeedInv /\ Accounted /\ [BrokerNext]_brokerVars => Accounted'
<1>1. FeedInv /\ Accounted /\ BrokerNext => Accounted'
  BY LoopAccounted, MethodsAccounted DEF BrokerNext
<1>2. Accounted /\ UNCHANGED brokerVars => Accounted'
  BY DEF Accounted, Known, brokerVars, startVars, requests, clients
<1>3. QED
  BY <1>1, <1>2

LEMMA AlwaysAccounted == BrokerSpec => [](FeedInv /\ Accounted)
BY InitFeedInv, NextFeedInv, InitAccounted, NextAccounted, PTL DEF BrokerSpec
=============================================================================
