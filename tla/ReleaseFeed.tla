----------------------------- MODULE ReleaseFeed -----------------------------
(***************************************************************************)
(* What a release stream promises its reader, stated without a broker: a   *)
(* log that only grows, and for each member a bounded queue that is fed    *)
(* from the log in order.  An entry that finds a member's queue full is    *)
(* lost to that member and to nobody else; a member that joins sees        *)
(* nothing of what was published before; one that leaves keeps what it     *)
(* had been offered.                                                       *)
(***************************************************************************)
EXTENDS Naturals, Sequences

CONSTANTS Reader,    \* the possible members
          Entry,     \* what can be published
          Capacity   \* the length of a member's queue

VARIABLES feed,      \* everything published, in order
          member,    \* the readers the feed is offered to
          offered,   \* how much of the feed each member has been offered
          queue      \* what each reader was given and has not taken

vars == <<feed, member, offered, queue>>

Init ==
  /\ feed = <<>>
  /\ member = {}
  /\ offered = [r \in Reader |-> 0]
  /\ queue = [r \in Reader |-> <<>>]

\* The next entry is published only when everyone was offered the last one.
Publish(e) ==
  /\ \A r \in member : offered[r] = Len(feed)
  /\ feed' = Append(feed, e)
  /\ UNCHANGED <<member, offered, queue>>

Join(r) ==
  /\ r \notin member
  /\ member' = member \cup {r}
  /\ offered' = [offered EXCEPT ![r] = Len(feed)]
  /\ UNCHANGED <<feed, queue>>

Offer(r) ==
  /\ r \in member
  /\ offered[r] < Len(feed)
  /\ offered' = [offered EXCEPT ![r] = @ + 1]
  /\ queue' = [queue EXCEPT ![r] = IF Len(@) < Capacity
                                   THEN Append(@, feed[offered[r] + 1])
                                   ELSE @]
  /\ UNCHANGED <<feed, member>>

Take(r) ==
  /\ queue[r] # <<>>
  /\ queue' = [queue EXCEPT ![r] = Tail(@)]
  /\ UNCHANGED <<feed, member, offered>>

Leave(r) ==
  /\ r \in member
  /\ member' = member \ {r}
  /\ offered' = [offered EXCEPT ![r] = 0]
  /\ UNCHANGED <<feed, queue>>

Next ==
  \/ \E e \in Entry : Publish(e)
  \/ \E r \in Reader : Join(r) \/ Offer(r) \/ Take(r) \/ Leave(r)

Spec == Init /\ [][Next]_vars
=============================================================================
