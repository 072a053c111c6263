-------------------------- MODULE InOrderDelivery ---------------------------
(***************************************************************************)
(* What the receive side of a media session promises its user, said        *)
(* without a cache, a clock or a sequence number: packets arrive in any    *)
(* order, more than once or not at all; the user gets a strictly ascending *)
(* selection of them. With an arrival the receiver may move a cut forward, *)
(* and then delivers EVERY packet it has up to the cut and has not passed  *)
(* over before.                                                            *)
(***************************************************************************)
EXTENDS Integers, Sequences

CONSTANT Positions  \* the positions of the remote stream that may arrive

VARIABLES
  arrived,   \* the set of positions that have arrived
  delivered  \* the positions given to the user, in order

\* The packets of S that are still deliverable: above everything delivered.
Undelivered(S) ==
  {n \in S : \A i \in DOMAIN delivered : delivered[i] < n}

\* new lists the set S in ascending order, each member once.
ListsInOrder(new, S) ==
  /\ \A i, j \in DOMAIN new : i < j => new[i] < new[j]
  /\ \A i \in DOMAIN new : new[i] \in S
  /\ \A n \in S : \E i \in DOMAIN new : new[i] = n

Init == arrived = {} /\ delivered = <<>>

\* A packet arrives; the packets up to some held one are delivered, or none.
Arrive(n) ==
  /\ arrived' = arrived \cup {n}
  /\ Len(delivered') >= Len(delivered)
  /\ SubSeq(delivered', 1, Len(delivered)) = delivered
  /\ LET held == Undelivered(arrived')
         new  == SubSeq(delivered', Len(delivered) + 1, Len(delivered'))
     IN  \/ new = <<>>
         \/ \E cut \in held : ListsInOrder(new, {m \in held : m <= cut})

Next == \E n \in Positions : Arrive(n)

Spec == Init /\ [][Next]_<<arrived, delivered>>
=============================================================================
