--------------------------- MODULE EventDelivery ---------------------------
(***************************************************************************)
(* What the event bus promises about one copy of an event, that is, about  *)
(* an event and one subscription it matches: it is accepted into the       *)
(* subscription's queue or its rejection is told to somebody; an accepted  *)
(* copy leaves the queue at most once, towards a handler or, evicted, to   *)
(* make room; and no copy ever disappears or comes back.                   *)
(***************************************************************************)
CONSTANTS Receivers, Events

Copies == Receivers \X Events

VARIABLE copy  \* the state of each copy

States == {"none", "offered", "queued", "taken", "told", "evicted"}

Init == copy = [c \in Copies |-> "none"]

Move(c, from, to) ==
  /\ copy[c] = from
  /\ copy' = [copy EXCEPT ![c] = to]

\* One Publish offers all the copies of its event at once.
Offer(e) ==
  \E R \in SUBSET Receivers :
    /\ \A r \in R : copy[<<r, e>>] = "none"
    /\ copy' = [c \in Copies |-> IF c \in R \X {e} THEN "offered" ELSE copy[c]]

Accept(c) == Move(c, "offered", "queued")
Reject(c) == Move(c, "offered", "told")
Deliver(c) == Move(c, "queued", "taken")
Evict(c) == Move(c, "queued", "evicted")

Next ==
  \/ \E e \in Events : Offer(e)
  \/ \E c \in Copies : Accept(c) \/ Reject(c) \/ Deliver(c) \/ Evict(c)

Spec == Init /\ [][Next]_copy
=============================================================================
