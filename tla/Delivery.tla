------------------------------ MODULE Delivery ------------------------------
(***************************************************************************)
(* What the publication pipeline promises, without rows, queues, poller or *)
(* consumer: a video that is accepted stays open until both receivers have *)
(* it, it may be handed over any number of times while it is open, and     *)
(* once it is closed nothing of it comes back.  Module Outbox implements   *)
(* this specification.                                                     *)
(***************************************************************************)
CONSTANTS Videos,
          Forwarding    \* there is a second receiver

VARIABLES accepted,     \* the videos that were accepted
          open,         \* those that may still be handed over
          received,     \* those the first receiver has, the timeline
          forwarded,    \* those the second receiver has, the fanout
          missed        \* those of which something was lost on the way

deliveryVars == <<accepted, open, received, forwarded, missed>>

DeliveryInit ==
    /\ accepted = {}
    /\ open = {}
    /\ received = {}
    /\ forwarded = {}
    /\ missed = {}

Accept(v) ==
    /\ v \notin accepted
    /\ accepted' = accepted \cup {v}
    /\ open' = open \cup {v}
    /\ UNCHANGED <<received, forwarded, missed>>

Receive(v) ==
    /\ v \in open
    /\ received' = received \cup {v}
    /\ UNCHANGED <<accepted, open, forwarded, missed>>

Forward(v) ==
    /\ Forwarding
    /\ v \in open
    /\ forwarded' = forwarded \cup {v}
    /\ UNCHANGED <<accepted, open, received, missed>>

Miss(v) ==
    /\ v \in open
    /\ missed' = missed \cup {v}
    /\ UNCHANGED <<accepted, open, received, forwarded>>

\* Delivered to everybody, or lost on the way to one of them.
Settled(v) == v \in missed \/ (v \in received /\ (Forwarding => v \in forwarded))

Close(v) ==
    /\ v \in open
    /\ Settled(v)
    /\ open' = open \ {v}
    /\ UNCHANGED <<accepted, received, forwarded, missed>>

DeliveryNext ==
    \E v \in Videos : Accept(v) \/ Receive(v) \/ Forward(v) \/ Miss(v) \/ Close(v)

DeliverySpec == DeliveryInit /\ [][DeliveryNext]_deliveryVars
=============================================================================
