--------------------------- MODULE UniformBroadcast ---------------------------
(***************************************************************************)
(* What a uniform reliable broadcast promises the layer above it, whatever *)
(* packets, relays and acknowledgements it is made of: a process delivers  *)
(* only what its source has broadcast, and each message at most once.      *)
(* Messages come in any order.                                             *)
(***************************************************************************)
EXTENDS Sequences

CONSTANTS Proc, Text

VARIABLES requested,  \* the <<source, text>> that have been broadcast
          delivered   \* delivered[p]: what p has delivered, in order

broadcastVars == <<requested, delivered>>

Delivered(p) == {delivered[p][i] : i \in DOMAIN delivered[p]}

BroadcastInit == /\ requested = {}
                 /\ delivered = [p \in Proc |-> <<>>]

Request(p, t) == /\ requested' = requested \cup {<<p, t>>}
                 /\ UNCHANGED delivered

Deliver(p, d) == /\ d \in requested
                 /\ d \notin Delivered(p)
                 /\ delivered' = [delivered EXCEPT ![p] = Append(@, d)]
                 /\ UNCHANGED requested

BroadcastNext == \E p \in Proc : \/ \E t \in Text : Request(p, t)
                                 \/ \E d \in requested : Deliver(p, d)

BroadcastSpec == BroadcastInit /\ [][BroadcastNext]_broadcastVars

=============================================================================
