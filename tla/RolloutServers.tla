---------------------------- MODULE RolloutServers ----------------------------
(***************************************************************************)
(* The rollout servers the load balancer chooses from and the weights are  *)
(* sent to, one per replica, and the versions of the weights.              *)
(***************************************************************************)
EXTENDS Naturals, FiniteSets

CONSTANTS
    Servers,               \* the servers, in the order of server_actor_ids
    MaxVersion             \* bound: versions sent after version 0

ASSUME ServersAssumption ==
    /\ Servers \subseteq Nat /\ Servers # {} /\ IsFiniteSet(Servers)
    /\ MaxVersion \in Nat

Versions == 0 .. MaxVersion
=============================================================================
