----------------------------- MODULE LoadBalancer -----------------------------
(***************************************************************************)
(* The GlobalRequestLoadBalancer actor and the calls the agent loop        *)
(* workers make to it (verl/experimental/agent_loop/agent_loop.py).        *)
(*                                                                         *)
(* A conversation takes a lease on a server for each of its generation     *)
(* calls.  It goes back to the server it used before while the LRU cache   *)
(* still holds its entry, and to the least loaded server otherwise.        *)
(* release_server is sent without waiting for its answer; calls of one     *)
(* worker reach the actor in order, so a conversation's release comes      *)
(* before its next acquire.                                                *)
(***************************************************************************)
EXTENDS RolloutServers

CONSTANTS
    Conversations,
    CacheSize,             \* max_cache_size of the LRU cache
    None

ASSUME BalancerAssumption ==
    /\ IsFiniteSet(Conversations)
    /\ CacheSize \in Nat \ {0}
    /\ None \notin Nat

VARIABLES
    inflight,              \* _inflight_requests
    route,                 \* _request_id_to_server: the server of a cached conversation
    age,                   \* rank in the LRU cache, 1 the latest used, 0 not cached
    lease                  \* the server a conversation has acquired and not yet released

balancerVars == <<inflight, route, age, lease>>

BalancerTypeOK ==
    /\ inflight \in [Servers -> Nat]
    /\ route \in [Conversations -> Servers \union {None}]
    /\ age \in [Conversations -> 0 .. CacheSize]
    /\ lease \in [Conversations -> Servers \union {None}]

BalancerInit ==
    /\ inflight = [s \in Servers |-> 0]
    /\ route = [c \in Conversations |-> None]
    /\ age = [c \in Conversations |-> 0]
    /\ lease = [c \in Conversations |-> None]

Cached(c) == age[c] # 0

\* The ranks after c's entry was read or inserted: what was used later than c
\* moves down, and the entry that no longer fits is evicted.
Touched(c) ==
    [d \in Conversations |->
        IF d = c THEN 1
        ELSE IF Cached(d) /\ (Cached(c) => age[d] < age[c])
        THEN IF age[d] < CacheSize THEN age[d] + 1 ELSE 0
        ELSE age[d]]

LeastLoaded == {s \in Servers : \A t \in Servers : inflight[s] <= inflight[t]}

\* Fault: a conversation with a sticky session is not counted again.
CountedNew(c, s) == inflight' = IF Cached(c) THEN inflight ELSE [inflight EXCEPT ![s] = @ + 1]

\* The count of acquire_server.
Counted(c, s) == inflight' = [inflight EXCEPT ![s] = @ + 1]

\* acquire_server: the cached server, or the first of the least loaded ones.
AcquireServer(c) ==
    /\ lease[c] = None
    /\ \E s \in Servers :
        /\ IF Cached(c) THEN s = route[c]
           ELSE s \in LeastLoaded /\ \A t \in LeastLoaded : s <= t
        /\ route' = [route EXCEPT ![c] = s]
        /\ lease' = [lease EXCEPT ![c] = s]
        /\ Counted(c, s)
    /\ age' = Touched(c)

\* release_server.  A release without requests in flight raises in the actor,
\* which nobody waits for, and changes nothing.
ReleaseServer(c) ==
    /\ lease[c] # None
    /\ inflight' = [inflight EXCEPT ![lease[c]] = IF @ > 0 THEN @ - 1 ELSE @]
    /\ lease' = [lease EXCEPT ![c] = None]
    /\ UNCHANGED <<route, age>>
=============================================================================
