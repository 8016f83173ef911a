------------------------------ MODULE Registry ------------------------------
(***************************************************************************)
(* What the upstream manager of a server node promises, with the rest of   *)
(* the node behind it (server/upstream/manager.go): connections register   *)
(* and deregister, requests are given a registered connection whenever     *)
(* there is one, and other nodes are told how many there are.  The next    *)
(* connection registers or deregisters only once they have been told of    *)
(* the last.  Module Upstream implements it.                               *)
(***************************************************************************)
EXTENDS Integers, FiniteSets

CONSTANTS
    Conns,          \* upstream connections
    Endpoints,      \* endpoint IDs
    EndpointID,     \* EndpointID[c]: the endpoint connection c listens on
    Remote          \* another node of the cluster

VARIABLES
    members,        \* members[e]: the connections registered for endpoint e
    advertised,     \* advertised[e]: how many other nodes are told there are
    selected        \* what was last chosen for each endpoint

vars == <<members, advertised, selected>>

Init ==
    /\ members = [e \in Endpoints |-> {}]
    /\ advertised = [e \in Endpoints |-> 0]
    /\ selected = [e \in Endpoints |-> {}]

Settled == \A e \in Endpoints : advertised[e] = Cardinality(members[e])

Register(c) ==
    /\ Settled
    /\ c \notin members[EndpointID[c]]
    /\ members' = [members EXCEPT ![EndpointID[c]] = @ \cup {c}]
    /\ UNCHANGED <<advertised, selected>>

Deregister(c) ==
    /\ Settled
    /\ c \in members[EndpointID[c]]
    /\ members' = [members EXCEPT ![EndpointID[c]] = @ \ {c}]
    /\ UNCHANGED <<advertised, selected>>

Advertise(e) ==
    /\ advertised' = [advertised EXCEPT ![e] = Cardinality(members[e])]
    /\ UNCHANGED <<members, selected>>

\* Another node is chosen only for an endpoint without a local connection.
Select(e) ==
    /\ Settled
    /\ \E x \in SUBSET (IF members[e] # {} THEN members[e] ELSE {Remote}) :
         /\ Cardinality(x) <= 1
         /\ members[e] # {} => x # {}
         /\ selected' = [selected EXCEPT ![e] = x]
    /\ UNCHANGED <<members, advertised>>

Next ==
    \/ \E c \in Conns : Register(c) \/ Deregister(c)
    \/ \E e \in Endpoints : Advertise(e) \/ Select(e)

Spec == Init /\ [][Next]_vars

FairSpec == Spec /\ \A e \in Endpoints : WF_vars(Advertise(e))

=============================================================================
