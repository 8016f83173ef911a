------------------------------ MODULE Upstream ------------------------------
(***************************************************************************)
(* The upstreams connected to one server node: the handlers of their       *)
(* connections (server/upstream/server.go) register them with the manager  *)
(* (server/upstream/manager.go), which counts them in the cluster state    *)
(* (server/cluster/state.go), whose subscriber writes the count to gossip  *)
(* (server/gossip/syncer.go).  Gossip calls back into the same syncer and  *)
(* cluster state with what it learns of other nodes.                       *)
(*                                                                         *)
(* There are four mutexes.  AddConn, RemoveConn and Select hold the        *)
(* manager's from end to end; gossip holds its own while it calls the      *)
(* watcher, which may also hold the syncer's; the cluster's is taken       *)
(* within all of these and, but for its subscribers, within nothing else.  *)
(* Handlers hold the cluster's mutex only while they count and, again,     *)
(* while the subscriber reads the count back: gossip and status requests   *)
(* see the states in between.                                              *)
(***************************************************************************)
EXTENDS Integers, SequencesExt

CONSTANTS
    Conns,          \* upstream connections; a closed one may connect again
    Endpoints,      \* endpoint IDs
    EndpointID,     \* EndpointID[c]: the endpoint connection c listens on
    Elsewhere       \* bound: the endpoints that other nodes may have

ASSUME UpstreamAssumption ==
    /\ EndpointID \in [Conns -> Endpoints]
    /\ Elsewhere \subseteq Endpoints
    /\ IsFiniteSet(Conns)

VARIABLES
    pc,             \* pc[c]: where the handler of connection c is
    mu,             \* the connections whose handler holds the manager's mutex
    clusterMu,      \* the connections whose handler holds the cluster's mutex
    gossip,         \* what gossip holds: "none", "gossip", "gossip and syncer"
    lbs,            \* localUpstreams: the load balancer of each endpoint
    endpoints,      \* Endpoints of the local node in the cluster state
    remote,         \* the endpoints that LookupEndpoint finds on other nodes
    listeners,      \* the count the subscriber has read back
    gossiped,       \* the count of each endpoint in the local gossip state
    registered,     \* the RegisteredEndpoints metric
    connected,      \* the ConnectedUpstreams metric
    selected        \* what Select has returned last, for each endpoint

counts == <<registered, connected>>

vars == <<pc, mu, clusterMu, gossip, lbs, endpoints, remote, listeners,
          gossiped, counts, selected>>

\* The node Select forwards to.
Remote == "remote"

-----------------------------------------------------------------------------
(***************************************************************************)
(* The load balancer of one endpoint.  A Go slice indexed from 0 is a      *)
(* sequence; exists is whether localUpstreams has the endpoint.            *)
(***************************************************************************)

NoLoadBalancer == [exists |-> FALSE, upstreams |-> <<>>, nextIndex |-> 0]

Add(lb, u) == [lb EXCEPT !.exists = TRUE, !.upstreams = Append(@, u)]

\* Mutant: nextIndex is left past the end when the last upstream goes.
RemoveNoWrap(lb, u) ==
    LET rest == RemoveFirst(lb.upstreams, u)
    IN  IF rest = <<>> THEN NoLoadBalancer ELSE [lb EXCEPT !.upstreams = rest]

\* Remove, and the deletion of a load balancer that is then empty.
RemoveUpstream(lb, u) ==
    LET rest == RemoveFirst(lb.upstreams, u)
    IN  CASE rest = <<>> -> NoLoadBalancer
          [] rest = lb.upstreams -> lb
          [] OTHER -> [lb EXCEPT !.upstreams = rest,
                                 !.nextIndex = @ % Len(rest)]

Chosen(lb) == lb.upstreams[lb.nextIndex + 1]

\* Mutant: the upstream last added is always preferred.
AdvanceToLast(lb) == [lb EXCEPT !.nextIndex = Len(lb.upstreams) - 1]

Advance(lb) == [lb EXCEPT !.nextIndex = (@ + 1) % Len(lb.upstreams)]

-----------------------------------------------------------------------------
Init ==
    /\ pc = [c \in Conns |-> "closed"]
    /\ mu = {}
    /\ clusterMu = {}
    /\ gossip = "none"
    /\ remote = {}
    /\ lbs = [e \in Endpoints |-> NoLoadBalancer]
    /\ endpoints = [e \in Endpoints |-> 0]
    /\ listeners = 0
    /\ gossiped = [e \in Endpoints |-> 0]
    /\ registered = 0
    /\ connected = 0
    /\ selected = [e \in Endpoints |-> {}]

Goto(c, from, to) == pc[c] = from /\ pc' = [pc EXCEPT ![c] = to]

(***************************************************************************)
(* AddConn.                                                                *)
(***************************************************************************)

\* Mutant: the manager's mutex is not taken.
AddConnUnlocked(c) ==
    LET e == EndpointID[c]
    IN  /\ Goto(c, "closed", "add")
        /\ mu' = mu \cup {c}
        /\ lbs' = [lbs EXCEPT ![e] = Add(@, c)]
        /\ registered' = registered + IF lbs[e].exists THEN 0 ELSE 1
        /\ UNCHANGED <<clusterMu, gossip, endpoints, remote, listeners, gossiped,
                       connected, selected>>

AddConn(c) ==
    LET e == EndpointID[c]
    IN  /\ Goto(c, "closed", "add")
        /\ mu = {}
        /\ mu' = {c}
        /\ lbs' = [lbs EXCEPT ![e] = Add(@, c)]
        /\ registered' = registered + IF lbs[e].exists THEN 0 ELSE 1
        /\ UNCHANGED <<clusterMu, gossip, endpoints, remote, listeners, gossiped,
                       connected, selected>>

\* The mutex of the cluster, in AddLocalEndpoint and RemoveLocalEndpoint.
LockCluster(c) ==
    /\ clusterMu = {}
    /\ clusterMu' = {c}
    /\ \/ Goto(c, "add", "count add")
       \/ Goto(c, "remove", "count remove")
    /\ UNCHANGED <<mu, gossip, lbs, endpoints, remote, listeners, gossiped, counts,
                   selected>>

\* Its mutex is released before the subscribers are called.
AddLocalEndpoint(c) ==
    /\ Goto(c, "count add", "added")
    /\ clusterMu' = {}
    /\ endpoints' = [endpoints EXCEPT ![EndpointID[c]] = @ + 1]
    /\ UNCHANGED <<mu, gossip, lbs, remote, listeners, gossiped, counts, selected>>

(***************************************************************************)
(* RemoveConn, called when the handler of a connection returns: the client *)
(* has closed it, its token has expired or the server shuts down.          *)
(***************************************************************************)

\* An endpoint without a load balancer is an early return.
RemoveConn(c) ==
    LET e == EndpointID[c]
        lb == RemoveUpstream(lbs[e], c)
        found == lbs[e].exists
    IN  /\ mu = {}
        /\ Goto(c, "open", IF found THEN "remove" ELSE "closed")
        /\ mu' = {x \in {c} : found}
        /\ lbs' = [lbs EXCEPT ![e] = lb]
        /\ registered' = registered - IF found /\ ~lb.exists THEN 1 ELSE 0
        /\ UNCHANGED <<clusterMu, gossip, endpoints, remote, listeners, gossiped,
                       connected, selected>>

\* Mutant: the subscribers are told only of the last listener.
RemoveLocalEndpointQuiet(c) ==
    LET e == EndpointID[c]
    IN  /\ Goto(c, "count remove", IF endpoints[e] <= 1 THEN "removed" ELSE "done")
        /\ clusterMu' = {}
        /\ endpoints' = [endpoints EXCEPT ![e] = @ - 1]
        /\ UNCHANGED <<mu, gossip, lbs, remote, listeners, gossiped, counts,
                       selected>>

\* If the endpoint is not found its subscribers are not called.
RemoveLocalEndpoint(c) ==
    LET e == EndpointID[c]
    IN  /\ Goto(c, "count remove", IF endpoints[e] = 0 THEN "done" ELSE "removed")
        /\ clusterMu' = {}
        /\ endpoints' = [endpoints EXCEPT ![e] = IF @ = 0 THEN 0 ELSE @ - 1]
        /\ UNCHANGED <<mu, gossip, lbs, remote, listeners, gossiped, counts,
                       selected>>

(***************************************************************************)
(* onLocalEndpointUpdate, for both.                                        *)
(***************************************************************************)

LocalEndpointListeners(c) ==
    /\ clusterMu = {}
    /\ \/ Goto(c, "added", "read add")
       \/ Goto(c, "removed", "read remove")
    /\ listeners' = endpoints[EndpointID[c]]
    /\ UNCHANGED <<mu, clusterMu, gossip, lbs, endpoints, remote, gossiped, counts,
                   selected>>

\* UpsertLocal of a positive count, DeleteLocal of none.
onLocalEndpointUpdate(c) ==
    /\ gossip = "none"
    /\ \/ Goto(c, "read add", "done add")
       \/ Goto(c, "read remove", "done")
    /\ gossiped' = [gossiped EXCEPT ![EndpointID[c]] = listeners]
    /\ UNCHANGED <<mu, clusterMu, gossip, lbs, endpoints, remote, listeners, counts,
                   selected>>

Unlock(c) ==
    /\ \/ Goto(c, "done add", "open") /\ connected' = connected + 1
       \/ Goto(c, "done", "closed") /\ connected' = connected - 1
    /\ mu' = mu \ {c}
    /\ listeners' = 0
    /\ UNCHANGED <<clusterMu, gossip, lbs, endpoints, remote, gossiped, registered, selected>>

-----------------------------------------------------------------------------
(***************************************************************************)
(* Select, and gossip.                                                     *)
(***************************************************************************)

\* Select of an endpoint with local upstreams.
SelectLocal(e) ==
    /\ mu = {}
    /\ lbs[e].exists
    /\ selected' = [selected EXCEPT ![e] = {Chosen(lbs[e])}]
    /\ lbs' = [lbs EXCEPT ![e] = Advance(@)]
    /\ UNCHANGED <<pc, mu, clusterMu, gossip, endpoints, remote, listeners, gossiped,
                   counts>>

\* Select of one without, which may be on another node.
SelectRemote(e) ==
    /\ mu = {}
    /\ clusterMu = {}
    /\ ~lbs[e].exists
    /\ selected' = [selected EXCEPT ![e] = {x \in {Remote} : e \in remote}]
    /\ UNCHANGED <<pc, mu, clusterMu, gossip, lbs, endpoints, remote, listeners,
                   gossiped, counts>>

\* A change of what gossip knows of other nodes begins.
ApplyDelta ==
    /\ gossip = "none"
    /\ gossip' = "gossip"
    /\ UNCHANGED <<pc, mu, clusterMu, lbs, endpoints, remote, listeners, gossiped,
                   counts, selected>>

\* The node is pending: the callback takes the mutex of the syncer.
LockSyncer ==
    /\ gossip = "gossip"
    /\ clusterMu = {}
    /\ gossip' = "gossip and syncer"
    /\ UNCHANGED <<pc, mu, clusterMu, lbs, endpoints, remote, listeners, gossiped,
                   counts, selected>>

\* Mutant: the mutexes are not released.
UpdateClusterKept ==
    /\ gossip # "none"
    /\ clusterMu = {}
    /\ remote' \in SUBSET Elsewhere
    /\ UNCHANGED <<pc, mu, clusterMu, gossip, lbs, endpoints, listeners, gossiped,
                   counts, selected>>

\* AddNode of the syncer, or a callback that updates a node of the cluster.
UpdateCluster ==
    /\ gossip # "none"
    /\ clusterMu = {}
    /\ gossip' = "none"
    /\ remote' \in SUBSET Elsewhere
    /\ UNCHANGED <<pc, mu, clusterMu, lbs, endpoints, listeners, gossiped, counts,
                   selected>>

Proceed(c) ==
    \/ LockCluster(c)
    \/ AddLocalEndpoint(c)
    \/ RemoveLocalEndpoint(c)
    \/ LocalEndpointListeners(c)
    \/ onLocalEndpointUpdate(c)
    \/ Unlock(c)

Next ==
    \/ \E c \in Conns : AddConn(c) \/ RemoveConn(c) \/ Proceed(c)
    \/ \E e \in Endpoints : SelectLocal(e) \/ SelectRemote(e)
    \/ ApplyDelta
    \/ LockSyncer
    \/ UpdateCluster

Spec == Init /\ [][Next]_vars

(***************************************************************************)
(* A Go mutex that is released again and again serves whoever waits for    *)
(* it, so a handler that has begun gets the mutex of gossip.  Requests for *)
(* every endpoint keep coming.  No connection has to open or to close.     *)
(***************************************************************************)
FairSpec ==
    /\ Spec
    /\ \A c \in Conns : SF_vars(Proceed(c))
    /\ \A e \in Endpoints : SF_vars(SelectLocal(e))
    /\ WF_vars(UpdateCluster)

-----------------------------------------------------------------------------
(***************************************************************************)
(* Properties.                                                             *)
(***************************************************************************)

Handler == {"closed", "add", "count add", "added", "read add", "done add", "open",
            "remove", "count remove", "removed", "read remove", "done"}

TypeOK ==
    /\ pc \in [Conns -> Handler]
    /\ mu \subseteq Conns
    /\ clusterMu \subseteq Conns
    /\ gossip \in {"none", "gossip", "gossip and syncer"}
    /\ lbs \in [Endpoints -> [exists : BOOLEAN, upstreams : Seq(Conns), nextIndex : Nat]]
    /\ endpoints \in [Endpoints -> Nat]
    /\ remote \subseteq Endpoints
    /\ listeners \in Nat
    /\ gossiped \in [Endpoints -> Nat]
    /\ registered \in Nat
    /\ connected \in Nat
    /\ selected \in [Endpoints -> SUBSET (Conns \cup {Remote})]

Open(e) == {c \in Conns : pc[c] = "open" /\ EndpointID[c] = e}

(***************************************************************************)
(* Whenever no handler is in AddConn or RemoveConn, the load balancer, the *)
(* cluster state and the gossip state count the connections that are open, *)
(* and the metrics too: no order of connects and disconnects leaves an     *)
(* endpoint that other nodes route to without an upstream, or an upstream  *)
(* that they do not know of.                                               *)
(***************************************************************************)
CountsAgree ==
    mu = {} =>
        /\ \A e \in Endpoints :
             /\ ToSet(lbs[e].upstreams) = Open(e)
             /\ Len(lbs[e].upstreams) = Cardinality(Open(e))
             /\ endpoints[e] = Cardinality(Open(e))
             /\ gossiped[e] = Cardinality(Open(e))
        /\ registered = Cardinality({e \in Endpoints : Open(e) # {}})
        /\ connected = Cardinality({c \in Conns : pc[c] = "open"})

(***************************************************************************)
(* Select never returns a nil upstream and never indexes past the end: the *)
(* manager has no load balancer without upstreams, and nextIndex stays     *)
(* within bounds when upstreams go.                                        *)
(***************************************************************************)
NextInBounds ==
    \A e \in Endpoints :
        lbs[e].exists => lbs[e].nextIndex < Len(lbs[e].upstreams)

(***************************************************************************)
(* A handler that has begun to add or remove its connection ends: nobody   *)
(* waits in a circle for the four mutexes, although the handlers enter     *)
(* gossip from the cluster's subscribers and gossip enters the cluster     *)
(* from its watcher.                                                       *)
(***************************************************************************)
HandlersEnd ==
    \A c \in Conns : (pc[c] \notin {"closed", "open"}) ~> (pc[c] \in {"closed", "open"})

R == INSTANCE Registry WITH
        members <- [e \in Endpoints |-> ToSet(lbs[e].upstreams)],
        advertised <- gossiped

(***************************************************************************)
(* What the manager promises: module Registry.  AddConn and RemoveConn of  *)
(* manager.go take several steps to reach gossip, but no registration      *)
(* comes between the steps of another, so every count that is gossiped is  *)
(* the one the load balancer has, in order and without leaving one out.    *)
(***************************************************************************)
Registers == R!FairSpec

(***************************************************************************)
(* An upstream that stays connected is selected again and again, however   *)
(* the others come and go: Remove keeps nextIndex, which may skip an       *)
(* upstream once, but not for ever.                                        *)
(***************************************************************************)
NoStarvation ==
    \A c \in Conns :
        <>[](pc[c] = "open") => []<>(c \in selected[EndpointID[c]])

=============================================================================
