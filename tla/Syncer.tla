------------------------------- MODULE Syncer -------------------------------
(***************************************************************************)
(* The callbacks by which server/gossip/syncer.go turns gossip events      *)
(* about a remote node into the routing state of server/cluster/state.go.  *)
(*                                                                         *)
(* Every callback is about one node and touches nothing of the others, so  *)
(* s is the state of the syncer and of the cluster for one remote node:    *)
(* each of the maps pendingNodes and nodes is the set of its (at most one) *)
(* node.  The callbacks run with the gossip mutex held, one at a time.     *)
(***************************************************************************)
EXTENDS GossipState

proxyKey == "proxy_addr"

adminKey == "admin_addr"

Immutable == {proxyKey, adminKey}

\* The keys "endpoint:" + endpointID.
EndpointKeys == Keys \ Immutable

Status == {"active", "unreachable", "left"}

\* cluster.Node.  Endpoints is the set of its (endpoint, listeners) pairs.
Node ==
    [status : Status \cup {""},
     proxy : Nat \cup {NoValue},
     admin : Nat \cup {NoValue},
     endpoints : SUBSET (EndpointKeys \X Nat)]

SyncState ==
    [pending : SUBSET Node,             \* pendingNodes of the syncer
     cluster : SUBSET Node,             \* nodes of the cluster state
     gauge : [Status -> Int]]           \* the Nodes metric, by status

\* NewState counts the local node, which is always active.
InitSync ==
    [pending |-> {}, cluster |-> {},
     gauge |-> [x \in Status |-> IF x = "active" THEN 1 ELSE 0]]

-----------------------------------------------------------------------------
(***************************************************************************)
(* The cluster state.                                                      *)
(***************************************************************************)

\* How many of the nodes in S have status x.
WithStatus(S, x) == Cardinality({n \in S : n.status = x})

\* Replaces the node of the cluster by the one in S, and counts it.
SetCluster(s, S) ==
    [s EXCEPT !.cluster = S,
              !.gauge = [x \in Status |->
                  s.gauge[x] - WithStatus(s.cluster, x) + WithStatus(S, x)]]

\* A node already in the cluster is counted again, as AddNode does.
AddNode(s, n) ==
    [s EXCEPT !.cluster = {n},
              !.gauge = [x \in Status |-> s.gauge[x] + WithStatus({n}, x)]]

RemoveNode(s) == SetCluster(s, {})

\* Mutant: the metric still counts the node under its old status.
UpdateRemoteStatusUncounted(s, status) ==
    [s EXCEPT !.cluster = {[n EXCEPT !.status = status] : n \in s.cluster}]

UpdateRemoteStatus(s, status) ==
    SetCluster(s, {[n EXCEPT !.status = status] : n \in s.cluster})

WithEndpoint(n, k, listeners) ==
    [n EXCEPT !.endpoints = {p \in @ : p[1] # k} \cup {<<k, listeners>>}]

WithoutEndpoints(n, K) ==
    [n EXCEPT !.endpoints = {p \in @ : p[1] \notin K}]

UpdateRemoteEndpoint(s, k, listeners) ==
    [s EXCEPT !.cluster = {WithEndpoint(n, k, listeners) : n \in @}]

RemoveRemoteEndpoint(s, K) ==
    [s EXCEPT !.cluster = {WithoutEndpoints(n, K) : n \in @}]

\* The remote nodes LookupEndpoint may return.
LookupEndpoint(s, k) ==
    {n \in s.cluster : n.status = "active"
                         /\ \E p \in n.endpoints : p[1] = k /\ p[2] > 0}

-----------------------------------------------------------------------------
(***************************************************************************)
(* The watcher.                                                            *)
(***************************************************************************)

PendingNode ==
    [status |-> "", proxy |-> NoValue, admin |-> NoValue, endpoints |-> {}]

OnJoin(s) ==
    IF s.cluster # {} \/ s.pending # {}
    THEN s
    ELSE [s EXCEPT !.pending = {PendingNode}]

\* Mutant: a pending node that has left is kept.
OnLeavePending(s) ==
    IF s.cluster # {} THEN UpdateRemoteStatus(s, "left") ELSE s

OnLeave(s) ==
    IF s.cluster # {}
    THEN UpdateRemoteStatus(s, "left")
    ELSE [s EXCEPT !.pending = {}]

\* OnReachable and OnUnreachable.
OnStatus(s, status) ==
    IF s.cluster # {}
    THEN UpdateRemoteStatus(s, status)
    ELSE [s EXCEPT !.pending = {[n EXCEPT !.status = status] : n \in @}]

OnExpired(s) ==
    IF s.cluster # {} THEN RemoveNode(s) ELSE [s EXCEPT !.pending = {}]

WithKey(n, k, v) ==
    CASE k = proxyKey -> [n EXCEPT !.proxy = v]
      [] k = adminKey -> [n EXCEPT !.admin = v]
      [] OTHER -> WithEndpoint(n, k, v)

\* Mutant: a node is not added before it has an endpoint.
CompleteListed(n) == n.proxy # NoValue /\ n.admin # NoValue /\ n.endpoints # {}

Complete(n) == n.proxy # NoValue /\ n.admin # NoValue

Activated(n) == IF n.status = "" THEN [n EXCEPT !.status = "active"] ELSE n

\* The upsert of a pending node: it is added to the cluster once complete.
UpsertPending(s, n) ==
    IF Complete(n)
    THEN AddNode([s EXCEPT !.pending = {}], Activated(n))
    ELSE [s EXCEPT !.pending = {n}]

OnUpsertKey(s, k, v) ==
    IF s.cluster # {}
    THEN IF k \in Immutable THEN s ELSE UpdateRemoteEndpoint(s, k, v)
    ELSE IF s.pending = {}
    THEN s
    ELSE UpsertPending(s, WithKey(CHOOSE n \in s.pending : TRUE, k, v))

\* OnDeleteKey for each of the keys K: only endpoints can be deleted.
OnDeleteKey(s, K) ==
    IF s.cluster # {}
    THEN RemoveRemoteEndpoint(s, K \cap EndpointKeys)
    ELSE [s EXCEPT !.pending =
                {WithoutEndpoints(n, K \cap EndpointKeys) : n \in @}]

=============================================================================
