------------------------------ MODULE Routing ------------------------------
(***************************************************************************)
(* How the endpoints of one node (the owner) become routes of another (the *)
(* observer): the owner's syncer writes its local gossip state, deltas     *)
(* reach the observer from the owner or from a relay that has a view of    *)
(* its own, and the observer applies a delta one entry at a time, each     *)
(* with the callbacks of its syncer.  The observer's proxy reads the       *)
(* cluster state between any two of them: applyDeltaEntry holds the gossip *)
(* mutex, not the mutex of the cluster.                                    *)
(*                                                                         *)
(* In flight are at most one digest of the observer, which is the version  *)
(* it reports, and one delta.  Both may be used any number of times, or    *)
(* never, or be superseded: duplicates, delay and loss.                    *)
(***************************************************************************)
EXTENDS Syncer

CONSTANTS
    Relayed,        \* bound: whether the relay takes part
    Suspectable,    \* bound: whether the owner may be suspected
    MaxListeners,   \* bound: the upstreams of an endpoint
    MaxVersion,     \* bound: the highest version of the owner
    MaxRemovals     \* bound: how often the observer removes the owner

VARIABLES
    own,        \* what the owner knows about itself
    relay,      \* what the relay knows about the owner
    st,         \* what the observer knows about the owner
    sync,       \* the observer's syncer and cluster state of the owner
    digest,     \* the versions of the owner the observer has sent, in flight
    delta,      \* the entries of the delta in flight
    todo,       \* the entries applyDeltaEntry of the observer has yet to apply
    target,     \* history: Apply of the delta that is being applied
    removals    \* history: how often the observer has removed the owner

vars == <<own, relay, st, sync, digest, delta, todo, target, removals>>

network == <<digest, delta>>

ASSUME RoutingAssumption ==
    /\ Immutable \subseteq Keys
    /\ Relayed \in BOOLEAN
    /\ Suspectable \in BOOLEAN
    /\ MaxListeners \in Nat
    /\ MaxVersion \in Nat
    /\ MaxRemovals \in Nat

Init ==
    /\ own = NewNode
    /\ relay = NewNode
    /\ st = Unknown
    /\ sync = InitSync
    /\ digest = {}
    /\ delta = {}
    /\ todo = {}
    /\ target = Unknown
    /\ removals = 0

-----------------------------------------------------------------------------
(***************************************************************************)
(* The owner.                                                              *)
(***************************************************************************)

SetOwn(new) ==
    /\ new.version <= MaxVersion
    /\ own' = new
    /\ UNCHANGED <<relay, st, sync, network, todo, target, removals>>

Has(k) == \E e \in own.entries : e.key = k

\* Sync: the immutable fields are the first entries, in this order.
Sync ==
    \/ ~Has(proxyKey) /\ SetOwn(UpsertLocal(own, proxyKey, 1))
    \/ Has(proxyKey) /\ ~Has(adminKey) /\ SetOwn(UpsertLocal(own, adminKey, 1))

\* LocalEndpointListeners of the owner, which its last gossip entry records.
Listeners(k) ==
    LET live == {e \in own.entries : e.key = k /\ ~e.deleted}
    IN  IF live = {} THEN 0 ELSE (CHOOSE e \in live : TRUE).value

onLocalEndpointUpdate(k, listeners) ==
    SetOwn(IF listeners > 0
           THEN UpsertLocal(own, k, listeners)
           ELSE DeleteLocal(own, k))

\* An upstream of the endpoint connects or disconnects.
LocalEndpoint(k) ==
    /\ Has(adminKey)
    /\ \E n \in {Listeners(k) - 1, Listeners(k) + 1} :
        n \in 0 .. MaxListeners /\ onLocalEndpointUpdate(k, n)

Compact == CompactLocal(own) # own /\ SetOwn(CompactLocal(own))

Leave == Has(adminKey) /\ ~own.left /\ SetOwn(LeaveLocal(own))

-----------------------------------------------------------------------------
(***************************************************************************)
(* The network.                                                            *)
(***************************************************************************)

\* The deltas from's state yields for a digest, cut off at any entry.
Deltas(from, version) ==
    LET new == Newer(from, version)
    IN  {{e \in new : e.version <= cut.version} : cut \in new}

RelayPulls ==
    /\ Relayed
    /\ \E d \in Deltas(own, relay.version) : relay' = Apply(relay, d)
    /\ UNCHANGED <<own, st, sync, network, todo, target, removals>>

SendDigest ==
    /\ st.known
    /\ todo = {}
    /\ digest' = {st.version}
    /\ UNCHANGED <<own, relay, st, sync, delta, todo, target, removals>>

\* The owner or the relay answers the digest.
Answer ==
    /\ \E v \in digest, from \in {own, relay} : delta' \in Deltas(from, v)
    /\ UNCHANGED <<own, relay, st, sync, digest, todo, target, removals>>

\* The owner joins or leaves through the observer: its whole state is sent.
SendLocal ==
    /\ delta' = Newer(own, 0)
    /\ UNCHANGED <<own, relay, st, sync, digest, todo, target, removals>>

-----------------------------------------------------------------------------
(***************************************************************************)
(* The observer.                                                           *)
(***************************************************************************)

\* The node is new: ApplyDigest or applyDeltaEntry adds it without entries.
Joined(s) == IF st.known THEN s ELSE OnJoin(s)

JoinedState == IF st.known THEN st ELSE NewNode

Discover ==
    /\ ~st.known
    /\ todo = {}
    /\ st' = JoinedState
    /\ sync' = Joined(sync)
    /\ target' = JoinedState
    /\ UNCHANGED <<own, relay, network, todo, removals>>

\* applyDeltaEntry takes the gossip mutex and finds the node.
StartDelta ==
    /\ todo = {}
    /\ delta # {}
    /\ st' = JoinedState
    /\ sync' = Joined(sync)
    /\ todo' = delta
    /\ target' = ApplyDeltaEntry(st, delta)
    /\ UNCHANGED <<own, relay, network, removals>>

\* The entries after the assignment to state.Entries[e.Key].
WithEntry(old, e) == {x \in old : x.key # e.key} \cup {e}

\* Mutant: an entry is applied only if it is the next version.
ApplyEntryNext(old, e) ==
    IF e.version # old.version + 1
    THEN old
    ELSE [old EXCEPT !.version = e.version, !.entries = WithEntry(@, e)]

\* What one iteration of applyDeltaEntry does to the gossip state.
ApplyEntry(old, e) ==
    IF e.version <= old.version
    THEN old
    ELSE [old EXCEPT
            !.version = e.version,
            !.entries = {x \in WithEntry(@, e) :
                           e.key = compactKey => x.version > e.value},
            !.left = @ \/ e.key = leftKey,
            !.expiry = @ \/ e.key = leftKey]

\* Mutant: compaction tells the watcher only of the entries that were deleted.
WatchCompactDeleted(old, s, e) ==
    IF e.version <= old.version
    THEN s
    ELSE CASE e.key = leftKey -> OnLeave(s)
           [] e.key = compactKey -> s
           [] e.key \in Keys /\ e.deleted -> OnDeleteKey(s, {e.key})
           [] OTHER -> OnUpsertKey(s, e.key, e.value)

\* The keys of the entries that the compact entry e discards, if not deleted.
CompactedKeys(old, e) ==
    {x.key : x \in {y \in WithEntry(old.entries, e) :
                       y.version <= e.value /\ ~y.deleted}}

\* The watcher calls of the same iteration.
Watch(old, s, e) ==
    IF e.version <= old.version
    THEN s
    ELSE CASE e.key = leftKey -> OnLeave(s)
           [] e.key = compactKey -> OnDeleteKey(s, CompactedKeys(old, e))
           [] e.key \in Keys /\ e.deleted -> OnDeleteKey(s, {e.key})
           [] OTHER -> OnUpsertKey(s, e.key, e.value)

\* The entries are in version order.
ApplyNext ==
    \E e \in todo :
        /\ \A x \in todo : e.version <= x.version
        /\ st' = ApplyEntry(st, e)
        /\ sync' = Watch(st, sync, e)
        /\ todo' = todo \ {e}
        /\ UNCHANGED <<own, relay, network, target, removals>>

\* The failure detector's verdict on the owner.
Liveness(suspected) ==
    /\ Suspectable
    /\ todo = {}
    /\ st' = UpdateLiveness(st, suspected)
    /\ sync' = IF st' = st THEN sync
               ELSE OnStatus(sync, IF suspected THEN "unreachable" ELSE "active")
    /\ target' = st'
    /\ UNCHANGED <<own, relay, network, todo, removals>>

RemoveExpired ==
    /\ todo = {}
    /\ st.expiry
    /\ removals < MaxRemovals
    /\ st' = Unknown
    /\ sync' = OnExpired(sync)
    /\ target' = Unknown
    /\ removals' = removals + 1
    /\ UNCHANGED <<own, relay, network, todo>>

-----------------------------------------------------------------------------
Next ==
    \/ Sync
    \/ \E k \in EndpointKeys : LocalEndpoint(k)
    \/ Compact
    \/ Leave
    \/ RelayPulls
    \/ SendDigest
    \/ Answer
    \/ SendLocal
    \/ Discover
    \/ StartDelta
    \/ ApplyNext
    \/ \E suspected \in BOOLEAN : Liveness(suspected)
    \/ RemoveExpired

Spec == Init /\ [][Next]_vars

(***************************************************************************)
(* Every node gossips at an interval with a node it picks at random, and   *)
(* UDP loses only some of the packets: what is possible again and again,   *)
(* of discovering the owner, sending a digest, answering it and receiving  *)
(* the answer, happens.  A delta that is being applied is applied.         *)
(***************************************************************************)
Fairness ==
    /\ SF_vars(Discover)
    /\ SF_vars(SendDigest)
    /\ SF_vars(Answer)
    /\ SF_vars(StartDelta)
    /\ WF_vars(ApplyNext)

FairSpec == Spec /\ Fairness

-----------------------------------------------------------------------------
(***************************************************************************)
(* Properties.                                                             *)
(***************************************************************************)

TypeOK ==
    /\ own \in NodeState
    /\ relay \in NodeState
    /\ st \in NodeState
    /\ sync \in SyncState
    /\ digest \subseteq Nat
    /\ delta \subseteq Entry
    /\ todo \subseteq Entry
    /\ target \in NodeState
    /\ removals \in Nat

\* The endpoints of a gossip state, as a map to their listeners.
LiveEndpoints(x) ==
    {<<e.key, e.value>> : e \in {y \in x.entries :
                                    y.key \in EndpointKeys /\ ~y.deleted}}

StatusOf(x) ==
    IF x.left THEN "left" ELSE IF x.unreachable THEN "unreachable" ELSE "active"

(***************************************************************************)
(* A node the observer knows by gossip is either pending or in the cluster *)
(* but never both and never in neither, unless it left while pending; one  *)
(* it does not know is in none.  The callbacks reach this by testing two   *)
(* maps under two mutexes, so a lost or repeated event would break it.     *)
(***************************************************************************)
Placed ==
    /\ sync.pending = {} \/ sync.cluster = {}
    /\ \A m, n \in sync.pending \cup sync.cluster : m = n
    /\ ~st.known => sync.pending \cup sync.cluster = {}
    /\ st.known /\ ~st.left => sync.pending \cup sync.cluster # {}
    /\ st.left => sync.pending = {}

(***************************************************************************)
(* Between any two callbacks the node the syncer keeps says what gossip    *)
(* says: the endpoints with their listeners and the status, whatever order *)
(* upserts, deletes, compactions, leaves and liveness changes came in, and *)
(* whichever of them came while the node was pending.                      *)
(***************************************************************************)
Mirrors ==
    /\ \A n \in sync.pending \cup sync.cluster : n.endpoints = LiveEndpoints(st)
    /\ \A n \in sync.cluster : n.status = StatusOf(st) /\ Complete(n)
    /\ \A n \in sync.pending :
          /\ n.status \in {"", StatusOf(st)}
          /\ st.unreachable => n.status = "unreachable"
          /\ ~Complete(n)

(***************************************************************************)
(* The Nodes metric counts the local node and the node in the cluster, by  *)
(* its present status.                                                     *)
(***************************************************************************)
GaugeCounts ==
    \A x \in Status :
        sync.gauge[x] =
            WithStatus(sync.cluster, x) + IF x = "active" THEN 1 ELSE 0

(***************************************************************************)
(* The walk of applyDeltaEntry ends in the closed form Apply, from any     *)
(* entry it has reached.                                                   *)
(***************************************************************************)
WalkIsApply == Apply(st, todo) = target

(***************************************************************************)
(* The observer has a node in the cluster as soon as it has reached the    *)
(* versions of the node's immutable fields, even when these came again at  *)
(* new versions after a compaction, through a relay, or after endpoints.   *)
(* Until it has removed the owner's state, there is nothing else to wait   *)
(* for: "we only add a node to the cluster when we have the required       *)
(* immutable fields" (server/gossip/syncer.go:23).                         *)
(***************************************************************************)
AddedInTime ==
    /\ st.known /\ ~st.left /\ removals = 0
    /\ \A k \in Immutable :
         \E e \in own.entries : e.key = k /\ e.version <= st.version
    => sync.cluster # {}

\* The owner has entry k, not deleted, at a version the observer has reached.
Current(k, version) ==
    \E e \in own.entries : e.key = k /\ ~e.deleted /\ e.version <= version

LiveKeys(x) == {e.key : e \in {y \in x.entries : ~y.deleted}}

NoFlapStep ==
    st.known /\ st'.known /\ removals = 0 =>
        \A k \in LiveKeys(st) \ LiveKeys(st') :
            k # compactKey => ~Current(k, st'.version)

(***************************************************************************)
(* No step of applying a delta takes away an endpoint, an address or the   *)
(* left status that the owner still has: compaction discards by version,   *)
(* and relies on all the owner retains having come at new versions before. *)
(* In particular OnDeleteKey is never called with an unsupported key.      *)
(***************************************************************************)
NoFlap == [][NoFlapStep]_vars

(***************************************************************************)
(* server/cluster/state.go:14: "This state is eventually consistent."  An  *)
(* owner that stops changing, and does not leave, is eventually listed     *)
(* with exactly its endpoints for good.                                    *)
(***************************************************************************)
Converges ==
    <>[](~own.left =>
            UNION {n.endpoints : n \in sync.cluster} = LiveEndpoints(own))

=============================================================================
