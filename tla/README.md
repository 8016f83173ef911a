# Piko in TLA+

Piko is a reverse proxy. Upstream services open outbound connections to a
cluster of server nodes; clients send requests to any node, and a node that has
no upstream for the requested endpoint forwards the request to one that has.
Which node has which endpoints is gossiped. This directory holds TLA+ modules of
the parts of Piko whose correctness depends on the order of events, the TLC
configurations that check them on small instances, and proofs, checked by TLAPS,
of what matters most.

Paths below are relative to `src/`.

## The system

| Part | Source | Model |
|---|---|---|
| Gossip state: versioned entries, tombstones, compaction, expiry | `pkg/gossip/state.go` | `GossipState`, `Gossip`, `Membership` |
| Gossip protocol: join, leave, digests, deltas, schedulers | `pkg/gossip/gossip.go`, `listener.go`, `protocol.go` | `Gossip`, `Membership` |
| Failure detector (phi accrual) | `pkg/gossip/failuredetector.go` | `FailureDetector`; a threshold of silence in `Membership`; an arbitrary verdict in `Gossip`, `Routing` |
| Syncer: gossip events to routing state and back | `server/gossip/syncer.go` | `Syncer`, `Routing`, `Upstream` |
| Cluster state: the nodes, their status and endpoints | `server/cluster/state.go` | `Syncer`, `Upstream` |
| Upstream manager and load balancers | `server/upstream/manager.go` | `Upstream`, which implements `Registry` |
| Upstream server: the handler of an upstream connection | `server/upstream/server.go` | `UpstreamServer`, in `Agent`; `Upstream` (the calls of the manager), `Lifecycle` (shutdown) |
| Proxy (HTTP and TCP) | `server/proxy/`, `server/upstream/upstream.go` | `Proxy` |
| Server start and shutdown | `server/server.go`, `cli/server/command.go` | `Lifecycle` |
| Admin server, usage reporter | `server/admin/`, `server/usage/` | in `Lifecycle`: readiness, serving and stopping |
| Agent listener and client | `agent/client/` | `AgentListener`, `Tunnels`, in `Agent` |
| Agent TCP proxy, forwarder | `agent/tcpproxy/`, `forward/` | `Tunnels`, in `Agent` |
| Backoff, start-up join | `pkg/backoff/`, `server/gossip/gossip.go` | attempts and waits in `Lifecycle` and `AgentListener`, not their lengths |
| Authentication | `server/auth/`, `server/upstream/auth.go` | what a token decides, and its expiry, in `UpstreamServer` |
| WebSocket connection | `pkg/websocket/conn.go` | not modelled: see below |
| Configuration, commands, logging, middleware, workload tools | several | not modelled: they parse, count or print |

How they interact: the handler of an upstream connection calls the manager, the
manager counts the connection in the cluster state, the cluster state calls its
subscriber (the syncer), and the syncer writes the count as an entry of the local
gossip state. Gossip carries the entry to other nodes; applying it calls the
watcher (again the syncer), which changes the remote node's record in the cluster
state of the receiver, which the proxy reads to route. `Upstream` models the
first half of that path on one node, `Gossip` the spreading among many nodes, and
`Routing` the second half, from the owner's local gossip state to the
observer's routes. `Proxy` takes the routes as given, late and possibly wrong, and
follows a request over the nodes. At the two ends of that path are processes of
the user: the agent, which keeps a session with the server and copies its streams to
a service, and the forwarder, which copies connections to the proxy. `Agent` composes
the agent's listener, the server's side of its sessions and the copying handlers.
`Membership` asks how a cluster forgets a node, for which time matters. `Lifecycle` starts and stops all servers of one node.

## Modules

### `GossipState`

The state one node keeps about another (`nodeState`) and the operations of
`clusterState` on it, as operators. The `Entries` map is a set of entries with at
most one for a key. A value is an integer: `n >= 0` is the decimal text of `n`,
`NoValue` is the empty string. `Internal` is left out because it is set exactly on
the entries of `leftKey` and `compactKey`. Time is left out: `expiry` says whether
an expiry is set, and a set expiry may pass at any moment.

| Operator | Code |
|---|---|
| `UpsertLocal`, `DeleteLocal`, `LeaveLocal`, `CompactLocal` | the methods of the same names; `Retained`, `Rank`, `Reversion` are the loop of `CompactLocal` that gives the retained entries new versions in their old order |
| `Digest`, `Delta`, `DeltaEntry`, `LocalDelta` | the methods of the same names; `Newer` is the filter on versions |
| `ApplyDigest`, `ApplyDelta`, `ApplyDeltaEntry` | the methods of the same names |
| `UpdateLiveness`, `LiveNodes`, `UnreachableNodes` | the methods of the same names |

`Apply` is the loop of `applyDeltaEntry` in closed form: which entries are
accepted, what they replace, what a compact entry among them discards. `Routing`
takes the loop one entry at a time, and `WalkIsApply` checks that it computes
`Apply`. The field `base` of a delta entry (the version it was computed for) is
auxiliary: it is not sent, no operation reads it, the invariant does.

### `Gossip`

Any number of nodes, each with its map `nodes[o]`, and the messages in flight.

| Action | Code |
|---|---|
| `Upsert`, `Delete` | `Gossip.UpsertLocal`, `DeleteLocal` |
| `Compact`, `Liveness`, `RemoveExpired` | the functions run by `Gossip.schedule` |
| `GossipRound` | `gossipRound`: a digest to a random live and to a random unreachable node |
| `Join`, `HandleJoin` | `Gossip.join`, `streamListener.join` |
| `Leave`, `NotifyLeave` | `Gossip.Leave` (the choice of nodes) and `Gossip.leave` |
| `HandleStream` | the rest of `Gossip.join` (the reply), `streamListener.leave` |
| `HandleDigest` | `packetListener.digest`: apply it, answer with a delta and, to a request, a digest |
| `HandleDelta` | `packetListener.delta` |

The network: every packet may be lost when it is sent (`Transmit` keeps any
subset), stay in flight as long as it likes, overtake others, and be received
again (`Packet`). Joins and leaves run over TCP and are not duplicated. Packets
are cut off where they are full: a digest keeps a random choice of `DigestSize`
nodes, a delta a prefix in version order of one node's entries after any number of
complete ones (`DeltaPackets`); entries have any size, so the cut is anywhere.

Each handler is one step. The code takes the gossip mutex once for each call it
makes (for instance `ApplyDigest` and then `Delta`); the steps of others that could
come between would also be possible before or after, with a delayed or repeated
message. Crashes are stuttering: a node that has crashed takes no step, and a
restarted node has a new ID.

### `Membership`

One node (the subject) that may leave, crash, or both, and the observers that know it
and gossip among themselves. It uses the operators of `GossipState` for what each
observer knows of the subject, and adds what `Gossip` leaves out: ticks of silence until
the subject is suspected, the `Expiry` of a left or unreachable node (`timer`), and
packets that live for at most a tick. A delta may be cut right after the header of the
subject, before its first entry (`encodeDelta`); applying that discovers the subject at
version 0, so `Learn` always adds it. The subject writes nothing after its leave.

| Action | Code |
|---|---|
| `Leave`, `NotifyLeave` | `Gossip.Leave`, and one exchange of it, which may fail |
| `GossipRound`, `HandleDigest`, `HandleDelta` | as in `Gossip`, for what they say of the subject; a delta from the subject is a sign of life (`failureDetector.Report`) |
| `Liveness`, `RemoveExpired` | the scheduled functions, with `SuspicionLevel` starting a window for a node never heard of |
| `Stop`, `Tick` | a crash or `Close`; time |

### `Syncer` and `Routing`

`Syncer` has the callbacks of `syncer` and the methods of cluster `State` they
call, as operators on the record of one remote node: `pending` and `cluster` are the
two maps (sets with at most one node), `gauge` the `Nodes` metric. Callbacks for
different nodes touch different records.

`Routing` composes them with `GossipState` for an owner, an observer and a relay
that has a view of the owner's state of its own. The owner's actions (`Sync`,
`LocalEndpoint`, `Compact`, `Leave`) write its local state through the syncer. The
observer applies a delta entry by entry (`StartDelta`, then `ApplyNext` for each
entry: `ApplyEntry` is what it does to the gossip state, `Watch` the callbacks it
makes), because the proxy can read the routes between two callbacks.
`Sync` is complete before the first endpoint, because `Server.Start` serves
upstreams only after it.

### `Upstream`, `Registry`

The handlers of upstream connections, in the steps between which others can see or
change something, with the four mutexes they meet. `AddConn` and `RemoveConn` hold the
manager's (`mu`) from end to end; the cluster's (`clusterMu`) is taken once to count
(`LockCluster`, then `AddLocalEndpoint` or `RemoveLocalEndpoint`) and once more by the
subscriber to read the count back (`LocalEndpointListeners`), and gossip's to write it
(`onLocalEndpointUpdate`). From the other side `ApplyDelta` takes gossip's mutex, the
watcher the syncer's (`LockSyncer`) and the cluster's (`UpdateCluster`). Requests choose a
local upstream (`SelectLocal`), which moves the load balancer of the endpoint on, or
another node (`SelectRemote`).

`Registry` is what the manager promises, without mutexes and load balancers: the sets
of registered connections, the counts other nodes are told, and what was selected.
`R` in `Upstream` is the refinement mapping (`members` is the set of a load balancer's
slice, `advertised` the gossiped count), `Registers` the property.

### `FailureDetector`

The arrival window of one remote node with a clock of ticks. `Add` is the circular
buffer, `Arrived` the code that `Report` and `SuspicionLevel` share, `Suspected` the
comparison of phi with the threshold, multiplied out. `UpdateLiveness` and
`RemoveExpired` are the scheduled functions of gossip. `samples` is a history of all
intervals, the reference for the buffer.

The module assumes that the clock is read and the detector's mutex taken in one step, and that
the clock has moved between two messages of the node, and between a window started by
`SuspicionLevel` and the first message: the guard of `Report`. The code does not compare
timestamps. Two messages in the same instant of the clock would give an interval of zero,
which `WindowSum` would bear; a buffer full of them is what `PhiDefined` needs the guard for.

### `Proxy`

Nodes that crash, upstreams that connect and are lost, routes that follow with a
delay (`SyncRoute`, `DropRoute`), and requests to one endpoint. `hops[r][i]` is the
handler of request `r` on the `i`-th node that handles it.

| Action | Code |
|---|---|
| `Select` | `LoadBalancedManager.Select` as `HTTPProxy.ServeHTTP` and `TCPProxy.ServeHTTP` call it, with the check for the forwarded header |
| `DialConn`, `DialNode` | `ConnUpstream.Dial`, `NodeUpstream.Dial` |
| `UpstreamLost`, `Timeout`, `Abandoned` | `errorHandler`, and the context of `ServeHTTPWithUpstream`, which ends by its timeout or because the node before has closed the connection |
| `Write`, `Written`, `CopyEnds` | `forward` of the TCP proxy: two copies, each closing what the other reads |
| `Respond`, `Relay` | the upstream and `httputil.ReverseProxy`, external |

An open TCP connection has two copies, one to each end. A copy is in a `Read` of the other end or in a
`Write` to its own (`blocked`), where it stays for as long as the peer does not read. When a copy ends it
closes its own end and nothing else. On the node of the upstream `forward` waits for both copies; on
the node that forwards, `ReverseProxy` waits for the first and closes both ends. Nobody looks at
the context of an upgraded connection on the node of the upstream: its handler learns from its own
reads and writes that the node before has gone (`Gone`).

### `Lifecycle`

One node from `Start` to the end of `Shutdown`. `pc` walks through the calls of `Start`, `Wait`
and `Shutdown` in order. Beside it run the servers (`Fail`, `Closed`, then `Done`, which is
what `runGoroutine` does after `f` returns), the handlers of upstreams (`Dial`, `Upgrade`,
`AddConn`, `Cancelled`, `Lost`), proxy requests, and the goroutine of `Leave`. The shutdown of an
`http.Server` is two steps: the listener is closed; it returns when no request is active or
the grace period is over. An upgraded connection is not a request any more, which is
why `shutdownUpstreamServer` cancels a context and does not wait.

In `Start`, `JoinOnStartup` is a loop of `Joined`, `JoinAgain`, `Backoff` and `JoinFailed`, with the
attempts counted as `Backoff.Wait` counts them; it runs in the main goroutine, before
`Wait` looks at signals and failures.

### `Agent`, of `AgentListener`, `UpstreamServer` and `Tunnels`

`AgentListener` has the goroutine that accepts (`pc`: accept, examine the error, dial, wait,
assign), `Close` in its two steps and the cancelling of its context. `l.sess` is not protected by
a lock; `Close` sees it before or after `Assign`. Two facts of the libraries matter. Accepting a
stream also sends a window update, which may time out while the session is open (`AcceptFails`): then the
listener connects again and does not close the session it had (`abandoned`). And `DialContext` looks at its
context only until the request is sent (`Requested`): a response that comes after `Close` or a
cancelling still makes a session (`Connected`). `UpstreamServer` has the handler of each
session (`upstreamRoute`: upgrade, `AddConn`, accept until an error, `RemoveConn`, close) and
the token, which permits or denies the endpoint and may expire. `Tunnels` has the
handlers that copy between two connections, for the agent's TCP proxy (with a table of
connections), for `ListenAndForward` (without) and for the forwarder. Each has two copies, as in
`Proxy`. An end that the peer has closed (`gone`) and one that this process has closed (no longer in
`open`) are different: a stream of yamux that the peer has closed can still be written to, and
only closing it here frees a `Write` that hangs. The TCP proxy closes both ends when its
handler returns, the others only the accepted one and leave the dialled one to its copy.

`Agent` joins their actions where the processes meet. A dial has two steps, the server's
(`Upgrade`) and the agent's (`Connected`), between which either end may go. Each end of a
session is closed on its own and the other end notices later. A stream is accepted only in a
session the server has registered, and closing the session closes its streams
(`CloseStreams`). The caller of the listener is the TCP proxy or `ListenAndForward`, which
decides who may cancel and close.

## Runs

| Run | Checks | States |
|---|---|---|
| `gossip` | `IInv`, `NoGap`, `CaughtUp`, `Forward` for three nodes, with overtaking, relaying, suspicion, expiry and rediscovery | 794,000 |
| `membership` | `LeaveIsFinal`, `LeftForgotten`, `Detected` for a node that leaves or stops | 329,000 |
| `membership_crashed` | violation of `CrashedForgotten` | |
| `routing_relay` | `WalkIsApply`, `AddedInTime`, `NoFlap` with a relay | 1,330,000 |
| `routing_expiry` | `Placed`, `Mirrors`, `GaugeCounts` with suspicion, expiry and rediscovery | 1,820,000 |
| `routing_converges` | `Converges`, if the observer never removes the owner | 124,000 |
| `routing_removed` | violation of `Converges`, if it does once | |
| `failure_detector` | `WindowSum`, `PhiDefined`, `Verdicts` | 205,000 |
| `upstream` | `CountsAgree`, `NextInBounds`, `Registers`, `HandlersEnd`, `NoStarvation` | 39,900 |
| `proxy` | `OneHop`, `RefusedForCause`, `Answered`, `NoOrphans` | 55,900 |
| `lifecycle` | `ReadyServes`, `LeavesFirst`, `FatalIsFailure`, `StartEnds`, `ShutdownEnds`, `FailureStops`, `UpstreamsClosed` | 184,000 |
| `agent` | `OneSession`, `NoLeak`, `Reconnects`, `ExpiryEnds`, `CloseEnds`, `CancelReturns`, `TunnelEnds` | 39,500 |

What they show:

- **`NoGap`**: a digest carries one number for each node, and an answer carries what
  is newer. That is sound only if a version is an honest summary: whoever is at
  version `v` holds every current entry up to `v`. It could be broken by a
  packet cut off in the wrong order, by a duplicate, by a relay with an older mix of
  entries, or by compaction giving out versions carelessly.
- **`CaughtUp`**: at equal versions there are equal entries, so deletions and
  compactions have not been missed anywhere.
- **`Forward`**: what is known never moves back, except by `RemoveExpired`, also when a delta is
  overtaken by a newer one: `applyDeltaEntry` ignores what is not newer than what it has.
- **`LeaveIsFinal`, `LeftForgotten`**: a node that has left is removed everywhere and never
  comes back, provided its leave spreads faster than `nodeExpiry`: `ApplyDigest` ignores
  nodes a digest calls left, and by the time the first observer forgets the node, no packet
  from before the leave is under way, with or without entries.
- **`Detected`**: a node that stops is suspected by everybody who lists it, also by an
  observer that removed it, discovered it again from others and never had a sign of
  life from it.
- **`Placed`, `Mirrors`, `GaugeCounts`**: between any two callbacks the routes say
  what gossip says, including events that reach a node while it is pending.
- **`AddedInTime`**: a node becomes routable as soon as its two addresses are known.
  "A pending node has no endpoints" would be wrong: after a compaction the addresses
  have new versions, and an observer that learns of the node from a relay can see an
  endpoint first.
- **`NoFlap`**: compaction never takes away, even for a moment, an endpoint that the
  owner still has.
- **`Converges`**: if the owner stops changing, its endpoints are listed for good.
- **`CountsAgree`, `Registers`**: although the subscriber reads the count back after the
  cluster's mutex is released, load balancer, cluster state, gossip and metrics agree,
  and every registration is gossiped with its own count, in order, because the
  manager's mutex is held throughout. A request gets a local upstream whenever there is one.
- **`HandlersEnd`**: handlers enter gossip while they hold the manager's mutex, and gossip
  enters the cluster while it holds its own and the syncer's; nobody waits in a circle.
- **`NextInBounds`, `NoStarvation`**: `Select` never returns nil; `Remove` may skip an
  upstream's turn, but no upstream that stays is starved.
- **`WindowSum`, `PhiDefined`, `Verdicts`**: the running sum survives the wrap-around, the panic in
  `Phi` is unreachable, and a verdict is warranted by some recent interval.
- **`OneHop`, `RefusedForCause`**: stale routes never make a request go round, and the rule
  against it costs nothing while the routes are right.
- **`Answered`, `NoOrphans`**: whichever node, session or upstream is lost at whichever step,
  the client is answered and no handler stays behind, but one whose upstream does not read: a
  copy in a `Write` to it has no deadline, and the handler waits for that copy.
- **`ReadyServes`, `LeavesFirst`, `UpstreamsClosed`**: the order of start and shutdown holds under all
  interleavings with failing servers, late upgrades and a grace period that runs out.
- **`FatalIsFailure`, `FailureStops`, `ShutdownEnds`**: `fatalCh` is closed for failures and for nothing
  else, a failure stops the node, and no wait in `Shutdown` is unbounded.
- **`StartEnds`**: `Start` comes to its end whether or not the cluster can be joined.
- **`OneSession`, `Reconnects`, `CancelReturns`**: besides sessions that accept failed on while they were
  open, which stay open and registered until the server or the network ends them, the agent has
  at most one session; it comes back after a loss with one that is accepted from, and its accept
  returns once cancelled. `connect` looks only at `closeCtx`, so `CancelReturns` relies on the
  server answering in the end.
- **`ExpiryEnds`**: once its token has expired an endpoint is unregistered for good, also if
  the session was being set up or dialled again.
- **`NoLeak`**: every connection has a goroutine that is still to close it. The dialled end of a
  handler of `ListenAndForward` and of the forwarder has only its copy.
- **`CloseEnds`**: `Close` of the agent's TCP proxy can miss a connection that was accepted but is not
  yet in the table; it ends anyway, because closing the listener has closed its stream. The
  premise (`Stopped`) leaves out a request that was already sent and a session that was abandoned,
  which `Close` does not reach.
- **`TunnelEnds`**: the copies end each other, unless a peer does not read and never will.

### Bounds

- Gossip: one key, one value and versions up to 4 are enough for write, delete,
  compact and write again, which gives an old entry, a tombstone, a compact entry
  and a new one under one key. `CompactThreshold` is 1 (100 in the code; every proof
  is for any positive threshold). Three nodes let entries reach one through another.
  Two packets are in flight, so that one overtakes the other, until the relay (`Relays`) has
  joined; from then on one, which may stay while everything else happens and be received
  again. One node suspects and removes (`Detectors`). With two packets in flight throughout TLC does
  not finish in reasonable time; the proofs have no such bound.
- Membership: two observers, because each can hold what the other has forgotten; an expiry
  of two ticks, suspicion after one, and one tick for a leave to spread keep the order
  of the code's durations (a round takes a fraction of a second, suspicion some seconds,
  `nodeExpiry` is a minute).
- Routing: versions up to 7 or 8 allow both addresses, an endpoint added, deleted,
  compacted and added again; two removals allow the owner to be rediscovered from
  old packets twice. Relay and suspicion are in separate runs: with both, TLC needs
  eight minutes (13.4 million states at version 8); the same properties held.
  One digest and one delta are in flight at a time, but either may be used again.
- Upstream: three connections on one endpoint and one on another, connecting and
  disconnecting any number of times; the first endpoint may also be on another node.
- Failure detector: a buffer of three wraps around several times within 14 ticks.
- Proxy: two nodes are what a request may visit, and `MaxHops` has room for a third
  handler, which `OneHop` shows is never used. With three nodes the same properties held in
  over four minutes.
- Lifecycle: one upstream connection and one request; they do not interact with
  others of their kind. Two connections took ten minutes, with the same result.
  `Retries` is 1 (5 in the code), which has attempts below, at and above it.
- Agent: two sessions, because one that is over stands for a later one, and one
  connection. One session may be abandoned at a time (`MaxAbandoned`), and from the first stream on
  there is one session at a time (`Apart`): a stream depends on its own session only.

The bounds `Writers`, `Suspectable`, `Detectors`, `Relays`, `Relayed`, `MaxVersion`, `MaxInFlight`,
`MaxListeners`, `MaxRemovals`, `MaxTime`, `MaxHops`, `MaxAbandoned` and `Apart` restrict what TLC explores and are named as such in the modules.
They stop the owner from changing for ever, which `Converges` relies on: its premise
is an owner that stops.

### Fairness

`Routing`: every node gossips at an interval with a node picked at random, and UDP
loses only some packets. So what is possible again and again of discovering the
owner, sending a digest, answering and receiving happens (strong fairness), and a
delta that is being applied gets applied (weak fairness). Nothing forces the owner to
change, to compact, to leave or to be suspected. `Membership`: time goes on and the scheduled
functions run (weak fairness); no packet has to arrive. `Upstream`: a handler that has begun
goes on, a mutex that becomes free again and again is got in the end (strong fairness:
Go's mutexes do not starve a waiter), and requests keep coming. No connection is
forced to open or close.

In the other modules a goroutine that can run does, and a timer that is set fires
(weak fairness). A copy ends when the call it is in fails: a `Read` of an end that is closed, by
whomever, and a `Write` to an end that this process has closed or whose session or node is gone. Nothing
makes a peer read what is written to it, so a copy may stay in a `Write` for ever; `NoOrphans`, `CloseEnds` and
`TunnelEnds` say so. Data that comes before a close counts as read before it. Nothing makes an
upstream answer, a client or a peer close, a server fail, a signal come, a token expire, or a node that is told of a leave reply. `Agent` has
strong assumptions where something is tried for ever: of ever new attempts to connect one is
answered, with a session or with a refusal; of ever new waits under a cancelled context one
takes the cancellation rather than the timer, between which `select` chooses at random. An end
of a session notices in the end that the other end is gone.

### Disagreements found

- `routing_removed`. `RemoveExpired` forgets a node together with its version, but the
  answer to a digest with that version may be under way. Applying it adds the node
  again, at version 0, and then moves its version past entries that were not in
  the delta: the addresses. No later digest asks for them, so the node stays pending
  although it is reachable, until it compacts or restarts.
  `server/cluster/state.go:14` says "This state is eventually consistent.", and
  `server/gossip/syncer.go:22` relies on updates that come in order. This is why `NoGap`
  and `CaughtUp` are stated for nodes that nobody has removed.

- `membership_crashed`. A digest lists unreachable nodes like all others, and each node
  removes an unreachable node at a time of its own. One that has removed a crashed node
  discovers it again, at version 0, from one that has not, and two survivors can keep
  it alive for ever, each removing it while the other has it. `pkg/gossip/state.go:20` calls
  `nodeExpiry` "the duration a left or unreachable node is stored until it is is removed".
  For nodes that left, `LeftForgotten` holds, because digests mark them.

Five more statements of the repository are refuted by configurations kept beside the runs:

- `GossipLeft.cfg`, `LeftIsFinal`. `pkg/gossip/gossip.go:194` says of `Leave` "After the node has
  left it's state should not be updated again." `UpsertLocal`, `DeleteLocal` and
  `CompactLocal` do not look at `Left`, and the compaction scheduler and the handlers of
  upstreams that disconnect go on until `Close`.
- `ProxyTCP.cfg`, `TCPStaysOpen`. A TCP connection to an upstream of another node is forwarded by
  `ServeHTTPWithUpstream`, whose timeout, meant for HTTP requests, cancels the request's
  context; `ReverseProxy` then closes the upgraded connection. A connection to an upstream
  of the same node has no such limit. `server/proxy/tcpproxy.go:62` explains the forwarding as
  transparent.
- `LifecycleGone.cfg`, `UpstreamsGone`. `server/server.go:300` says "Now we no longer have any
  connected upstreams"; the upstream handlers have been told to end, but nothing waits
  for them. `UpstreamsClosed` is what does hold.
- `LifecycleJoin.cfg`, `JoinRetries`. `server/gossip/gossip.go:71` says "This will retry 5 times
  (with backoff)." `Backoff.Wait` compares the attempts with the limit before it counts the next
  one, by `>`, so there are six waits and seven attempts.
- `AgentClose.cfg`, `CloseUnregisters`. `agent/client/listener.go:39` says "Closing the listener will
  unregister for the endpoint." `Close` closes `l.sess`. A session that a reconnect has opened but not
  yet assigned to it, one whose request was sent before `Close` and answered after, and one that
  was abandoned are not closed.

Three more were met by reading and need no model. `server/cluster/state.go:206` says that the
callback "is called with the cluster mutex locked"; the code unlocks first, and the
subscriber, which reads the count back, relies on that. `Leave` says that it notifies up to
three nodes (`pkg/gossip/gossip.go:191`) but stops after the fourth (`pkg/gossip/gossip.go:234`).
`nextWait` of the backoff does not look at `maxBackoff`.

## Proofs

Each theorem is for every value of the constants: any nodes, keys, connections, requests
and sessions, and any bounds.

| Module | Theorem | States |
|---|---|---|
| `GossipProofs` | `Invariance` | `Spec => []IInv` |
| | `TypeCorrect`, `NoGapHolds`, `CaughtUpHolds`, `OwnerAheadHolds` | `Spec => []TypeOK`, `[]NoGap`, `[]CaughtUp`, `[]OwnerAhead` |
| | `ForwardHolds` | `Spec => Forward` |
| `RoutingProofs` | `PlacedHolds`, `MirrorsHolds`, `GaugeCountsHolds` | `Spec => []Placed`, `[]Mirrors`, `[]GaugeCounts` |
| | `WalkIsApplyHolds`, `AddedInTimeHolds` | `Spec => []WalkIsApply`, `[]AddedInTime` |
| | `NoFlapHolds` | `Spec => NoFlap` |
| `FailureDetectorProofs` | `WindowSumHolds`, `PhiDefinedHolds` | `Spec => []WindowSum`, `[]PhiDefined` |
| | `VerdictsHolds` | `Spec => Verdicts` |
| `UpstreamProofs` | `CountsAgreeHolds`, `NextInBoundsHolds` | `Spec => []CountsAgree`, `[]NextInBounds` |
| | `RegistersSafely` | `Spec => R!Spec` |
| `ProxyProofs` | `OneHopHolds`, `RefusedForCauseHolds` | `Spec => []OneHop`, `[]RefusedForCause` |
| `LifecycleProofs` | `ReadyServesHolds`, `LeavesFirstHolds` | `Spec => []ReadyServes`, `[]LeavesFirst` |
| | `FatalIsFailureHolds` | `Spec => FatalIsFailure` |
| `AgentProofs` | `OneSessionHolds`, `NoLeakHolds` | `Spec => []OneSession`, `[]NoLeak` |

`GossipStateProofs` holds the lemmas on the operators of `GossipState`, which `GossipProofs` and
`RoutingProofs` share.

Assumptions: `StateAssumption` (the application does not write the internal keys; the
compaction threshold is positive, without which `CompactLocal` would index an empty slice),
`GossipAssumption` and `RoutingAssumption` (types of the constants; the two address keys are
keys), `UpstreamAssumption` (every connection has an endpoint, and there are finitely many
connections), `ProxyAssumption` (nodes and connections are different things, and there is room
for a second handler of a request), `DetectorAssumption` (sample size, bootstrap interval and
threshold are positive), `AgentAssumption` (types of the bounds). `LifecycleProofs` assumes nothing.

### Gossip

`NoGap` is not inductive. A view is built from deltas that were computed, possibly
by a relay, from views of other times, so `IInv` has to say what every view and every
delta in flight holds, compared with what the owner has now:

- `OwnerOK`, of the owner's own state: at most one entry for a key, no version above
  its own, the top version in use, and everything above the compact version.
- `ViewOK`, of a view at version `v`: it holds every current entry of the owner up to
  `v`; whatever else it holds, the owner has replaced or compacted, by an entry with
  a version above `v`, so the correction is still to come.
- `DeltaOK`, of a delta computed for version `base`: it has no gap above `base` up to
  its last entry, and what it holds that is out of date is corrected above its last
  entry. The receiver has reached `base`, and as views move forward it still has when
  the delta arrives, however late.

An owner's operation preserves `ViewOK` and `DeltaOK` because each new entry gets a
version above all others (`Evolves` in the proofs); cutting a delta off preserves `DeltaOK`;
applying a delta to a view gives a view; computing a delta from a view gives a delta.
When a node's state is removed its view falls back to version 0, below the `base` of
deltas in flight, and these clauses are lost. That is what `expired` records and what
`routing_removed` shows to be real. `OwnerAhead` does not need them.

TLC checks `IInv` in the run `gossip`, where it is also shown that a plausible error in
`deltaEntry` breaks it. `OwnerAhead` says that nobody is ahead of an owner or thinks it left when it
has not.

### Routing

`Placed` and `Mirrors` do not depend on where deltas come from, how late they are or what was
removed: every callback keeps them, given any entry. The invariant of `RoutingProofs` says
that the owner is in one of three places (`Absent`, `IsPending`, `IsAdded`), each with what gossip must
then know. It needs two facts that the properties do not state. Gossip has one
entry for a key (`OneEach`): otherwise a compaction could discard one entry for an endpoint, tell
the watcher, and keep another. And a pending node without a status may become active
when it is complete only because a node that is unreachable has that status while pending, and
one that has left is not pending. The metric follows because `AddNode`, which does not
subtract, is called only for a node that is not in the cluster.

`WalkIsApply`, `AddedInTime` and `NoFlap` do depend on where deltas come from. A second invariant, `Honest`,
says of the views of the relay and the observer what `ViewOK` says, and of the delta in flight
and of what is left of the one being applied what `DeltaOK` says; in addition

- an address that the owner has published is neither deleted nor empty (`Addresses`), so a
  compaction only moves it to a new version;
- a delta has one entry for a key and one of a version (`Slice`), so there is one order
  to apply it in;
- a pending node has the addresses that gossip has of it (`Heard`).

For `WalkIsApply` the proof shows that applying the first entry and then the others in closed
form is applying them all, which is one step of the loop; the steps of a behaviour are
the induction. `NoFlap`: an entry that replaces or discards a route comes from the owner, which
has then replaced or dropped it at no later version. What `Honest` says of freshness ends with the first removal,
and both properties have that as a condition.

### Failure detector

`WindowSum` is about a sum of any number of intervals. An interval is the difference of two
timestamps, so a sum of successive intervals is one difference as well: the invariant
has the timestamps, as a function `T` that exists (`Differences`), with one before the first message for the
bootstrap interval, and says that the running sum is the difference of two of them (`Ring`). It also
says which sample each position of the circular buffer has: one of the present round below the
index, one of the round before from there on. That is what `Add` needs to subtract the right one.
Timestamps grow, so the sum is positive (`PhiDefined`); and if the silence were at most the
threshold times every recent interval it would be at most the threshold times their mean
(`Verdicts`). Both are the lemma `Growth`, which is proved from a least counterexample.

### Lifecycle

The invariant says how far `Start` or `Shutdown` has come when a flag is set or a goroutine is in
some state. The fact that connects them: only `Shutdown` closes the listener of a server that has not
failed, so until then every server listens or has failed, and a goroutine that returned
without an error has seen `shutdown`.

### Upstream

Load balancer, cluster state, gossip and `ConnectedUpstreams` record a connection at different
steps of its handler. The invariant of `UpstreamProofs` says of each that it counts exactly the connections
whose handlers are past that step (`Balanced`, `Counted`, `Told`, `Metered`), and that at most one handler is
between steps (`Locked`). Hence, when nobody holds the manager's mutex, all count the open
connections. The count the subscriber has read back is still right when it is written.
The lemmas on `Holds` show that a load balancer holds each of its upstreams once and that `nextIndex` is in
range, through `Add`, `Remove` and `Next`. `RegistersSafely` maps each step to one of `Registry` or to
none: `AddConn` is `Register`, the write to gossip is `Advertise`, and the invariant gives the guard
`Settled`, that the last registration has been advertised.

### Proxy

`OneHop` holds by what the first and the second handler of a request may select: the first may choose
another node, and marks what it forwards; the second may only choose an upstream (`Placed` in
`ProxyProofs`). For `RefusedForCause` the invariant carries along, as long as nothing has gone wrong since
the request arrived, that what was selected is still there (`Good`). The steps of the copies
change neither.

### Agent

`OneSession` needs that `connect` is reached only with no session open but abandoned ones: an accept
fails with its session open if its context was cancelled, and then the goroutine returns, or with the
session abandoned. `NoLeak` needs the types of the handlers' state, and that there are copies only
between the dial and the return of a handler.

### Only model-checked

`LeaveIsFinal` of `Membership`, which depends on how the ages of packets, the silence of the subject and the
timers of all observers bound each other; its inductive invariant has not been found yet. And,
beyond the prover's reach, the liveness properties (`Converges`, `LeftForgotten`, `NoStarvation`, `HandlersEnd`, `Answered`,
`ShutdownEnds` and the like, and the fairness of `Registry`).

Data induction is out of reach as a schema, but not where a least counterexample does: `Growth`
and `TotalIs` in `FailureDetectorProofs` take the least index at which a claim fails.

## Not modelled

Wire encoding beyond where it cuts off a packet, and packets too small for one entry or one
digest entry; addresses and DNS; metrics other than `Nodes`, `RegisteredEndpoints` and
`ConnectedUpstreams`; wall-clock time outside `FailureDetector` and `Membership`, so elsewhere an expiry or a timeout
may come at once. How many nodes `Leave` tells. The cryptography and the claims of a token:
whether it permits the endpoint is one choice at the start. The length of the waits of a
backoff. The status pages of the admin server and their forwarding, which only
read. How the proxy reads the endpoint from a request: `Proxy` has one endpoint.
`pkg/websocket/conn.go` turns messages into a byte stream with one reader and one writer, without
state that others see. TLS, HTTP, WebSocket and yamux are external libraries.
Configuration, commands, logging, middleware and workload tools parse, count or print.

## Plan

1. A proof of `LeaveIsFinal` of `Membership` for any number of observers.
2. Packet sizes: a digest or an entry that fills a packet.
3. `Conn`: reads against message boundaries.

## Running

    tlc -workers 2 -config Gossip.cfg MCGossip
    tlc -workers 2 -config AgentClose.cfg MCAgent
    tlapm UpstreamProofs.tla

From nothing `RoutingProofs` takes about a quarter of an hour, `UpstreamProofs` nine minutes and
`FailureDetectorProofs` six; the other proofs take less. Some leaves need most of their time limit on a busy
machine.
