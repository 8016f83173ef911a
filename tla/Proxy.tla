------------------------------- MODULE Proxy -------------------------------
(***************************************************************************)
(* Requests to one endpoint on their way through the proxy servers of the  *)
(* nodes (server/proxy): the node a client has reached picks an upstream   *)
(* connected to it, or forwards the request to a node that, by its routing *)
(* state, has one.  The routing state of a node follows the upstreams of   *)
(* the others with a delay (module Routing); Add, Remove and Next of the   *)
(* load balancer are those of module Upstream, here a choice.              *)
(*                                                                         *)
(* A request is handled by one node after the other: handler i + 1 serves  *)
(* what handler i has forwarded.                                           *)
(***************************************************************************)
EXTENDS Integers

CONSTANTS
    Nodes,
    Conns,      \* upstream connections; a closed one may connect again
    Requests,
    None,       \* no node and no upstream
    MaxHops     \* handlers of a request the model has room for

ASSUME ProxyAssumption ==
    /\ None \notin Nodes \cup Conns
    /\ Nodes \cap Conns = {}
    /\ MaxHops \in Nat \ {0, 1}

Hops == 1 .. MaxHops

VARIABLES
    up,         \* nodes that have not crashed
    node,       \* node[c]: the node whose manager has upstream c
    alive,      \* upstreams whose session is open
    routes,     \* routes[n]: the nodes LookupEndpoint of n may return
    hops,       \* hops[r][i]: handler i of request r
    settled     \* settled[r]: whether the routes were right, and nothing
                \* failed, from the arrival of r until now

vars == <<up, node, alive, routes, hops, settled>>

env == <<up, node, alive, routes>>

\* The connections of a handler: to the client, or the node before it, and to
\* what it has dialled.
Ends == {"down", "up"}

Other(e) == IF e = "down" THEN "up" ELSE "down"

\* A handler: its node, whether the request is a TCP connection and whether
\* it was forwarded, the upstream selected, the outcome, and of an open TCP
\* connection the ends still copied to and those a Write to is under way.
Handler(n, tcp, forwarded) ==
    [pc |-> "select", node |-> n, tcp |-> tcp, forwarded |-> forwarded,
     to |-> None, status |-> "", copies |-> {}, blocked |-> {}]

NoHandler ==
    [pc |-> "none", node |-> None, tcp |-> FALSE, forwarded |-> FALSE,
     to |-> None, status |-> "", copies |-> {}, blocked |-> {}]

Local(n) == {c \in Conns : node[c] = n}

HasUpstream(n) == Local(n) # {}

\* The routes are right: there is an upstream, every node is up and knows
\* which others have one, and every registered upstream can be dialled.
Settled ==
    /\ up = Nodes
    /\ \E c \in Conns : node[c] # None
    /\ \A c \in Conns : node[c] # None => c \in alive
    /\ \A n \in Nodes : routes[n] = {m \in Nodes \ {n} : HasUpstream(m)}

\* The history variable, in every action.
Track ==
    settled' = [r \in Requests |->
                  (hops[r][1].pc = "none" \/ settled[r]) /\ Settled']

Init ==
    /\ up = Nodes
    /\ node = [c \in Conns |-> None]
    /\ alive = {}
    /\ routes = [n \in Nodes |-> {}]
    /\ hops = [r \in Requests |-> [i \in Hops |-> NoHandler]]
    /\ settled = [r \in Requests |-> FALSE]

-----------------------------------------------------------------------------
(***************************************************************************)
(* The nodes and the upstreams.                                            *)
(***************************************************************************)

\* A new session: c stands for no session that a handler still refers to.
Connect(c, n) ==
    /\ c \notin alive /\ node[c] = None
    /\ \A r \in Requests, i \in Hops : hops[r][i].to # c
    /\ n \in up
    /\ node' = [node EXCEPT ![c] = n]
    /\ alive' = alive \cup {c}
    /\ UNCHANGED <<up, routes, hops>>
    /\ Track

\* The session fails: its handler has still to call RemoveConn.
SessionLost(c) ==
    /\ c \in alive
    /\ alive' = alive \ {c}
    /\ UNCHANGED <<up, node, routes, hops>>
    /\ Track

RemoveConn(c) ==
    /\ node[c] # None /\ c \notin alive
    /\ node' = [node EXCEPT ![c] = None]
    /\ UNCHANGED <<up, alive, routes, hops>>
    /\ Track

\* Gossip brings the routing state of n about m up to date.
SyncRoute(n, m) ==
    /\ n # m /\ {n, m} \subseteq up
    /\ routes' = [routes EXCEPT ![n] =
                    IF HasUpstream(m) THEN @ \cup {m} ELSE @ \ {m}]
    /\ UNCHANGED <<up, node, alive, hops>>
    /\ Track

\* The failure detector of n suspects m, rightly or not.
DropRoute(n, m) ==
    /\ m \in routes[n]
    /\ routes' = [routes EXCEPT ![n] = @ \ {m}]
    /\ UNCHANGED <<up, node, alive, hops>>
    /\ Track

Ended(h, status) ==
    [h EXCEPT !.pc = "done", !.status = status, !.copies = {}, !.blocked = {}]

\* The handlers of n end without an answer, its sessions are lost.
Crash(n) ==
    /\ n \in up
    /\ up' = up \ {n}
    /\ alive' = alive \ Local(n)
    /\ node' = [c \in Conns |-> IF node[c] = n THEN None ELSE node[c]]
    /\ hops' = [r \in Requests |-> [i \in Hops |->
                  IF hops[r][i].node = n /\ hops[r][i].pc # "done"
                  THEN Ended(hops[r][i], "lost")
                  ELSE hops[r][i]]]
    /\ UNCHANGED routes
    /\ Track

-----------------------------------------------------------------------------
(***************************************************************************)
(* The handlers.                                                           *)
(***************************************************************************)

Set(r, i, h) ==
    /\ hops' = [hops EXCEPT ![r][i] = h]
    /\ UNCHANGED env
    /\ Track

End(r, i, status) == Set(r, i, Ended(hops[r][i], status))

\* Both directions of the TCP connection are copied from now on.
Open(r, i) == Set(r, i, [hops[r][i] EXCEPT !.pc = "open", !.copies = Ends])

At(r, i, pc) == hops[r][i].pc = pc

\* A client sends a request to node n.
Arrive(r, n) ==
    /\ At(r, 1, "none")
    /\ n \in up
    /\ \E tcp \in BOOLEAN : Set(r, 1, Handler(n, tcp, FALSE))

\* Mutant: a forwarded request may be forwarded again.
SelectableAgain(h) == IF HasUpstream(h.node) THEN Local(h.node) ELSE routes[h.node]

\* Mutant: a forwarded request is never served here.
SelectableNever(h) ==
    {u \in IF HasUpstream(h.node) THEN Local(h.node) ELSE routes[h.node] : ~h.forwarded}

\* What Select may return: local upstreams come first, and a request that was
\* forwarded is not forwarded again.
Selectable(h) ==
    IF HasUpstream(h.node) THEN Local(h.node) ELSE {m \in routes[h.node] : ~h.forwarded}

Select(r, i) ==
    /\ At(r, i, "select")
    /\ LET h == hops[r][i]
       IN  IF Selectable(h) = {}
           THEN End(r, i, "502")
           ELSE \E u \in Selectable(h) : Set(r, i, [h EXCEPT !.pc = "dial", !.to = u])

\* Dial of a ConnUpstream opens a stream of its session.  TCPProxy then
\* upgrades the connection of the client, or replies that it cannot.
DialConn(r, i) ==
    /\ At(r, i, "dial")
    /\ LET h == hops[r][i]
       IN  /\ h.to \in Conns
           /\ \/ h.to \notin alive /\ End(r, i, "502")
              \/ h.to \in alive /\ h.tcp /\ (Open(r, i) \/ End(r, i, "400"))
              \/ h.to \in alive /\ ~h.tcp /\ Set(r, i, [h EXCEPT !.pc = "wait"])

\* Dial of a NodeUpstream: the node is sent the request, marked as forwarded.
DialNode(r, i) ==
    /\ At(r, i, "dial")
    /\ i < MaxHops
    /\ LET h == hops[r][i]
       IN  /\ h.to \in Nodes
           /\ IF h.to \in up
              THEN /\ hops' = [hops EXCEPT
                                 ![r][i].pc = "wait",
                                 ![r][i + 1] = Handler(h.to, h.tcp, TRUE)]
                   /\ UNCHANGED env
                   /\ Track
              ELSE End(r, i, "502")

\* The upstream answers; it need not.
Respond(r, i) ==
    /\ At(r, i, "wait")
    /\ hops[r][i].to \in alive
    /\ End(r, i, "200")

\* The upstream is lost while it is awaited.
UpstreamLost(r, i) ==
    /\ At(r, i, "wait")
    /\ hops[r][i].to \in Conns \ alive
    /\ End(r, i, "502")

\* ReverseProxy passes on what the other node answers: a response, an error
\* or the upgrade of a TCP connection.  Nothing comes from a lost node.
Relay(r, i) ==
    /\ At(r, i, "wait")
    /\ hops[r][i].to \in Nodes
    /\ \/ At(r, i + 1, "open") /\ Open(r, i)
       \/ At(r, i + 1, "done")
            /\ LET status == hops[r][i + 1].status
               IN  \/ status \in {"200", "400", "502", "504"} /\ End(r, i, status)
                   \/ status = "lost" /\ End(r, i, "502")
                   \/ status = "closed" /\ Open(r, i)

\* Mutant: only a request forwarded to another node has a timeout.
ProxiedForward(h) == h.to \in Nodes

\* The requests that ServeHTTPWithUpstream serves: all but a TCP connection to
\* an upstream of this node, which has no timeout.
Proxied(h) == ~h.tcp \/ h.to \in Nodes

\* The context of the request is done.  Of a connection that was upgraded,
\* ReverseProxy closes the end to the other node.
Timeout(r, i) ==
    /\ Proxied(hops[r][i])
    /\ \/ (At(r, i, "dial") \/ At(r, i, "wait")) /\ End(r, i, "504")
       \/ /\ At(r, i, "open") /\ hops[r][i].status # "cut"
          /\ Set(r, i, [hops[r][i] EXCEPT !.status = "cut"])

\* The context of a forwarded request is also done when the node before has
\* closed the connection.
Abandoned(r, i) ==
    /\ i > 1
    /\ At(r, i - 1, "done")
    /\ Proxied(hops[r][i])
    /\ At(r, i, "dial") \/ At(r, i, "wait")
    /\ End(r, i, "abandoned")

-----------------------------------------------------------------------------
(***************************************************************************)
(* An open TCP connection.  The copy to one end is in a Read of the other, *)
(* or in a Write, where it stays for as long as the peer does not read.    *)
(* Of a WebSocket between two nodes each end is the peer of the other.     *)
(***************************************************************************)

\* The peer of an end of handler i has closed, if it is not the client.
DownGone(r, i) == i > 1 /\ (At(r, i - 1, "done") \/ hops[r][i - 1].status = "cut")

UpGone(r, i) ==
    IF hops[r][i].to \in Conns
    THEN hops[r][i].to \notin alive
    ELSE At(r, i + 1, "done") \/ (At(r, i + 1, "open") /\ "down" \notin hops[r][i + 1].copies)

Gone(r, i, e) == IF e = "down" THEN DownGone(r, i) ELSE UpGone(r, i)

\* Mutant: a copy that ends does not close its destination.
ReadableAlone(r, i, e) == ~Gone(r, i, e) /\ (e = "up" => hops[r][i].status # "cut")

\* Nobody has closed e: not its peer, the copy to it or the timeout.
Readable(r, i, e) ==
    /\ e \in hops[r][i].copies
    /\ ~Gone(r, i, e)
    /\ e = "up" => hops[r][i].status # "cut"

\* There is data.  What comes before a close counts as read before it.
Write(r, i, e) ==
    /\ At(r, i, "open")
    /\ e \in hops[r][i].copies \ hops[r][i].blocked
    /\ Readable(r, i, Other(e))
    /\ Set(r, i, [hops[r][i] EXCEPT !.blocked = @ \cup {e}])

Written(r, i, e) ==
    /\ e \in hops[r][i].blocked
    /\ Set(r, i, [hops[r][i] EXCEPT !.blocked = @ \ {e}])

\* The Read, or the Write, that the copy to e is in returns with an error: a
\* Write does if the other node or the session is gone, or by the timeout.
Fails(r, i, e) ==
    IF e \in hops[r][i].blocked
    THEN Gone(r, i, e) \/ (e = "up" /\ hops[r][i].status = "cut")
    ELSE ~Readable(r, i, Other(e))

\* The copy to e ends, because it fails or because the client, the upstream or
\* the network ends its Read or its Write, and closes e.  TCPProxy waits for
\* both copies; ReverseProxy for the first, and closes both ends.
CopyEnds(r, i, e) ==
    LET h == hops[r][i]
    IN  /\ At(r, i, "open")
        /\ e \in h.copies
        /\ IF h.to \in Nodes \/ h.copies = {e}
           THEN End(r, i, IF h.status = "cut" THEN "cut" ELSE "closed")
           ELSE Set(r, i, [h EXCEPT !.copies = @ \ {e}, !.blocked = @ \ {e}])

-----------------------------------------------------------------------------
Environment ==
    \/ \E c \in Conns, n \in Nodes : Connect(c, n)
    \/ \E c \in Conns : SessionLost(c) \/ RemoveConn(c)
    \/ \E n, m \in Nodes : SyncRoute(n, m) \/ DropRoute(n, m)
    \/ \E n \in Nodes : Crash(n)

\* The steps that wait for no peer.
Step(r, i) ==
    \/ Select(r, i)
    \/ DialConn(r, i)
    \/ DialNode(r, i)
    \/ UpstreamLost(r, i)
    \/ Relay(r, i)
    \/ Timeout(r, i)
    \/ Abandoned(r, i)

Handle(r, i) ==
    \/ Step(r, i)
    \/ Respond(r, i)
    \/ \E e \in Ends : Write(r, i, e) \/ Written(r, i, e) \/ CopyEnds(r, i, e)

Next ==
    \/ Environment
    \/ \E r \in Requests, n \in Nodes : Arrive(r, n)
    \/ \E r \in Requests, i \in Hops : Handle(r, i)

Spec == Init /\ [][Next]_vars

\* Handlers run, timers fire and calls that fail return.  Nothing makes an
\* upstream respond, a peer read or close, or gossip bring the routes up to
\* date.
FairSpec ==
    /\ Spec
    /\ \A r \in Requests, i \in Hops :
         /\ WF_vars(Step(r, i))
         /\ \A e \in Ends : WF_vars(CopyEnds(r, i, e) /\ Fails(r, i, e))

-----------------------------------------------------------------------------
(***************************************************************************)
(* Properties.                                                             *)
(***************************************************************************)

\* "We don't allow multiple hops" (server/proxy/httpproxy.go:78): a request is
\* handled by at most two nodes, and by two only if they differ, whatever
\* routes are stale.
OneHop ==
    \A r \in Requests, i \in Hops :
        ~At(r, i, "none")
          => i <= 2 /\ \A j \in 1 .. i - 1 : hops[r][j].node # hops[r][i].node

\* A request is refused with 502 only for a reason: if from its arrival on the
\* routes are right and nothing fails, Select finds an upstream on this node
\* or on the next one and it can be dialled.
RefusedForCause ==
    \A r \in Requests, i \in Hops : hops[r][i].status = "502" => ~settled[r]

\* Every request is answered, or its TCP connection opened, unless the node
\* that the client has reached crashes: errorHandler replies when the other
\* node or the upstream is lost, and the timeout when they hang.
Answered ==
    \A r \in Requests :
        At(r, 1, "select") ~> (At(r, 1, "open") \/ At(r, 1, "done"))

\* No handler outlives the request: what another node still does for it ends
\* after the handler that has forwarded it, unless it stays in a Write to an
\* upstream that does not read: forward waits for both copies, and neither
\* closes the end that the other one writes to.
NoOrphans ==
    \A r \in Requests, i \in Hops \ {1} :
        At(r, 1, "done") ~> \/ [](hops[r][i].pc \in {"none", "done"})
                            \/ []("up" \in hops[r][i].blocked)

\* "As it is a WebSocket connection the remote node can handle the connection"
\* (server/proxy/tcpproxy.go:64): an open TCP connection is ended by the
\* client, the upstream or a failure, as it is without the forwarding.
TCPStaysOpen ==
    \A r \in Requests, i \in Hops : hops[r][i].status # "cut"

=============================================================================
