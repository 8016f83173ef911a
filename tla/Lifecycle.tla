----------------------------- MODULE Lifecycle -----------------------------
(***************************************************************************)
(* The life of a server node (server/server.go).  Start, Wait and Shutdown *)
(* run one after the other in the main goroutine, beside the goroutines of *)
(* runGoroutine, the handlers of upstream connections and proxy requests,  *)
(* and the goroutine of Leave.                                             *)
(*                                                                         *)
(* Shutdown of an http.Server closes the listener, which makes Serve       *)
(* return, and waits for the requests in progress or for the grace period  *)
(* to end.  An upgraded connection is not such a request any more.         *)
(***************************************************************************)
EXTENDS Naturals

CONSTANTS
    Conns,              \* upstream connections
    Requests,           \* proxy requests
    AbortIfJoinFails,   \* of the configuration
    Retries             \* the retries of JoinOnStartup, 5 in the code

ASSUME LifecycleAssumption ==
    /\ AbortIfJoinFails \in BOOLEAN
    /\ Retries \in Nat \ {0}

Servers == {"admin", "upstream", "proxy"}

\* The goroutines of runGoroutine: the servers and the usage reporter.
Goroutines == Servers \cup {"usage"}

VARIABLES
    pc,         \* where the main goroutine is
    joined,     \* whether JoinOnBoot has joined a node
    attempts,   \* attempts of the backoff of JoinOnStartup
    ready,      \* what the route /ready says
    shutdown,   \* the flag shutdown
    deadline,   \* whether the grace period is over
    gossip,     \* "off", "on" or "closed"
    listening,  \* the servers whose listeners are open
    usage,      \* whether the context of the reporter is not cancelled
    running,    \* running[g]: "off", "on", "failed", "closed" or "done"
    fatal,      \* whether fatalCh is closed
    conns,      \* conns[c]: "none", "request", "upgraded", "open" or "gone"
    cancelled,  \* whether the context of the upstream server is cancelled
    requests,   \* requests[r]: "none", "active" or "done"
    leave       \* the goroutine of Leave: "off", "on", "left" or "done"

vars == <<pc, joined, attempts, ready, shutdown, deadline, gossip, listening, usage,
          running, fatal, conns, cancelled, requests, leave>>

\* What the main goroutine changes beside pc, and what the others change.
mainVars == <<joined, attempts, ready, shutdown, gossip, usage, cancelled>>

otherVars == <<deadline, fatal, conns, requests>>

Init ==
    /\ pc = "start"
    /\ joined = FALSE
    /\ attempts = 0
    /\ ready = FALSE
    /\ shutdown = FALSE
    /\ deadline = FALSE
    /\ gossip = "off"
    /\ listening = Servers
    /\ usage = TRUE
    /\ running = [g \in Goroutines |-> "off"]
    /\ fatal = FALSE
    /\ conns = [c \in Conns |-> "none"]
    /\ cancelled = FALSE
    /\ requests = [r \in Requests |-> "none"]
    /\ leave = "off"

Goto(from, to) == pc = from /\ pc' = to

-----------------------------------------------------------------------------
(***************************************************************************)
(* Start.                                                                  *)
(***************************************************************************)

runGoroutine(G) ==
    running' = [g \in Goroutines |-> IF g \in G THEN "on" ELSE running[g]]

\* Usage reporting may be disabled.
StartAdmin ==
    /\ Goto("start", "gossip")
    /\ runGoroutine({"admin"}) \/ runGoroutine({"admin", "usage"})
    /\ UNCHANGED <<mainVars, otherVars, listening, leave>>

\* A gossip listener may fail to open.
startGossip ==
    /\ \/ Goto("gossip", "boot") /\ gossip' = "on"
       \/ Goto("gossip", "aborted") /\ gossip' = "off"
    /\ UNCHANGED <<joined, attempts, ready, shutdown, usage, cancelled, otherVars,
                   listening, running, leave>>

JoinOnBoot ==
    /\ Goto("boot", "serve")
    /\ joined' \in BOOLEAN
    /\ UNCHANGED <<attempts, ready, shutdown, gossip, usage, cancelled, otherVars,
                   listening, running, leave>>

StartServers ==
    /\ Goto("serve", "ready")
    /\ runGoroutine({"upstream", "proxy"})
    /\ UNCHANGED <<mainVars, otherVars, listening, leave>>

SetReady ==
    /\ Goto("ready", IF joined THEN "wait" ELSE "join")
    /\ ready' = TRUE
    /\ UNCHANGED <<joined, attempts, shutdown, gossip, usage, cancelled, otherVars,
                   listening, running, leave>>

\* JoinOnStartup joins a node; the backoff ends with the function.
Joined ==
    /\ Goto("join", "wait")
    /\ attempts' = 0
    /\ UNCHANGED <<joined, ready, shutdown, gossip, usage, cancelled, otherVars,
                   listening, running, leave>>

\* Mutant: the attempts are not counted.
JoinAgainForever ==
    /\ attempts <= Retries
    /\ Goto("join", "backoff")
    /\ UNCHANGED <<mainVars, otherVars, listening, running, leave>>

\* It joins none, and Wait of the backoff begins.
JoinAgain ==
    /\ attempts <= Retries
    /\ Goto("join", "backoff")
    /\ attempts' = attempts + 1
    /\ UNCHANGED <<joined, ready, shutdown, gossip, usage, cancelled, otherVars,
                   listening, running, leave>>

\* The timer of Wait.
Backoff ==
    /\ Goto("backoff", "join")
    /\ UNCHANGED <<mainVars, otherVars, listening, running, leave>>

\* Wait returns false: too many attempts, or JoinTimeout has passed.
JoinFailed ==
    /\ LET to == IF AbortIfJoinFails THEN "aborted" ELSE "wait"
       IN  (attempts > Retries /\ Goto("join", to)) \/ Goto("backoff", to)
    /\ attempts' = 0
    /\ UNCHANGED <<joined, ready, shutdown, gossip, usage, cancelled, otherVars,
                   listening, running, leave>>

-----------------------------------------------------------------------------
(***************************************************************************)
(* Wait and Shutdown.                                                      *)
(***************************************************************************)

\* Mutant: the node stays ready.
ShutdownReady ==
    /\ Goto("wait", "stop_upstream")
    /\ shutdown' = TRUE
    /\ UNCHANGED <<joined, attempts, ready, gossip, usage, cancelled, otherVars,
                   listening, running, leave>>

\* Mutant: the flag is not set.
ShutdownUnmarked ==
    /\ Goto("wait", "stop_upstream")
    /\ ready' = FALSE
    /\ UNCHANGED <<joined, attempts, shutdown, gossip, usage, cancelled, otherVars,
                   listening, running, leave>>

\* The start of Shutdown.
Shutdown ==
    /\ Goto("wait", "stop_upstream")
    /\ shutdown' = TRUE
    /\ ready' = FALSE
    /\ UNCHANGED <<joined, attempts, gossip, usage, cancelled, otherVars, listening,
                   running, leave>>

\* Wait returns from its select on a signal, which may come at any time.
Signal == Shutdown

Fatal == fatal /\ Shutdown

\* The Shutdown of server s is called: its listener is closed.
CloseListener(s, from, to) ==
    /\ Goto(from, to)
    /\ listening' = listening \ {s}
    /\ UNCHANGED <<mainVars, otherVars, running, leave>>

\* Mutant: upstream connections are left to the server.
ShutdownUpstreamKeeps ==
    /\ Goto("drain_upstream", "stop_proxy")
    /\ deadline \/ \A c \in Conns : conns[c] # "request"
    /\ UNCHANGED <<mainVars, otherVars, listening, running, leave>>

shutdownUpstreamServer ==
    /\ Goto("drain_upstream", "stop_proxy")
    /\ deadline \/ \A c \in Conns : conns[c] # "request"
    /\ cancelled' = TRUE
    /\ UNCHANGED <<joined, attempts, ready, shutdown, gossip, usage, otherVars,
                   listening, running, leave>>

\* Mutant: there is no grace period.
ShutdownProxyWaits ==
    /\ Goto("drain_proxy", "leave")
    /\ \A r \in Requests : requests[r] # "active"
    /\ UNCHANGED <<mainVars, otherVars, listening, running, leave>>

shutdownProxyServer ==
    /\ Goto("drain_proxy", "leave")
    /\ deadline \/ \A r \in Requests : requests[r] # "active"
    /\ UNCHANGED <<mainVars, otherVars, listening, running, leave>>

\* Leave starts a goroutine.
Leave ==
    /\ Goto("leave", "leaving")
    /\ leave' = "on"
    /\ UNCHANGED <<mainVars, otherVars, listening, running>>

\* Mutant: Leave does not wait for the goroutine.
LeaveReturnsEarly ==
    /\ Goto("leaving", "close")
    /\ UNCHANGED <<mainVars, otherVars, listening, running, leave>>

\* Leave returns the result of the goroutine, or that time is up.
LeaveReturns ==
    /\ Goto("leaving", "close")
    /\ deadline \/ leave = "done"
    /\ UNCHANGED <<mainVars, otherVars, listening, running, leave>>

Close ==
    /\ Goto("close", "stop_admin")
    /\ gossip' = "closed"
    /\ UNCHANGED <<joined, attempts, ready, shutdown, usage, cancelled, otherVars,
                   listening, running, leave>>

\* No property is about admin requests: they may end at any time.
shutdownAdminServer ==
    /\ Goto("drain_admin", "stop_usage")
    /\ UNCHANGED <<mainVars, otherVars, listening, running, leave>>

shutdownUsageReporting ==
    /\ Goto("stop_usage", "goroutines")
    /\ usage' = FALSE
    /\ UNCHANGED <<joined, attempts, ready, shutdown, gossip, cancelled, otherVars,
                   listening, running, leave>>

\* wg.Wait.
WaitGoroutines ==
    /\ Goto("goroutines", "stopped")
    /\ \A g \in Goroutines : running[g] \in {"off", "done"}
    /\ UNCHANGED <<mainVars, otherVars, listening, running, leave>>

Main ==
    \/ StartAdmin
    \/ startGossip
    \/ JoinOnBoot
    \/ StartServers
    \/ SetReady
    \/ Joined
    \/ JoinAgain
    \/ Backoff
    \/ JoinFailed
    \/ Fatal
    \/ CloseListener("upstream", "stop_upstream", "drain_upstream")
    \/ shutdownUpstreamServer
    \/ CloseListener("proxy", "stop_proxy", "drain_proxy")
    \/ shutdownProxyServer
    \/ Leave
    \/ LeaveReturns
    \/ Close
    \/ CloseListener("admin", "stop_admin", "drain_admin")
    \/ shutdownAdminServer
    \/ shutdownUsageReporting
    \/ WaitGoroutines

-----------------------------------------------------------------------------
(***************************************************************************)
(* The other goroutines.                                                   *)
(***************************************************************************)

\* ctx of Shutdown: the grace period ends.
Deadline ==
    /\ shutdown
    /\ ~deadline
    /\ deadline' = TRUE
    /\ UNCHANGED <<pc, mainVars, listening, running, fatal, conns, requests,
                   leave>>

SetRunning(g, from, to) ==
    /\ running[g] = from
    /\ running' = [running EXCEPT ![g] = to]

\* Serve returns an error, its listener closed behind it.
Fail(s) ==
    /\ s \in listening
    /\ SetRunning(s, "on", "failed")
    /\ listening' = listening \ {s}
    /\ UNCHANGED <<pc, mainVars, otherVars, leave>>

\* Serve returns as Shutdown was called, the reporter as Stop was.
Closed(g) ==
    /\ SetRunning(g, "on", "closed")
    /\ IF g = "usage" THEN ~usage ELSE g \notin listening
    /\ UNCHANGED <<pc, mainVars, otherVars, listening, leave>>

\* Mutant: a failure is only logged.
DoneLogs(g) ==
    /\ SetRunning(g, "failed", "done") \/ SetRunning(g, "closed", "done")
    /\ UNCHANGED <<pc, mainVars, otherVars, listening, leave>>

\* What follows f() in runGoroutine.
Done(g) ==
    /\ SetRunning(g, "failed", "done") \/ SetRunning(g, "closed", "done")
    /\ fatal' = (fatal \/ ~shutdown)
    /\ UNCHANGED <<pc, mainVars, deadline, conns, requests, listening, leave>>

SetConn(c, from, to) ==
    /\ conns[c] = from
    /\ conns' = [conns EXCEPT ![c] = to]
    /\ UNCHANGED <<pc, mainVars, deadline, fatal, requests, listening, running,
                   leave>>

\* An upstream dials the upstream server.
Dial(c) ==
    /\ "upstream" \in listening
    /\ running["upstream"] = "on"
    /\ SetConn(c, "none", "request")

\* Upgrade hijacks the connection, or the request is refused.
Upgrade(c) == SetConn(c, "request", "upgraded") \/ SetConn(c, "request", "gone")

AddConn(c) == SetConn(c, "upgraded", "open")

\* AcceptStreamWithContext fails as the context is cancelled.
Cancelled(c) == cancelled /\ SetConn(c, "open", "gone")

\* The session is lost or the token expires.
Lost(c) == SetConn(c, "open", "gone")

\* A proxy request comes in, or ends.
SetRequest(r, from, to) ==
    /\ requests[r] = from
    /\ requests' = [requests EXCEPT ![r] = to]
    /\ UNCHANGED <<pc, mainVars, deadline, fatal, conns, listening, running,
                   leave>>

ProxyRequest(r) ==
    /\ "proxy" \in listening
    /\ running["proxy"] = "on"
    /\ SetRequest(r, "none", "active")

ProxyResponse(r) == SetRequest(r, "active", "done")

\* The goroutine of Leave: LeaveLocal, then other nodes are notified.
Leaving(from, to) ==
    /\ leave = from
    /\ leave' = to
    /\ UNCHANGED <<pc, mainVars, otherVars, listening, running>>

Next ==
    \/ Main
    \/ Signal
    \/ Deadline
    \/ \E s \in Servers : Fail(s)
    \/ \E g \in Goroutines : Closed(g) \/ Done(g)
    \/ \E c \in Conns :
         Dial(c) \/ Upgrade(c) \/ AddConn(c) \/ Cancelled(c) \/ Lost(c)
    \/ \E r \in Requests : ProxyRequest(r) \/ ProxyResponse(r)
    \/ Leaving("on", "left")
    \/ Leaving("left", "done")

Spec == Init /\ [][Next]_vars

\* Goroutines that can run do, and the grace period ends.  Nothing makes a
\* signal come, an upstream dial or leave, or a request end; a node that is
\* told of the leave may never answer.
FairSpec ==
    /\ Spec
    /\ WF_vars(Main)
    /\ WF_vars(Deadline)
    /\ \A g \in Goroutines : WF_vars(Closed(g)) /\ WF_vars(Done(g))
    /\ \A c \in Conns : WF_vars(AddConn(c)) /\ WF_vars(Cancelled(c))

-----------------------------------------------------------------------------
(***************************************************************************)
(* Properties.                                                             *)
(***************************************************************************)

\* A node whose /ready route succeeds accepts upstreams and proxy requests,
\* unless the server that did has failed: SetReady(true) comes after both
\* servers are started and SetReady(false) before either is shut down.
ReadyServes ==
    ready => \A s \in {"upstream", "proxy"} :
                running[s] # "off"
                  /\ (s \in listening \/ running[s] \in {"failed", "done"})

\* While there is time left, Shutdown closes the gossip listeners only after
\* Leave has set the left state and told other nodes.
LeavesFirst == gossip = "closed" /\ ~deadline => leave = "done"

\* runGoroutine reports a fatal error only when a server failed: the return of
\* a goroutine that Shutdown asked to stop is not an error.
FatalIsFailure ==
    [][fatal' /\ ~fatal => \E g \in Goroutines : running[g] = "failed"]_vars

\* Start returns, also if the cluster is never joined: it is only then that Wait
\* looks at signals and at servers that failed.
StartEnds == <>(pc \in {"wait", "aborted"})

\* server/gossip/gossip.go:71: "This will retry 5 times (with backoff)."
JoinRetries == attempts <= Retries

\* Once Shutdown has started it ends, whatever the requests and the nodes told
\* of the leave do: the grace period bounds every wait.
ShutdownEnds == shutdown ~> pc = "stopped"

\* When a server fails the node is shut down by Wait, or its start is aborted.
FailureStops ==
    \A s \in Servers : running[s] = "failed" ~> pc \in {"stopped", "aborted"}

\* After Shutdown every upstream connection is closed for good, also the ones
\* that were being upgraded while it ran.
UpstreamsClosed ==
    pc = "stopped" ~> [](\A c \in Conns : conns[c] \notin {"upgraded", "open"})

\* The comment at server/server.go:300: when the proxy server is shut down
\* there are no connected upstreams left.
UpstreamsGone ==
    pc = "stop_proxy" => \A c \in Conns : conns[c] # "open"

=============================================================================
