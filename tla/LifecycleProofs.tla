--------------------------- MODULE LifecycleProofs ---------------------------
(***************************************************************************)
(* Proofs about Lifecycle, for all connections, requests and numbers of    *)
(* retries: ReadyServes, LeavesFirst and FatalIsFailure.                   *)
(***************************************************************************)
EXTENDS Lifecycle, TLAPS

\* Where the main goroutine is before it has started the upstream and the
\* proxy server, and from then on until Shutdown.
Booting == {"start", "gossip", "boot", "serve"}

Started == {"ready", "join", "backoff", "wait"}

\* Where it is in Shutdown: before Leave has returned, before Close, after.
Draining ==
    {"stop_upstream", "drain_upstream", "stop_proxy", "drain_proxy", "leave",
     "leaving"}

Ending == {"stop_admin", "drain_admin", "stop_usage", "goroutines", "stopped"}

Stopping == Draining \cup {"close"} \cup Ending

States == {"off", "on", "failed", "closed", "done"}

Public == {"upstream", "proxy"}

TypeInv ==
    /\ pc \in Booting \cup Started \cup {"aborted"} \cup Stopping
    /\ ready \in BOOLEAN
    /\ shutdown \in BOOLEAN
    /\ deadline \in BOOLEAN
    /\ usage \in BOOLEAN
    /\ fatal \in BOOLEAN
    /\ listening \in SUBSET Servers
    /\ running \in [Goroutines -> States]

\* The flags say where the main goroutine is.
FlagsInv ==
    /\ shutdown <=> pc \in Stopping
    /\ ready => pc \in Started \cup {"aborted"}
    /\ ~usage => shutdown
    /\ gossip = "closed" => pc \in Ending

\* Whether server s accepts connections, or has failed to.
Serves(s) == s \in listening \/ running[s] \in {"failed", "done"}

(***************************************************************************)
(* Only Shutdown closes a listener of a server that has not failed, so a   *)
(* goroutine that returned without an error has seen Shutdown.             *)
(***************************************************************************)
ServersInv ==
    /\ ~shutdown => \A s \in Servers : Serves(s)
    /\ pc \in Booting => \A s \in Public : running[s] = "off"
    /\ pc = "start" => running["admin"] = "off"
    /\ pc \in Started \/ ready => \A s \in Public : running[s] # "off"
    /\ \A g \in Goroutines : running[g] = "closed" => shutdown

\* From the return of Leave on, the goroutine of Leave is done or time is up.
LeaveInv == pc \in Ending \cup {"close"} => deadline \/ leave = "done"

IInv == TypeInv /\ FlagsInv /\ ServersInv /\ LeaveInv

-----------------------------------------------------------------------------
(***************************************************************************)
(* A step preserves the invariant.                                         *)
(***************************************************************************)

\* Nothing has been started at first.
LEMMA InitIInv == Init => IInv
<1> SUFFICES ASSUME Init PROVE IInv
  OBVIOUS
<1>1. TypeInv
  BY DEF Init, TypeInv, Booting, States, Goroutines
<1>2. FlagsInv
  BY DEF Init, FlagsInv, Started, Draining, Ending, Stopping
<1>3. ServersInv
  BY DEF Init, ServersInv, Serves, Goroutines, Servers, Public, Started
<1>4. LeaveInv
  BY DEF Init, LeaveInv, Ending
<1> QED  BY <1>1, <1>2, <1>3, <1>4 DEF IInv

\* The main goroutine moves within Start and starts no server.
LEMMA BootIInv ==
    ASSUME IInv,
           startGossip \/ JoinOnBoot \/ SetReady \/ Joined \/ JoinAgain \/ Backoff
             \/ JoinFailed
    PROVE  IInv'
<1>1. /\ <<shutdown, deadline, usage, fatal, listening, running, leave>>' =
          <<shutdown, deadline, usage, fatal, listening, running, leave>>
      /\ gossip' \in {gossip, "on", "off"}
      /\ pc \in Booting \cup Started /\ pc' \in Booting \cup Started \cup {"aborted"}
      /\ pc' # "start"
      /\ pc' \in Booting => pc \in Booting
      /\ ready' = ready \/ (ready' = TRUE /\ pc = "ready" /\ pc' \in Started)
      /\ pc' \in Started => pc \in Started
  BY DEF startGossip, JoinOnBoot, SetReady, Joined, JoinAgain, Backoff, JoinFailed,
         Goto, mainVars, otherVars, Booting, Started
<1>2. TypeInv'
  BY <1>1, Zenon DEF IInv, TypeInv
<1>3. FlagsInv'
  BY <1>1 DEF IInv, TypeInv, FlagsInv, Booting, Started, Draining, Ending, Stopping
<1>4. ServersInv'
  BY <1>1 DEF IInv, TypeInv, FlagsInv, ServersInv, Serves, Started
<1>5. LeaveInv'
  BY <1>1 DEF LeaveInv, Booting, Started, Ending
<1> QED  BY <1>2, <1>3, <1>4, <1>5 DEF IInv

\* Start starts the goroutines of the servers, whose listeners are open.
LEMMA StartIInv ==
    ASSUME IInv, StartAdmin \/ StartServers PROVE IInv'
<1>1. /\ <<ready, shutdown, deadline, gossip, usage, fatal, listening>>' =
          <<ready, shutdown, deadline, gossip, usage, fatal, listening>>
      /\ \/ pc = "start" /\ pc' = "gossip"
         \/ pc = "serve" /\ pc' = "ready"
  BY DEF StartAdmin, StartServers, Goto, mainVars, otherVars
<1>2. PICK G : /\ runGoroutine(G)
               /\ pc = "start" => G \in {{"admin"}, {"admin", "usage"}}
               /\ pc = "serve" => G = Public
  BY DEF StartAdmin, StartServers, Goto, Public
<1>3. \A g \in Goroutines :
        /\ g \in G => running'[g] = "on"
        /\ g \notin G => running'[g] = running[g]
  BY <1>2 DEF runGoroutine
<1>4. TypeInv'
  <2>1. running' \in [Goroutines -> States]
    BY <1>2 DEF IInv, TypeInv, runGoroutine, States
  <2> QED  BY <1>1, <2>1 DEF IInv, TypeInv, Booting, Started
<1>5. ~shutdown /\ \A s \in G \cap Servers : s \in listening
  BY <1>1, <1>2 DEF IInv, TypeInv, FlagsInv, ServersInv, Serves, Servers, Public,
     Draining, Ending, Stopping, Booting
<1>6. FlagsInv'
  BY <1>1 DEF IInv, FlagsInv, Booting, Started, Draining, Ending, Stopping
<1>7. ServersInv'
  <2>1. \A s \in Servers : Serves(s)'
    BY <1>1, <1>3, <1>5 DEF IInv, ServersInv, Serves, Goroutines
  <2>2. pc' \in Booting => \A s \in Public : running'[s] = "off"
    BY <1>1, <1>2, <1>3
       DEF IInv, ServersInv, Goroutines, Servers, Public, Booting
  <2>3. pc' \in Started \/ ready' => \A s \in Public : running'[s] # "off"
    BY <1>1, <1>2, <1>3
       DEF IInv, FlagsInv, Goroutines, Servers, Public, Started
  <2>4. \A g \in Goroutines : running'[g] = "closed" => shutdown'
    BY <1>1, <1>3 DEF IInv, ServersInv
  <2> QED  BY <1>1, <2>1, <2>2, <2>3, <2>4 DEF ServersInv
<1>8. LeaveInv'
  BY <1>1 DEF LeaveInv, Ending
<1> QED  BY <1>4, <1>6, <1>7, <1>8 DEF IInv

\* The start of Shutdown: the node is not ready before any listener closes.
LEMMA ShutdownIInv ==
    ASSUME IInv, Shutdown PROVE IInv'
<1>1. /\ <<deadline, gossip, usage, fatal, listening, running>>' =
          <<deadline, gossip, usage, fatal, listening, running>>
      /\ pc = "wait" /\ pc' = "stop_upstream" /\ shutdown' = TRUE /\ ready' = FALSE
  BY DEF Shutdown, Goto, otherVars
<1>2. TypeInv'
  BY <1>1 DEF IInv, TypeInv, Stopping, Draining
<1>3. FlagsInv'
  BY <1>1 DEF IInv, FlagsInv, Started, Draining, Ending, Stopping
<1>4. ServersInv'
  BY <1>1 DEF ServersInv, Booting, Started
<1>5. LeaveInv'
  BY <1>1 DEF LeaveInv, Ending
<1> QED  BY <1>2, <1>3, <1>4, <1>5 DEF IInv

\* The steps of Shutdown after its start.
StopStep ==
    \/ CloseListener("upstream", "stop_upstream", "drain_upstream")
    \/ shutdownUpstreamServer
    \/ CloseListener("proxy", "stop_proxy", "drain_proxy")
    \/ shutdownProxyServer
    \/ Leave
    \/ LeaveReturns
    \/ Close
    \/ CloseListener("admin", "stop_admin", "drain_admin")
    \/ shutdownAdminServer
    \/ shutdownUsageReporting
    \/ WaitGoroutines

\* The steps of Shutdown.
LEMMA StopIInv ==
    ASSUME IInv, StopStep PROVE IInv'
<1>1. /\ <<ready, shutdown, deadline, fatal, running>>' =
          <<ready, shutdown, deadline, fatal, running>>
      /\ usage' \in {usage, FALSE}
      /\ pc \in Stopping /\ pc' \in Stopping
      /\ pc \in Ending => pc' \in Ending
      /\ gossip' = gossip \/ pc' \in Ending
      /\ pc' \in Ending \cup {"close"} =>
            \/ pc \in Ending \cup {"close"} /\ leave' = leave
            \/ deadline' \/ leave' = "done"
      /\ listening' \subseteq listening
  <2> USE DEF Goto, mainVars, otherVars, Draining, Ending, Stopping
  <2>1. CASE shutdownUpstreamServer \/ shutdownProxyServer
    BY <2>1 DEF shutdownUpstreamServer, shutdownProxyServer
  <2>2. CASE Leave \/ LeaveReturns
    BY <2>2 DEF Leave, LeaveReturns, IInv, TypeInv
  <2>3. CASE Close \/ shutdownAdminServer \/ shutdownUsageReporting \/ WaitGoroutines
    BY <2>3 DEF Close, shutdownAdminServer, shutdownUsageReporting, WaitGoroutines
  <2>4. CASE CloseListener("upstream", "stop_upstream", "drain_upstream")
    BY <2>4 DEF CloseListener
  <2>5. CASE CloseListener("proxy", "stop_proxy", "drain_proxy")
    BY <2>5 DEF CloseListener
  <2>6. CASE CloseListener("admin", "stop_admin", "drain_admin")
    BY <2>6 DEF CloseListener
  <2> QED  BY <2>1, <2>3, <2>4, <2>5, <2>6, <2>2 DEF StopStep
<1>2. shutdown /\ ~ready
  BY <1>1 DEF IInv, FlagsInv, Started, Draining, Ending, Stopping
<1>3. TypeInv'
  BY <1>1 DEF IInv, TypeInv
<1>4. FlagsInv'
  BY <1>1, <1>2 DEF IInv, FlagsInv
<1>5. ServersInv'
  BY <1>1, <1>2 DEF ServersInv, Booting, Started, Draining, Ending, Stopping
<1>6. LeaveInv'
  BY <1>1 DEF IInv, LeaveInv
<1> QED  BY <1>3, <1>4, <1>5, <1>6 DEF IInv

\* Serve returns an error, or as Shutdown was called, and what runGoroutine does
\* after it.
LEMMA GoroutineIInv ==
    ASSUME IInv, NEW g \in Goroutines,
           (g \in Servers /\ Fail(g)) \/ Closed(g) \/ Done(g)
    PROVE  IInv'
<1>1. /\ <<pc, ready, shutdown, deadline, gossip, usage, leave>>' =
          <<pc, ready, shutdown, deadline, gossip, usage, leave>>
      /\ fatal' \in BOOLEAN
      /\ listening' \in {listening, listening \ {g}}
  BY DEF Fail, Closed, Done, SetRunning, mainVars, otherVars, IInv, TypeInv
<1>2. PICK to \in States :
        /\ running' = [running EXCEPT ![g] = to]
        /\ to # "off"
        /\ to = "closed" => /\ running[g] = "on" /\ listening' = listening
                           /\ IF g = "usage" THEN ~usage ELSE g \notin listening
        /\ to = "on" => FALSE
        /\ running[g] # "off"
  BY DEF Fail, Closed, Done, SetRunning, States
<1>3. \A h \in Goroutines :
         running'[h] = (IF h = g THEN to ELSE running[h])
  BY <1>2 DEF IInv, TypeInv
<1>4. TypeInv'
  <2>1. running' \in [Goroutines -> States]
    BY <1>2 DEF IInv, TypeInv
  <2> QED  BY <1>1, <2>1 DEF IInv, TypeInv
<1>5. to = "closed" => shutdown
  BY <1>2 DEF IInv, FlagsInv, ServersInv, Serves, Goroutines, Servers
<1>6. ServersInv'
  <2>1. ~shutdown => \A s \in Servers : Serves(s)'
    BY <1>1, <1>2, <1>3, <1>5
       DEF IInv, ServersInv, Serves, Goroutines, States
  <2>2. \A s \in Public \cup {"admin"} :
          /\ s \in Goroutines
          /\ running[s] = "off" => running'[s] = "off"
          /\ running[s] # "off" => running'[s] # "off"
    BY <1>2, <1>3 DEF Goroutines, Servers, Public
  <2>3. \A h \in Goroutines : running'[h] = "closed" => shutdown'
    BY <1>1, <1>3, <1>5 DEF IInv, ServersInv
  <2> QED  BY <1>1, <2>1, <2>2, <2>3 DEF IInv, ServersInv
<1>7. FlagsInv' /\ LeaveInv'
  BY <1>1 DEF IInv, FlagsInv, LeaveInv
<1> QED  BY <1>4, <1>6, <1>7 DEF IInv

\* The end of the grace period, and the goroutine of Leave.
LEMMA LeaveIInv ==
    ASSUME IInv, Deadline \/ Leaving("on", "left") \/ Leaving("left", "done")
    PROVE  IInv'
<1>1. /\ <<pc, ready, shutdown, gossip, usage, fatal, listening, running>>' =
          <<pc, ready, shutdown, gossip, usage, fatal, listening, running>>
      /\ \/ deadline' = TRUE /\ leave' = leave
         \/ deadline' = deadline /\ leave # "done"
  BY DEF Deadline, Leaving, mainVars, otherVars
<1>2. TypeInv'
  BY <1>1 DEF IInv, TypeInv
<1>3. FlagsInv' /\ ServersInv'
  BY <1>1 DEF IInv, FlagsInv, ServersInv, Serves
<1>4. LeaveInv'
  BY <1>1 DEF IInv, LeaveInv
<1> QED  BY <1>2, <1>3, <1>4 DEF IInv

\* What IInv is about.
aboutVars ==
    <<pc, ready, shutdown, deadline, gossip, usage, fatal, listening, running, leave>>

\* A step of what the invariant is not about.
LEMMA SameIInv ==
    ASSUME IInv, UNCHANGED aboutVars PROVE IInv'
<1>1. TypeInv' /\ FlagsInv'
  BY DEF aboutVars, IInv, TypeInv, FlagsInv
<1>2. ServersInv' /\ LeaveInv'
  BY DEF aboutVars, IInv, ServersInv, Serves, LeaveInv
<1> QED  BY <1>1, <1>2 DEF IInv

\* Every step keeps the invariant.
LEMMA NextIInv == IInv /\ [Next]_vars => IInv'
<1> SUFFICES ASSUME IInv, [Next]_vars PROVE IInv'
  OBVIOUS
<1>1. CASE Main
  <2>1. CASE startGossip \/ JoinOnBoot \/ SetReady \/ Joined \/ JoinAgain \/ Backoff
               \/ JoinFailed
    BY <2>1, BootIInv
  <2>2. CASE StartAdmin \/ StartServers
    BY <2>2, StartIInv
  <2>3. CASE Fatal
    BY <2>3, ShutdownIInv DEF Fatal
  <2>4. CASE StopStep
    BY <2>4, StopIInv
  <2> QED  BY <1>1, <2>1, <2>2, <2>3, <2>4 DEF Main, StopStep
<1>2. CASE Signal
  BY <1>2, ShutdownIInv DEF Signal
<1>3. CASE Deadline \/ Leaving("on", "left") \/ Leaving("left", "done")
  BY <1>3, LeaveIInv
<1>4. CASE \E s \in Servers : Fail(s)
  BY <1>4, GoroutineIInv DEF Goroutines
<1>5. CASE \E g \in Goroutines : Closed(g) \/ Done(g)
  BY <1>5, GoroutineIInv
<1>6. CASE \E c \in Conns :
             Dial(c) \/ Upgrade(c) \/ AddConn(c) \/ Cancelled(c) \/ Lost(c)
  <2>1. UNCHANGED aboutVars
    BY <1>6 DEF Dial, Upgrade, AddConn, Cancelled, Lost, SetConn, mainVars, aboutVars
  <2> QED  BY <2>1, SameIInv
<1>7. CASE \E r \in Requests : ProxyRequest(r) \/ ProxyResponse(r)
  <2>1. UNCHANGED aboutVars
    BY <1>7 DEF ProxyRequest, ProxyResponse, SetRequest, mainVars, aboutVars
  <2> QED  BY <2>1, SameIInv
<1>8. CASE UNCHANGED vars
  <2>1. UNCHANGED aboutVars
    BY <1>8 DEF vars, aboutVars
  <2> QED  BY <2>1, SameIInv
<1> QED  BY <1>1, <1>2, <1>3, <1>4, <1>5, <1>6, <1>7, <1>8 DEF Next

-----------------------------------------------------------------------------
(***************************************************************************)
(* The theorems.                                                           *)
(***************************************************************************)

\* The flags, the listeners and the goroutines agree with how far Start of
\* server.go, or Shutdown, has come.
THEOREM Invariance == Spec => []IInv
<1> QED  BY InitIInv, NextIInv, PTL DEF Spec

\* A node that says it is ready serves: SetReady(true) comes after both servers
\* are started, SetReady(false) before either listener is closed.
THEOREM ReadyServesHolds == Spec => []ReadyServes
<1>1. IInv => ReadyServes
  <2> SUFFICES ASSUME IInv, ready, NEW s \in Public
               PROVE  /\ running[s] # "off"
                      /\ s \in listening \/ running[s] \in {"failed", "done"}
    BY DEF ReadyServes, Public
  <2>1. ~shutdown
    BY DEF IInv, FlagsInv, Started, Draining, Ending, Stopping
  <2> QED  BY <2>1 DEF IInv, ServersInv, Serves, Servers, Public
<1> QED  BY <1>1, Invariance, PTL

\* Shutdown closes gossip only after the node has left, while there is time.
THEOREM LeavesFirstHolds == Spec => []LeavesFirst
<1>1. IInv => LeavesFirst
  BY DEF IInv, FlagsInv, LeaveInv, LeavesFirst
<1> QED  BY <1>1, Invariance, PTL

\* runGoroutine closes fatalCh only for a server that failed, never for one that
\* Shutdown has stopped.
THEOREM FatalIsFailureHolds == Spec => FatalIsFailure
<1>1. ASSUME IInv, [Next]_vars, fatal', ~fatal
      PROVE  \E g \in Goroutines : running[g] = "failed"
  <2>1. PICK g \in Goroutines : Done(g)
    <3>1. ~(UNCHANGED vars \/ Main \/ Signal \/ Deadline)
      BY <1>1 DEF vars, Main, Signal, Deadline, StartAdmin, startGossip, JoinOnBoot,
         StartServers, SetReady, Joined, JoinAgain, Backoff, JoinFailed, Fatal,
         Shutdown, CloseListener, shutdownUpstreamServer, shutdownProxyServer,
         Leave, LeaveReturns, Close, shutdownAdminServer, shutdownUsageReporting,
         WaitGoroutines, otherVars
    <3>2. /\ \A s \in Servers : ~Fail(s)
          /\ \A g \in Goroutines : ~Closed(g)
          /\ ~Leaving("on", "left") /\ ~Leaving("left", "done")
      BY <1>1 DEF Fail, Closed, Leaving, otherVars
    <3>3. /\ \A c \in Conns :
               ~(Dial(c) \/ Upgrade(c) \/ AddConn(c) \/ Cancelled(c) \/ Lost(c))
          /\ \A r \in Requests : ~(ProxyRequest(r) \/ ProxyResponse(r))
      BY <1>1 DEF Dial, Upgrade, AddConn, Cancelled, Lost, SetConn, ProxyRequest,
         ProxyResponse, SetRequest
    <3> QED  BY <1>1, <3>1, <3>2, <3>3 DEF Next
  <2>2. ~shutdown
    BY <1>1, <2>1 DEF Done
  <2> QED  BY <1>1, <2>1, <2>2 DEF Done, SetRunning, IInv, ServersInv
<1>2. IInv /\ [Next]_vars =>
        [fatal' /\ ~fatal => \E g \in Goroutines : running[g] = "failed"]_vars
  BY <1>1
<1> QED  BY <1>2, Invariance, PTL DEF Spec, FatalIsFailure

=============================================================================
