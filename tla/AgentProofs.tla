---------------------------- MODULE AgentProofs ----------------------------
(***************************************************************************)
(* Proofs about Agent for any sessions and connections: besides those that *)
(* accept has given up, the agent has at most one session open, and what   *)
(* its handlers open has somebody who closes it.                           *)
(***************************************************************************)
EXTENDS Agent, TLAPS

Handlers == {"none", "accepted", "dial", "copy", "done"}

(***************************************************************************)
(* The inductive invariant: of the sessions not given up, the one that the *)
(* listener has, or is about to have, is the only one open; while it       *)
(* connects none is.  Accept may fail while its session is open because    *)
(* its context is cancelled, and then it does not connect again.           *)
(***************************************************************************)
SessionInv ==
    /\ open \subseteq {sess} \cup dialed \cup abandoned
    /\ pc = "dialed" =>
          \E s \in Sessions : dialed = {s} /\ open \subseteq {s} \cup abandoned
    /\ pc # "dialed" => dialed = {}
    /\ pc \in {"dial", "request", "wait"} => open \subseteq abandoned
    /\ pc = "err" => open \subseteq abandoned \/ ctx
    /\ abandoned \subseteq open

(***************************************************************************)
(* What the handlers of connections have open, and that there is who       *)
(* closes it.  Copies run only between the dial and the return, so a dial  *)
(* that fails has nothing but the accepted connection to close.            *)
(***************************************************************************)
HandlerInv ==
    /\ hpc \in [Conns -> Handlers]
    /\ ends \in [Conns -> SUBSET T!Ends]
    /\ copies \in [Conns -> SUBSET T!Ends]
    /\ \A c \in Conns : hpc[c] # "copy" => copies[c] = {}
    /\ NoLeak

IInv == SessionInv /\ HandlerInv

\* The agent starts without a session.
LEMMA InitIInv == Init => IInv
BY DEF Init, L!Init, T!Init, IInv, SessionInv, HandlerInv, NoLeak, T!NoLeak, Handlers, T!Ends

\* The sessions, in every step of the accepting goroutine.
LEMMA LocalSessionInv == SessionInv /\ Local => SessionInv'
<1> SUFFICES ASSUME SessionInv, Local PROVE SessionInv'
  OBVIOUS
<1>1. CASE L!AcceptErr
  BY <1>1 DEF SessionInv, L!AcceptErr, L!Step, L!Goto
<1>2. CASE L!CheckErr
  BY <1>2 DEF SessionInv, L!CheckErr, L!Step, L!Goto, L!closeCtxErr
<1>3. CASE L!Requested \/ L!DialFailed \/ L!Retry \/ L!WaitDone
  BY <1>3 DEF SessionInv, L!Requested, L!DialFailed, L!Retry, L!WaitDone, L!Step, L!Goto
<1>4. CASE L!Assign(caller = "ListenAndForward")
  BY <1>4 DEF SessionInv, L!Assign, L!Goto
<1>5. QED
  BY <1>1, <1>2, <1>3, <1>4 DEF Local, L!Local

\* The sessions, in every step.
LEMMA NextSessionInv == SessionInv /\ [Next]_vars => SessionInv'
<1> SUFFICES ASSUME SessionInv, [Next]_vars PROVE SessionInv'
  OBVIOUS
<1>1. CASE Local
  BY <1>1, LocalSessionInv
<1>2. CASE DialRejected \/ AcceptFails
  BY <1>2 DEF SessionInv, DialRejected, L!DialRejected, L!Step, L!Goto, AcceptFails, L!AcceptFails
<1>3. ASSUME NEW s \in Sessions, Connected(s) PROVE SessionInv'
  BY <1>3 DEF SessionInv, Connected, L!Connected, L!Goto
<1>4. ASSUME NEW s \in Sessions, SessionLost(s) PROVE SessionInv'
  BY <1>4 DEF SessionInv, SessionLost, L!SessionLost, L!EndSession
<1>5. ASSUME NEW s \in Sessions, Upgrade(s) \/ Server(s, TRUE) PROVE SessionInv'
  BY <1>5 DEF SessionInv, Upgrade, Server, listener
<1>6. CASE Expire
  BY <1>6 DEF SessionInv, Expire, listener
<1>7. CASE Cancel
  BY <1>7 DEF SessionInv, Cancel, L!Cancel
<1>8. CASE Close
  BY <1>8 DEF SessionInv, Close, L!Close
<1>9. CASE CloseSession
  BY <1>9 DEF SessionInv, CloseSession, L!CloseSession, L!EndSession
<1>10. CASE CloseTable
  BY <1>10 DEF SessionInv, CloseTable, listener
<1>11. ASSUME NEW c \in Conns, Accept(c) \/ Serve(c) \/ Handle(c) PROVE SessionInv'
  BY <1>11 DEF SessionInv, Accept, Serve, Handle, listener
<1>12. ASSUME NEW c \in Conns, NEW e \in T!Ends, CopyEnds(c, e) \/ Peer(c, e)
       PROVE  SessionInv'
  BY <1>12 DEF SessionInv, CopyEnds, Peer, listener
<1>13. CASE UNCHANGED vars
  BY <1>13 DEF SessionInv, vars, listener
<1>14. QED
  BY <1>1, <1>2, <1>3, <1>4, <1>5, <1>6, <1>7, <1>8, <1>9, <1>10, <1>11, <1>12, <1>13
     DEF Next

\* The handlers, in the steps that close accepted connections.
LEMMA CloseConnsHandlerInv ==
    ASSUME HandlerInv, NEW cs, T!CloseConns(cs)
    PROVE  HandlerInv'
BY DEF HandlerInv, T!CloseConns, NoLeak, T!NoLeak

\* The handlers, in their own steps.
LEMMA HandleHandlerInv ==
    ASSUME HandlerInv, NEW c \in Conns, NEW tabled \in BOOLEAN,
           \/ T!Accept(c) \/ T!Serve(c, tabled) \/ T!Dialed(c)
           \/ T!DialFailed(c) \/ T!Return(c, tabled)
    PROVE  HandlerInv'
<1>1. T!Ends = {"down", "up"}
  BY DEF T!Ends
<1>2. CASE T!Accept(c)
  BY <1>1, <1>2 DEF HandlerInv, T!Accept, T!Goto, NoLeak, T!NoLeak, Handlers
<1>3. CASE T!Serve(c, tabled)
  BY <1>3 DEF HandlerInv, T!Serve, T!Goto, NoLeak, T!NoLeak, Handlers
<1>4. CASE T!Dialed(c)
  BY <1>1, <1>4 DEF HandlerInv, T!Dialed, T!Goto, NoLeak, T!NoLeak, Handlers
<1>5. CASE T!DialFailed(c)
  BY <1>1, <1>5 DEF HandlerInv, T!DialFailed, T!Exit, T!Goto, NoLeak, T!NoLeak, Handlers
<1>6. CASE T!Return(c, tabled)
  BY <1>1, <1>6 DEF HandlerInv, T!Return, T!Exit, T!Goto, NoLeak, T!NoLeak, Handlers
<1>7. QED
  BY <1>2, <1>3, <1>4, <1>5, <1>6

\* The handlers, while a copy ends and closes what it copied to.
LEMMA CopyHandlerInv ==
    ASSUME HandlerInv, NEW c \in Conns, NEW e \in T!Ends, T!CopyEnds(c, e)
    PROVE  HandlerInv'
BY DEF HandlerInv, T!CopyEnds, NoLeak, T!NoLeak

\* The handlers, while their peers close, send and read.
LEMMA PeerHandlerInv ==
    ASSUME HandlerInv, NEW c, NEW e,
           T!PeerCloses(c, e) \/ T!Write(c, T!Other(e)) \/ T!Written(c, e)
    PROVE  HandlerInv'
BY DEF HandlerInv, T!PeerCloses, T!Write, T!Written, NoLeak, T!NoLeak

\* The handlers, in every step.
LEMMA NextHandlerInv == HandlerInv /\ [Next]_vars => HandlerInv'
<1> SUFFICES ASSUME HandlerInv, [Next]_vars PROVE HandlerInv'
  OBVIOUS
<1>1. ASSUME UNCHANGED tunnel PROVE HandlerInv'
  BY <1>1 DEF HandlerInv, tunnel, NoLeak, T!NoLeak
<1>2. CASE Local \/ AcceptFails \/ DialRejected \/ Expire \/ Cancel \/ Close
  BY <1>1, <1>2 DEF Local, AcceptFails, DialRejected, Expire, Cancel, Close
<1>3. ASSUME NEW s \in Sessions, Upgrade(s) \/ Connected(s) \/ Server(s, TRUE)
      PROVE  HandlerInv'
  BY <1>1, <1>3 DEF Upgrade, Connected, Server
<1>4. ASSUME NEW s \in Sessions, SessionLost(s) PROVE HandlerInv'
  BY <1>4, CloseConnsHandlerInv DEF SessionLost, CloseStreams
<1>5. CASE CloseSession \/ CloseTable
  BY <1>5, CloseConnsHandlerInv DEF CloseSession, CloseStreams, CloseTable
<1>6. ASSUME NEW c \in Conns, Accept(c) \/ Serve(c) \/ Handle(c) PROVE HandlerInv'
  BY <1>6, HandleHandlerInv DEF Accept, Serve, Handle, T!Handle
<1>7. ASSUME NEW c \in Conns, NEW e \in T!Ends, CopyEnds(c, e) \/ Peer(c, e)
      PROVE  HandlerInv'
  BY <1>7, CopyHandlerInv, PeerHandlerInv DEF CopyEnds, Peer
<1>8. CASE UNCHANGED vars
  BY <1>1, <1>8 DEF vars
<1>9. QED
  BY <1>2, <1>3, <1>4, <1>5, <1>6, <1>7, <1>8 DEF Next

-----------------------------------------------------------------------------
\* Both invariants hold of any number of sessions and connections: those of the
\* accepting goroutine of agent/client/listener.go with Close, cancellation and
\* lost sessions at any moment, and those of the handlers it starts.
THEOREM Invariance == Spec => []IInv
<1>1. IInv /\ [Next]_vars => IInv'
  BY NextSessionInv, NextHandlerInv DEF IInv
<1>2. QED
  BY <1>1, InitIInv, PTL DEF Spec

\* AcceptWithContext and connect of agent/client/listener.go leave no session open
\* that is neither l.sess nor about to be, but for those that accept failed on
\* while they were open.
THEOREM OneSessionHolds == Spec => []OneSession
<1>1. IInv => OneSession
  BY DEF IInv, SessionInv, OneSession
<1>2. QED
  BY <1>1, Invariance, PTL

\* What the handlers of agent/tcpproxy/server.go and of agent/client/client.go have
\* open, a copy or a deferred call closes, however many there are.
THEOREM NoLeakHolds == Spec => []NoLeak
<1>1. IInv => NoLeak
  BY DEF IInv, HandlerInv
<1>2. QED
  BY <1>1, Invariance, PTL

=============================================================================
