------------------------------- MODULE Agent -------------------------------
(***************************************************************************)
(* An agent and the servers it connects to: the listener (AgentListener),  *)
(* the server's handlers of its sessions (UpstreamServer) and the handlers *)
(* of the connections the listener accepts (Tunnels).                      *)
(*                                                                         *)
(* The two ends of a session are closed one after the other: an end is     *)
(* closed by its own process, or when it notices that the other end or the *)
(* network has gone.  Closing a session closes the streams in it.          *)
(***************************************************************************)
EXTENDS Naturals, FiniteSets

CONSTANTS
    Sessions,       \* sessions; one that is over stands for a later one again
    NoSession,      \* nil
    Conns,          \* the streams that are accepted
    MaxAbandoned,   \* bound: sessions that are abandoned at a time
    Apart           \* bound: whether there is one session at a time from the
                    \* first stream on

ASSUME AgentAssumption == MaxAbandoned \in Nat /\ Apart \in BOOLEAN

VARIABLES
    caller,     \* whose listener it is: "tcp proxy" or "ListenAndForward"
    pc, sess, dialed, open, abandoned, closing, ctx,    \* AgentListener
    token, handler,                                     \* UpstreamServer
    offered,    \* the session the server has opened for the dial under way
    hpc, ends, gone, copies, blocked, table,            \* Tunnels
    via,        \* via[c]: the session of stream c, while that is open
    closed      \* whether Close of the TCP proxy has closed its table

L == INSTANCE AgentListener

S == INSTANCE UpstreamServer

T == INSTANCE Tunnels WITH pc <- hpc, open <- ends

listener == <<pc, sess, dialed, open, abandoned, closing, ctx>>

server == <<token, handler>>

tunnel == <<hpc, ends, gone, copies, blocked, table, via>>

vars == <<caller, listener, server, offered, tunnel, closed>>

Init ==
    /\ caller \in {"tcp proxy", "ListenAndForward"}
    /\ L!Init
    /\ S!Init
    /\ offered = {}
    /\ T!Init
    /\ via = [c \in Conns |-> NoSession]
    /\ closed = FALSE

-----------------------------------------------------------------------------
(***************************************************************************)
(* The accepting goroutine.                                                *)
(***************************************************************************)

\* It starts the handler of a connection before it accepts again.
Busy == \E c \in Conns : hpc[c] = "accepted"

\* Whether the bound Apart applies.
Alone == Apart /\ \E c \in Conns : hpc[c] # "none"

\* The server has opened a stream of a session it has registered.
Offer ==
    /\ pc = "accept" /\ ~Busy
    /\ sess \in open
    /\ handler[sess] \in {"registered", "removed"}

Accept(c) ==
    /\ Offer
    /\ Apart => open \cup S!Open = {sess}
    /\ T!Accept(c)
    /\ via' = [via EXCEPT ![c] = sess]
    /\ UNCHANGED <<caller, listener, server, offered, closed>>

AcceptFails ==
    /\ Offer
    /\ Cardinality(abandoned) < MaxAbandoned /\ ~Alone
    /\ L!AcceptFails
    /\ UNCHANGED <<caller, server, offered, tunnel, closed>>

Serve(c) ==
    /\ T!Serve(c, caller = "tcp proxy")
    /\ UNCHANGED <<caller, listener, server, offered, via, closed>>

\* A dial that fails drops the session the server may have opened for it.
Local ==
    /\ ~Busy
    /\ L!Local(caller = "ListenAndForward")
    /\ offered' = IF pc = "request" THEN {} ELSE offered
    /\ UNCHANGED <<caller, server, tunnel, closed>>

\* Whether s may stand for a new session; which one that does is arbitrary.
Fresh(s) ==
    /\ s \notin open \cup S!Open
    /\ Alone => open \cup S!Open = {}

Upgrade(s) ==
    /\ pc = "request"
    /\ offered = {}
    /\ Fresh(s) /\ s = CHOOSE t \in Sessions : Fresh(t)
    /\ S!Upgrade(s)
    /\ offered' = {s}
    /\ UNCHANGED <<caller, listener, tunnel, closed>>

Connected(s) ==
    /\ s \in offered
    /\ L!Connected(s)
    /\ offered' = {}
    /\ UNCHANGED <<caller, server, tunnel, closed>>

\* The response is 401.
DialRejected ==
    /\ offered = {}
    /\ ~S!Accepts
    /\ L!DialRejected
    /\ UNCHANGED <<caller, server, offered, tunnel, closed>>

-----------------------------------------------------------------------------
(***************************************************************************)
(* The context and the end of the caller.  The TCP proxy is given a        *)
(* listener that listen has returned, accepts without a context, may be    *)
(* closed at any time, and is when Accept fails; ListenAndForward closes   *)
(* its listener when it returns.                                           *)
(***************************************************************************)

Cancel ==
    /\ caller = "ListenAndForward" \/ sess = NoSession
    /\ L!Cancel
    /\ UNCHANGED <<caller, server, offered, tunnel, closed>>

Close ==
    /\ caller = "tcp proxy" \/ pc = "returned"
    /\ L!Close
    /\ UNCHANGED <<caller, server, offered, tunnel, closed>>

\* The streams of a session that is no longer open are closed.
CloseStreams ==
    /\ T!CloseConns({c \in Conns : via[c] \notin open'})
    /\ via' = [c \in Conns |-> IF via[c] \in open' THEN via[c] ELSE NoSession]

CloseSession ==
    /\ L!CloseSession
    /\ CloseStreams
    /\ UNCHANGED <<caller, server, offered, closed>>

\* The rest of Close of the TCP proxy, with connsMu held.
CloseTable ==
    /\ caller = "tcp proxy"
    /\ closing = "done"
    /\ ~closed
    /\ closed' = TRUE
    /\ T!CloseConns(table)
    /\ UNCHANGED <<caller, listener, server, offered, via>>

-----------------------------------------------------------------------------
(***************************************************************************)
(* The ends of sessions, the server and the handlers of connections.       *)
(***************************************************************************)

SessionLost(s) ==
    /\ L!SessionLost(s)
    /\ CloseStreams
    /\ UNCHANGED <<caller, server, offered, closed>>

\* lost: the server's end notices that the session is lost.
Server(s, lost) ==
    /\ S!AddConn(s) \/ S!RemoveConn(s, lost) \/ S!CloseConn(s)
    /\ UNCHANGED <<caller, listener, offered, tunnel, closed>>

Expire ==
    /\ S!Expire
    /\ UNCHANGED <<caller, listener, offered, tunnel, closed>>

Handle(c) ==
    /\ T!Handle(c, caller = "tcp proxy")
    /\ via' = IF hpc'[c] = "done" THEN [via EXCEPT ![c] = NoSession] ELSE via
    /\ UNCHANGED <<caller, listener, server, offered, closed>>

CopyEnds(c, e) ==
    /\ T!CopyEnds(c, e)
    /\ UNCHANGED <<caller, listener, server, offered, via, closed>>

\* What the peer of an end does: it closes it, sends, and reads or does not.
Peer(c, e) ==
    /\ T!PeerCloses(c, e) \/ T!Write(c, T!Other(e)) \/ T!Written(c, e)
    /\ UNCHANGED <<caller, listener, server, offered, via, closed>>

Next ==
    \/ Local
    \/ AcceptFails
    \/ DialRejected
    \/ \E s \in Sessions : Upgrade(s) \/ Connected(s) \/ SessionLost(s)
    \/ \E s \in Sessions : Server(s, TRUE)
    \/ Expire
    \/ Cancel
    \/ Close
    \/ CloseSession
    \/ CloseTable
    \/ \E c \in Conns : Accept(c) \/ Serve(c) \/ Handle(c)
    \/ \E c \in Conns, e \in T!Ends : CopyEnds(c, e) \/ Peer(c, e)

Spec == Init /\ [][Next]_vars

(***************************************************************************)
(* Goroutines run, and dialling ends.  Of the attempts to connect, one in  *)
(* the end is made and gets an answer; of the waits that are cancelled,    *)
(* one in the end is not also due, and the select takes the cancellation.  *)
(* An end of a session notices that the other end is closed.  A listener   *)
(* is closed when its caller returns.  A copy ends when the call it is in  *)
(* fails.  Nothing makes a peer close, send or read, a server shut down, a *)
(* token expire or the agent close its listener.                           *)
(***************************************************************************)
Requested ==
    /\ L!Requested
    /\ UNCHANGED <<caller, server, offered, tunnel, closed>>

WaitDone ==
    /\ L!WaitDone
    /\ UNCHANGED <<caller, server, offered, tunnel, closed>>

FairSpec ==
    /\ Spec
    /\ WF_vars(Local \/ DialRejected \/ \E s \in Sessions : Connected(s))
    /\ SF_vars(Requested)
    /\ SF_vars(\E s \in Sessions : Upgrade(s))
    /\ SF_vars(\E s \in Sessions : Connected(s))
    /\ SF_vars(DialRejected)
    /\ SF_vars(WaitDone)
    /\ \A s \in Sessions :
         /\ WF_vars(Server(s, s \notin open \cup offered))
         /\ WF_vars(s \notin S!Open /\ SessionLost(s))
    /\ WF_vars((pc = "returned" /\ Close) \/ CloseSession \/ CloseTable)
    /\ \A c \in Conns : WF_vars(Serve(c) \/ Handle(c))
    /\ \A c \in Conns, e \in T!Ends : WF_vars(T!Fails(c, e) /\ CopyEnds(c, e))

-----------------------------------------------------------------------------
(***************************************************************************)
(* Properties.                                                             *)
(***************************************************************************)

(***************************************************************************)
(* The agent has one session open, the one it accepts from or is about to, *)
(* besides those on which accept failed while they were open (listener.go  *)
(* does not close these): it connects again only after accept has failed   *)
(* for another reason than its context.                                    *)
(***************************************************************************)
OneSession ==
    /\ \A s, t \in open \ abandoned : s = t
    /\ \A s \in open \ abandoned : s = sess \/ s \in dialed

\* Tunnels!NoLeak of the handlers of agent/tcpproxy/server.go:79 and of
\* agent/client/client.go:89, with the listener that closes their streams.
NoLeak == T!NoLeak

(***************************************************************************)
(* docs/how-piko-works.md:40: "If an upstream is disconnected it will      *)
(* automatically reconnect and resume listening on the endpoint", unless   *)
(* it is closed or cancelled or its token is not good any more.  A session *)
(* that is abandoned does not count: nobody accepts from it.               *)
(***************************************************************************)
Reconnects ==
    [](closing = "no" /\ ~ctx /\ token = "permits") =>
        []<>(S!Registered \ abandoned # {})

(***************************************************************************)
(* docs/server/server.md:304: the server drops the connection to the       *)
(* endpoint once its token expires, and, as the agent connects again with  *)
(* the same token, the endpoint stays unregistered and Accept returns.     *)
(***************************************************************************)
ExpiryEnds ==
    (token = "expired") ~> [](S!Registered = {} /\ pc = "returned")

\* Close is done, no session is open and no request awaits its response.
Stopped == closing = "done" /\ open = {} /\ pc \notin {"request", "dialed"}

(***************************************************************************)
(* A listener that is closed stops, unless a request was already sent or a *)
(* session other than l.sess is open when Close runs: Accept returns from  *)
(* wherever it is, the endpoint is unregistered for good, and the handlers *)
(* end, also that of a connection accepted before and put in the table     *)
(* after Close has closed the ones it found there, but for those that stay *)
(* in a Write their peer does not read.                                    *)
(***************************************************************************)
CloseEnds ==
    /\ Stopped ~> [](pc = "returned" /\ S!Registered = {})
    /\ \A c \in Conns :
          Stopped ~> (hpc[c] \in {"none", "done"} \/ [](blocked[c] # {}))

(***************************************************************************)
(* A context that is cancelled makes listen or AcceptWithContext return,   *)
(* although connect looks at it neither while it awaits a response nor     *)
(* once listen has returned: then it returns when the server has answered. *)
(***************************************************************************)
CancelReturns ==
    ctx ~> (pc = "returned" \/ (caller = "tcp proxy" /\ pc = "accept"))

(***************************************************************************)
(* When either end is closed, by its peer or by this process, the copies   *)
(* end one after the other, each by closing what the other reads from, and *)
(* the handler returns, unless a copy stays in a Write: no deadline frees  *)
(* it from a peer that does not read.                                      *)
(***************************************************************************)
TunnelEnds ==
    \A c \in Conns :
        (hpc[c] = "copy" /\ ends[c] \ gone[c] # T!Ends) ~>
            (hpc[c] = "done" \/ [](blocked[c] # {}))

(***************************************************************************)
(* agent/client/listener.go:39: "Closing the listener will unregister for  *)
(* the endpoint."                                                          *)
(***************************************************************************)
CloseUnregisters == (closing = "done") ~> (S!Registered = {})

=============================================================================
