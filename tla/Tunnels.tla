------------------------------ MODULE Tunnels ------------------------------
(***************************************************************************)
(* Connections that a process accepts and copies to a connection it dials: *)
(* the TCP proxy of the agent (agent/tcpproxy/server.go), which accepts    *)
(* streams of the session with the server and keeps a table of them;       *)
(* ListenAndForward of the client (agent/client/client.go), without the    *)
(* table; and the forwarder (forward/forwarder.go), whose handlers are the *)
(* same but accept TCP connections and dial the server.  Module Agent says *)
(* when connections are accepted and when their listener is closed.        *)
(***************************************************************************)

CONSTANT Conns      \* accepted connections

\* The two connections of a handler: the accepted one and the dialled one.
Ends == {"down", "up"}

Other(e) == IF e = "down" THEN "up" ELSE "down"

VARIABLES
    pc,         \* pc[c]: "none", "accepted", "dial", "copy" or "done"
    open,       \* open[c]: the ends that this process has not closed
    gone,       \* gone[c]: the ends whose peer has closed
    copies,     \* copies[c]: the ends that are still copied to
    blocked,    \* blocked[c]: of these, the ones a Write to is under way
    table       \* conns of the TCP proxy

vars == <<pc, open, gone, copies, blocked, table>>

Init ==
    /\ pc = [c \in Conns |-> "none"]
    /\ open = [c \in Conns |-> {}]
    /\ gone = [c \in Conns |-> {}]
    /\ copies = [c \in Conns |-> {}]
    /\ blocked = [c \in Conns |-> {}]
    /\ table = {}

Goto(c, from, to) == pc[c] = from /\ pc' = [pc EXCEPT ![c] = to]

-----------------------------------------------------------------------------

Accept(c) ==
    /\ Goto(c, "none", "accepted")
    /\ open' = [open EXCEPT ![c] = {"down"}]
    /\ UNCHANGED <<gone, copies, blocked, table>>

\* addConn, where there is a table, and the start of the handler.
Serve(c, tabled) ==
    /\ Goto(c, "accepted", "dial")
    /\ table' = IF tabled THEN table \cup {c} ELSE table
    /\ UNCHANGED <<open, gone, copies, blocked>>

Dialed(c) ==
    /\ Goto(c, "dial", "copy")
    /\ open' = [open EXCEPT ![c] = @ \cup {"up"}]
    /\ copies' = [copies EXCEPT ![c] = Ends]
    /\ UNCHANGED <<gone, blocked, table>>

\* The handler returns: its deferred calls close the ends in closes and remove
\* the connection from the table.
Exit(c, closes) ==
    /\ open' = [open EXCEPT ![c] = @ \ closes]
    /\ gone' = [gone EXCEPT ![c] = {}]
    /\ table' = table \ {c}
    /\ UNCHANGED <<copies, blocked>>

\* The error is logged.
DialFailed(c) == Goto(c, "dial", "done") /\ Exit(c, {"down"})

\* Both copies have ended.  The TCP proxy also defers closing the dialled end;
\* the other handlers leave it to the copy.
Return(c, tabled) ==
    /\ copies[c] = {}
    /\ Goto(c, "copy", "done")
    /\ Exit(c, IF tabled THEN Ends ELSE {"down"})

Handle(c, tabled) == Dialed(c) \/ DialFailed(c) \/ Return(c, tabled)

\* The accepted connections in cs are closed on this side.
CloseConns(cs) ==
    /\ open' = [c \in Conns |-> IF c \in cs THEN open[c] \ {"down"} ELSE open[c]]
    /\ UNCHANGED <<pc, gone, copies, blocked, table>>

-----------------------------------------------------------------------------
(***************************************************************************)
(* The copies.  io.Copy to e is either in a Read of the other end or in a  *)
(* Write to e, where it stays for as long as the peer of e does not read.  *)
(***************************************************************************)

PeerCloses(c, e) ==
    /\ e \in open[c] \ gone[c]
    /\ gone' = [gone EXCEPT ![c] = @ \cup {e}]
    /\ UNCHANGED <<pc, open, copies, blocked, table>>

\* There is data.  What comes before a close counts as read before it.
Write(c, e) ==
    /\ e \in (copies[c] \cap open[c]) \ blocked[c]
    /\ Other(e) \in open[c] \ gone[c]
    /\ blocked' = [blocked EXCEPT ![c] = @ \cup {e}]
    /\ UNCHANGED <<pc, open, gone, copies, table>>

Written(c, e) ==
    /\ e \in blocked[c]
    /\ blocked' = [blocked EXCEPT ![c] = @ \ {e}]
    /\ UNCHANGED <<pc, open, gone, copies, table>>

\* The Read, or the Write, that the copy to e is in returns with an error.
Fails(c, e) ==
    IF e \in blocked[c] THEN e \notin open[c]
    ELSE Other(e) \notin open[c] \ gone[c]

\* Data for an end that is closed may make the Write fail, or be dropped.
MayFail(c, e) == e \notin open[c] \ gone[c]

\* Mutant: a copy that ends leaves its destination open.
CopyEndsQuietly(c, e) ==
    /\ e \in copies[c]
    /\ Fails(c, e) \/ MayFail(c, e)
    /\ copies' = [copies EXCEPT ![c] = @ \ {e}]
    /\ blocked' = [blocked EXCEPT ![c] = @ \ {e}]
    /\ UNCHANGED <<pc, open, gone, table>>

\* The copy to e ends and closes e.
CopyEnds(c, e) ==
    /\ e \in copies[c]
    /\ Fails(c, e) \/ MayFail(c, e)
    /\ copies' = [copies EXCEPT ![c] = @ \ {e}]
    /\ blocked' = [blocked EXCEPT ![c] = @ \ {e}]
    /\ open' = [open EXCEPT ![c] = @ \ {e}]
    /\ UNCHANGED <<pc, gone, table>>

-----------------------------------------------------------------------------
(***************************************************************************)
(* Whatever is open has a goroutine that will close it: an end its copy,   *)
(* the accepted one also the handler, and only what has a handler is in    *)
(* the table.  So a handler of client.go:89 that has returned has left the *)
(* dialled end closed, although only a copy closes that.                   *)
(***************************************************************************)
NoLeak ==
    \A c \in Conns :
        /\ \A e \in open[c] :
              e \in copies[c] \/ (e = "down" /\ pc[c] \in {"accepted", "dial", "copy"})
        /\ c \in table => pc[c] \in {"dial", "copy"}

=============================================================================
