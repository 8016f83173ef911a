--------------------------- MODULE UpstreamServer ---------------------------
(***************************************************************************)
(* The server's side of the sessions of one agent: upstreamRoute of        *)
(* server/upstream/server.go and the token it is called with               *)
(* (server/upstream/auth.go, server/auth).  A session is registered while  *)
(* its handler is between AddConn and RemoveConn, whose own steps are in   *)
(* module Upstream.  The sessions may be with different server nodes.      *)
(***************************************************************************)

CONSTANT Sessions

VARIABLES
    token,      \* "permits" or "denies" the endpoint, or "expired"
    handler     \* handler[s]: where upstreamRoute is for session s

vars == <<token, handler>>

Init ==
    /\ token \in {"permits", "denies"}
    /\ handler = [s \in Sessions |-> "none"]

Goto(s, from, to) ==
    handler[s] = from /\ handler' = [handler EXCEPT ![s] = to]

\* The sessions that Select may return.
Registered == {s \in Sessions : handler[s] = "registered"}

\* The sessions whose server's end is open.
Open == {s \in Sessions : handler[s] # "none"}

\* The time in the token's expiry is reached.  A token may have none.
Expire ==
    /\ token # "expired"
    /\ token' = "expired"
    /\ UNCHANGED handler

\* Mutant: the expiry is left to the handler.
AcceptsUnexpired == token # "denies"

\* VerifyEndpointToken and EndpointPermitted; a refusal is a 401 response.
Accepts == token = "permits"

Upgrade(s) ==
    /\ Accepts
    /\ Goto(s, "none", "upgraded")
    /\ UNCHANGED token

\* Whatever happened since the upgrade, the session is registered first.
AddConn(s) ==
    /\ Goto(s, "upgraded", "registered")
    /\ UNCHANGED token

\* Mutant: only the expiry ends AcceptStream.
RemoveConnExpired(s, lost) ==
    /\ token = "expired"
    /\ Goto(s, "registered", "removed")
    /\ UNCHANGED token

\* AcceptStream returns: the session is closed or lost, the server has been
\* shut down, or the deadline of the token has passed.
RemoveConn(s, lost) ==
    /\ lost \/ token = "expired"
    /\ Goto(s, "registered", "removed")
    /\ UNCHANGED token

\* The deferred calls that close the session and the connection.
CloseConn(s) ==
    /\ Goto(s, "removed", "none")
    /\ UNCHANGED token

=============================================================================
