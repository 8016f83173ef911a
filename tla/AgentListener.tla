--------------------------- MODULE AgentListener ---------------------------
(***************************************************************************)
(* The listener of an agent (agent/client/listener.go): one goroutine      *)
(* connects, accepts connections and, when its session is lost, connects   *)
(* again with backoff, while another may cancel its context or close the   *)
(* listener.  Module Agent composes it with the server's side of the       *)
(* sessions and with the handlers of the connections it accepts.           *)
(*                                                                         *)
(* l.sess is read by Close and written by the accepting goroutine without  *)
(* a lock: Close closes the old or the new session, as the order of the    *)
(* two steps has it.                                                       *)
(***************************************************************************)

CONSTANTS
    Sessions,       \* sessions; one that is over stands for a later one again
    NoSession       \* nil

VARIABLES
    pc,         \* where the accepting goroutine is
    sess,       \* l.sess; NoSession until listen returns, Over if it is closed
    dialed,     \* the session connect has returned, until it is assigned
    open,       \* the sessions whose agent's end is open
    abandoned,  \* history: the open ones that accept has given up
    closing,    \* where Close is: "no", "cancelled" (closeCtx is), "done"
    ctx         \* whether the context of listen or accept is cancelled

vars == <<pc, sess, dialed, open, abandoned, closing, ctx>>

\* Which session it was does not matter any more.
Over == "over"

closeCtxErr == closing # "no"

\* The context of connect: the caller's in listen, then always closeCtx.
connectCtxErr == IF sess = NoSession THEN ctx ELSE closeCtxErr

\* listen calls connect.
Init ==
    /\ pc = "dial"
    /\ sess = NoSession
    /\ dialed = {}
    /\ open = {}
    /\ abandoned = {}
    /\ closing = "no"
    /\ ctx = FALSE

Goto(from, to) == pc = from /\ pc' = to

-----------------------------------------------------------------------------
\* A step that changes nothing else.
Step(from, to) ==
    Goto(from, to) /\ UNCHANGED <<sess, dialed, open, abandoned, closing, ctx>>

(***************************************************************************)
(* AcceptWithContext; Accept is the same with a context that is never      *)
(* cancelled.  After a connection it is called again.                      *)
(***************************************************************************)

\* Mutant: only the session wakes the accepting goroutine.
AcceptErrSession == sess \notin open /\ Step("accept", "err")

\* AcceptStreamWithContext fails: the session is closed, or the context is.
AcceptErr == (sess \notin open \/ ctx) /\ Step("accept", "err")

(***************************************************************************)
(* Accepting a stream sends a window update, which may time out: accept    *)
(* fails although the session is open, and nobody closes the session.      *)
(***************************************************************************)
AcceptFails ==
    /\ sess \in open
    /\ Goto("accept", "err")
    /\ abandoned' = abandoned \cup {sess}
    /\ UNCHANGED <<sess, dialed, open, closing, ctx>>

\* Mutant: connects again whatever the error.
CheckErrClosed == Step("err", IF closeCtxErr THEN "returned" ELSE "dial")

CheckErr == Step("err", IF ctx \/ closeCtxErr THEN "returned" ELSE "dial")

-----------------------------------------------------------------------------
(***************************************************************************)
(* connect.  DialContext of the websocket library looks at the context     *)
(* until the connection is there and the request is sent, and then waits   *)
(* for the response whatever becomes of the context.                       *)
(***************************************************************************)

Requested == ~connectCtxErr /\ Step("dial", "request")

\* The response is an upgrade, for session s.
Connected(s) ==
    /\ Goto("request", "dialed")
    /\ s \notin open
    /\ dialed' = {s}
    /\ open' = open \cup {s}
    /\ UNCHANGED <<sess, abandoned, closing, ctx>>

\* A retryable error, which a cancelled context or a timeout also is.
DialFailed == Step("dial", "wait") \/ Step("request", "wait")

\* An error response that is not retryable.
DialRejected == Step("request", "returned")

(***************************************************************************)
(* backoff.Wait, without a limit on the attempts: the timer, or the        *)
(* context of connect.                                                     *)
(***************************************************************************)

\* Mutant: the timer is started again instead.
RetryNever == Step("wait", "wait")

Retry == Step("wait", "dial")

WaitDone == connectCtxErr /\ Step("wait", "returned")

\* own: whether the caller accepts with the context that it listened with.
Assign(own) ==
    /\ Goto("dialed", "accept")
    /\ sess' \in IF dialed \subseteq open THEN dialed ELSE {Over}
    /\ dialed' = {}
    /\ ctx' = (ctx /\ own)
    /\ UNCHANGED <<open, abandoned, closing>>

-----------------------------------------------------------------------------
(***************************************************************************)
(* The other goroutines, and the network.                                  *)
(***************************************************************************)

Cancel ==
    /\ ~ctx
    /\ ctx' = TRUE
    /\ UNCHANGED <<pc, sess, dialed, open, abandoned, closing>>

\* Only a listener that listen has returned can be closed.
Close ==
    /\ sess # NoSession
    /\ closing = "no"
    /\ closing' = "cancelled"
    /\ UNCHANGED <<pc, sess, dialed, open, abandoned, ctx>>

EndSession(s) ==
    /\ open' = open \ {s}
    /\ abandoned' = abandoned \ {s}
    /\ sess' = IF sess = s THEN Over ELSE sess
    /\ UNCHANGED <<pc, dialed, ctx>>

CloseSession ==
    /\ closing = "cancelled"
    /\ closing' = "done"
    /\ EndSession(sess)

SessionLost(s) ==
    /\ s \in open
    /\ EndSession(s)
    /\ UNCHANGED closing

\* The steps of the accepting goroutine that concern nobody else.
Local(own) ==
    \/ AcceptErr \/ CheckErr
    \/ Requested \/ DialFailed \/ Retry \/ WaitDone
    \/ Assign(own)

=============================================================================
