----------------------------- MODULE Membership -----------------------------
(***************************************************************************)
(* How a cluster forgets a node (the subject) that has left or crashed.    *)
(* Gossip leaves time out; here it is what matters: a silent node becomes  *)
(* unreachable, a left or unreachable one expires, and a digest of a node  *)
(* that has not removed it yet makes another discover it again.            *)
(*                                                                         *)
(* The observers know each other and gossip among themselves and with the  *)
(* subject.  Packets may be lost, repeated and reordered, and none is in   *)
(* flight for longer than a tick, of which nodeExpiry has several.  What   *)
(* an observer knows of the subject is a NodeState of GossipState; timer   *)
(* has the ticks until its Expiry.                                         *)
(***************************************************************************)
EXTENDS GossipState

CONSTANTS
    Subject,        \* the node that leaves or crashes
    Suspicion,      \* ticks of silence that pass the suspicion threshold
    NodeExpiry,     \* nodeExpiry, in ticks
    Spread,         \* ticks in which a leave reaches all that know the node
    MaxInFlight     \* bound: packets in flight; a full network loses more

ASSUME MembershipAssumption ==
    /\ Subject \in Nodes
    /\ {Suspicion, NodeExpiry, Spread, MaxInFlight} \subseteq Nat

Observers == Nodes \ {Subject}

NoWindow == -1

VARIABLES
    up,         \* whether the subject runs
    leaving,    \* the observers Leave of the subject has yet to notify
    st,         \* st[n]: what node n knows of the subject
    silence,    \* silence[o]: ticks since the arrival window of o was fed
    timer,      \* timer[o]: ticks until the Expiry of st[o], if it is set
    msgs,       \* the packets in flight
    spread      \* history: whether the leave has always spread in time

vars == <<up, leaving, st, silence, timer, msgs, spread>>

\* The subject has one entry and all know it.
Init ==
    /\ up = TRUE
    /\ leaving = {}
    /\ \E k \in Keys, v \in Values : st = [n \in Nodes |-> UpsertLocal(NewNode, k, v)]
    /\ silence = [o \in Observers |-> 0]
    /\ timer = [o \in Observers |-> 0]
    /\ msgs = {}
    /\ spread = TRUE

Runs(n) == n = Subject => up

-----------------------------------------------------------------------------
(***************************************************************************)
(* The subject.                                                            *)
(***************************************************************************)

Leave ==
    /\ up
    /\ ~st[Subject].left
    /\ st' = [st EXCEPT ![Subject] = LeaveLocal(@)]
    /\ leaving' = Observers
    /\ UNCHANGED <<up, silence, timer, msgs, spread>>

\* The subject crashes, or closes its listeners.
Stop ==
    /\ up
    /\ up' = FALSE
    /\ leaving' = {}
    /\ msgs' = {m \in msgs : m.to # Subject}
    /\ UNCHANGED <<st, silence, timer, spread>>

-----------------------------------------------------------------------------
(***************************************************************************)
(* Packets.                                                                *)
(***************************************************************************)

\* Any packets may be lost, and those to a node that does not run are.
Transmit(rest, out) ==
    \E kept \in SUBSET {m \in out : Runs(m.to)} :
        /\ Cardinality(rest \cup kept) <= MaxInFlight
        /\ msgs' = rest \cup kept

\* A packet that is received may be received again.
Packet(m) == {msgs, msgs \ {m}}

\* What a digest says about the subject, if anything.
DigestOf(x) ==
    {[version |-> y.version, left |-> y.left] : y \in {z \in {x} : z.known}}

DigestMsg(from, to, request, d) ==
    [type |-> "digest", from |-> from, to |-> to, request |-> request,
     digest |-> d]

\* What a delta says about the subject, if anything: a set of entries, which
\* is empty if the packet was full right after the subject's header.
DeltaMsg(from, to, delta) ==
    [type |-> "delta", from |-> from, to |-> to, delta |-> delta]

\* Who n may pick: another observer, or the subject if n knows it and, unless
\* it is unreachable, that it has not left.
Peers(n) ==
    {m \in Nodes \ {n} :
        m = Subject => st[n].known /\ (st[n].left => st[n].unreachable)}

GossipRound(n) ==
    /\ Runs(n)
    /\ \E m \in Peers(n) :
         Transmit(msgs, {DigestMsg(n, m, TRUE, DigestOf(st[n]))})
    /\ UNCHANGED <<up, leaving, st, silence, timer, spread>>

\* Mutant: nodes that have left are discovered too.
DiscoverLeft(x, digest) == IF ~x.known /\ digest # {} THEN NewNode ELSE x

\* ApplyDigest.
Discover(x, digest) ==
    IF ~x.known /\ \E d \in digest : ~d.left THEN NewNode ELSE x

(***************************************************************************)
(* The deltas answering a digest: Delta says nothing about a node it has   *)
(* nothing newer of, and encodeDelta cuts off where the packet is full,    *)
(* before the subject's header, right after it or after any entry.         *)
(***************************************************************************)
Answers(x, digest) ==
    LET newer == UNION {Newer(x, d.version) : d \in digest}
        cuts == {0} \cup {e.version : e \in newer}
        prefixes == {{e \in newer : e.version <= cut} : cut \in cuts}
    IN  {{}} \cup {{p} : p \in {q \in prefixes : newer # {}}}

\* A reply that says nothing about the subject is left out, unless it is a
\* sign of life of the subject.
HandleDigest(m) ==
    LET r == m.to
        x == Discover(st[r], m.digest)
    IN  /\ m.type = "digest"
        /\ Runs(r)
        /\ st' = [st EXCEPT ![r] = x]
        /\ \E rest \in Packet(m), delta \in Answers(x, m.digest) :
             Transmit(rest,
                {y \in {DeltaMsg(r, m.from, delta)} : delta # {} \/ r = Subject}
                  \cup {y \in {DigestMsg(r, m.from, FALSE, DigestOf(x))} :
                          m.request /\ x.known})
        /\ UNCHANGED <<up, leaving, silence, timer, spread>>

\* applyDeltaEntry at observer o, which adds a node it does not know even if
\* no entry came with it.  A left entry that is new sets the expiry.
Learn(o, entries) ==
    LET x == ApplyDeltaEntry(st[o], entries)
    IN  /\ st' = [st EXCEPT ![o] = x]
        /\ timer' = [timer EXCEPT ![o] =
                       IF x.left /\ ~st[o].left THEN NodeExpiry ELSE @]

\* A node discards a delta about itself.
HandleDelta(m) ==
    /\ m.type = "delta"
    /\ msgs' \in Packet(m)
    /\ IF m.to = Subject \/ m.delta = {}
       THEN UNCHANGED <<st, timer>>
       ELSE \E entries \in m.delta : Learn(m.to, entries)
    /\ silence' = [o \in Observers |->
                     IF o = m.to /\ m.from = Subject THEN 0 ELSE silence[o]]
    /\ UNCHANGED <<up, leaving, spread>>

\* The exchange of a leave, which Leave tries once with each node.
NotifyLeave(o) ==
    /\ o \in leaving
    /\ leaving' = leaving \ {o}
    /\ Learn(o, st[Subject].entries) \/ UNCHANGED <<st, timer>>
    /\ UNCHANGED <<up, silence, msgs, spread>>

-----------------------------------------------------------------------------
(***************************************************************************)
(* The scheduled functions of an observer, and time.                       *)
(***************************************************************************)

\* Mutant: a node never heard of is not suspected.
LivenessHeard(o) ==
    /\ st[o].known /\ ~st[o].left
    /\ LET x == UpdateLiveness(st[o], silence[o] > Suspicion)
       IN  /\ st' = [st EXCEPT ![o] = x]
           /\ timer' = [timer EXCEPT ![o] =
                          IF x = st[o] THEN @
                          ELSE IF x.unreachable THEN NodeExpiry ELSE 0]
    /\ UNCHANGED <<up, leaving, silence, msgs, spread>>

\* SuspicionLevel starts a window for a node that has none.
Liveness(o) ==
    LET quiet == IF silence[o] = NoWindow THEN 0 ELSE silence[o]
        x == UpdateLiveness(st[o], quiet > Suspicion)
    IN  /\ st[o].known /\ ~st[o].left
        /\ st' = [st EXCEPT ![o] = x]
        /\ silence' = [silence EXCEPT ![o] = quiet]
        /\ timer' = [timer EXCEPT ![o] =
                       IF x = st[o] THEN @
                       ELSE IF x.unreachable THEN NodeExpiry ELSE 0]
        /\ UNCHANGED <<up, leaving, msgs, spread>>

\* Mutant: the expiry of a left node is not waited for.
RemoveExpiredLeft(o) ==
    /\ st[o].expiry
    /\ timer[o] = 0 \/ st[o].left
    /\ st' = [st EXCEPT ![o] = Unknown]
    /\ timer' = [timer EXCEPT ![o] = 0]
    /\ silence' = [silence EXCEPT ![o] = NoWindow]
    /\ UNCHANGED <<up, leaving, msgs, spread>>

RemoveExpired(o) ==
    /\ st[o].expiry
    /\ timer[o] = 0
    /\ st' = [st EXCEPT ![o] = Unknown]
    /\ silence' = [silence EXCEPT ![o] = NoWindow]
    /\ UNCHANGED <<up, leaving, timer, msgs, spread>>

\* By Spread ticks after the first has learnt of the leave, all that know the
\* subject have.
LeaveHasSpread ==
    \A o, p \in Observers :
        st[o].left /\ timer[o] + Spread <= NodeExpiry =>
            (st[p].known => st[p].left)

Older(t) == IF t = 0 THEN 0 ELSE t - 1

Tick ==
    /\ spread' = (spread /\ LeaveHasSpread)
    /\ silence' = [o \in Observers |->
                     IF silence[o] \in 0 .. Suspicion THEN silence[o] + 1
                     ELSE silence[o]]
    /\ timer' = [o \in Observers |-> Older(timer[o])]
    /\ msgs' = {}
    /\ UNCHANGED <<up, leaving, st>>

-----------------------------------------------------------------------------
Next ==
    \/ Leave
    \/ Stop
    \/ \E n \in Nodes : GossipRound(n)
    \/ \E m \in msgs : HandleDigest(m) \/ HandleDelta(m)
    \/ \E o \in Observers : NotifyLeave(o) \/ Liveness(o) \/ RemoveExpired(o)
    \/ Tick

Spec == Init /\ [][Next]_vars

\* Tickers fire and time goes on.
FairSpec ==
    /\ Spec
    /\ WF_vars(Tick)
    /\ \A o \in Observers : WF_vars(Liveness(o)) /\ WF_vars(RemoveExpired(o))

-----------------------------------------------------------------------------
(***************************************************************************)
(* Properties.                                                             *)
(***************************************************************************)

\* Nobody takes the subject for a member, and no packet under way would make
\* anybody do so.
LeaveIsKnown ==
    /\ st[Subject].left
    /\ \A o \in Observers : st[o].known => st[o].left
    /\ \A m \in msgs :
          IF m.type = "digest" THEN \A d \in m.digest : d.left
          ELSE \A entries \in m.delta : \E e \in entries : e.key = leftKey

(***************************************************************************)
(* An observer removes a subject that has left only when nobody takes it   *)
(* for a member any more, if the leave has spread in time, and from then   *)
(* on nobody ever will: nodeExpiry (pkg/gossip/state.go:22) outlasts the   *)
(* packets of before the leave, and ApplyDigest ignores nodes that left.   *)
(***************************************************************************)
LeaveIsFinal ==
    [][/\ LeaveIsKnown => LeaveIsKnown'
       /\ \A o \in Observers :
            spread /\ st[o].left /\ ~st'[o].known => LeaveIsKnown]_vars

(***************************************************************************)
(* Once all know that the subject has left, all forget it for good: nobody *)
(* discovers it from those who still list it, although the entries of it   *)
(* that are gossiped start the expiry anew where they arrive late.         *)
(***************************************************************************)
LeftForgotten == LeaveIsKnown ~> [](\A o \in Observers : ~st[o].known)

(***************************************************************************)
(* A subject that has stopped is noticed again and again: an observer that *)
(* has heard of it only from others suspects it too, although it never had *)
(* a sign of life to measure the silence from.                             *)
(***************************************************************************)
Detected ==
    \A o \in Observers :
        [](~up => <>(st[o].known => st[o].left \/ st[o].unreachable))

(***************************************************************************)
(* pkg/gossip/state.go:20: "nodeExpiry is the duration a left or           *)
(* unreachable node is stored until it is is removed": a node that has     *)
(* crashed is forgotten in the end.                                        *)
(***************************************************************************)
CrashedForgotten ==
    (~up /\ ~st[Subject].left) ~> [](\A o \in Observers : ~st[o].known)

=============================================================================
