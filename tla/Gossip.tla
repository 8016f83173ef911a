------------------------------- MODULE Gossip -------------------------------
(***************************************************************************)
(* The gossip protocol of pkg/gossip: every node keeps a nodeState for     *)
(* every node it knows of, changes only its own, and learns the others     *)
(* from digests and deltas.  Digests and deltas are UDP packets: they may  *)
(* be lost, duplicated, reordered and delayed.  Joins and leaves are TCP   *)
(* exchanges: not duplicated, but they may fail at any point.              *)
(*                                                                         *)
(* A node that crashes or closes takes no further step, which the          *)
(* specification without fairness allows at any time.  A restarted node    *)
(* has a new ID (docs/server/server.md), so it is another member of Nodes. *)
(***************************************************************************)
EXTENDS GossipState

CONSTANTS
    Seeds,          \* the nodes whose addresses Join is given
    Writers,        \* bound: the nodes whose local state changes
    Suspectable,    \* bound: the nodes that may be suspected and may expire
    Detectors,      \* bound: the nodes that suspect them
    DigestSize,     \* how many digest entries fit a packet
    MaxVersion,     \* bound: the highest local version
    MaxInFlight,    \* bound: messages in flight; a full network loses more
    Relays          \* bound: from the join of one of these on, at most one
                    \* message is in flight

VARIABLES
    nodes,      \* nodes[o][n]: what node o knows about node n
    msgs,       \* the messages in flight
    leaving,    \* leaving[n]: the nodes Leave of node n has yet to notify
    expired     \* history: the nodes whose state some node has removed

vars == <<nodes, msgs, leaving, expired>>

ASSUME GossipAssumption ==
    /\ Seeds \subseteq Nodes
    /\ Writers \subseteq Nodes
    /\ Suspectable \subseteq Nodes
    /\ Detectors \subseteq Nodes
    /\ DigestSize \in Nat
    /\ MaxVersion \in Nat
    /\ MaxInFlight \in Nat
    /\ Relays \subseteq Nodes

Message ==
    [type : {"digest"}, from : Nodes, to : Nodes, request : BOOLEAN,
     digest : SUBSET DigestEntry]
      \cup [type : {"delta", "joined", "leave"}, from : Nodes, to : Nodes,
            delta : SUBSET DeltaEntries]
      \cup [type : {"join"}, from : Nodes, to : Nodes,
            delta : SUBSET DeltaEntries, digest : SUBSET DigestEntry]

Init ==
    /\ nodes = [o \in Nodes |->
                  [n \in Nodes |-> IF n = o THEN NewNode ELSE Unknown]]
    /\ msgs = {}
    /\ leaving = [n \in Nodes |-> {}]
    /\ expired = {}

-----------------------------------------------------------------------------
(***************************************************************************)
(* The network.                                                            *)
(***************************************************************************)

\* Whether a node of Relays takes part, with the messages ms in flight.
Relayed(ms) ==
    \E n \in Relays :
        \/ \E m \in ms : m.from = n
        \/ \E o \in Nodes \ {n} : nodes[n][o].known \/ nodes[o][n].known

\* Of the messages out, any number are lost.  rest is what else is in flight.
Transmit(rest, out) ==
    \E kept \in SUBSET out :
        /\ LET bound == IF Relayed(rest \cup kept) THEN 1 ELSE MaxInFlight
           IN  kept # {} => Cardinality(rest \cup kept) <= bound
        /\ msgs' = rest \cup kept

\* A packet that is received may be received again.
Packet(m) == {msgs, msgs \ {m}}

\* A shuffled digest, cut off where the packet is full.
DigestPackets(ns) ==
    LET all == Digest(ns)
        size == Min({DigestSize, Cardinality(all)})
    IN  {d \in SUBSET all : Cardinality(d) = size}

\* Mutant: the entries are not sorted by version before they are cut off.
PrefixUnsorted(x, cut) ==
    [x EXCEPT !.entries = {e \in x.entries : e.version > cut}]

\* The entries of a delta entry up to the version the packet has space for.
Prefix(x, cut) ==
    [x EXCEPT !.entries = {e \in x.entries : e.version <= cut}]

OnePerNode(delta) == \A x, y \in delta : x.id = y.id => x = y

(***************************************************************************)
(* A delta cut off where the packet is full: some delta entries are whole, *)
(* at most one is missing its last entries, the others are not sent.       *)
(* Entries have any size, so the cut may be anywhere.                      *)
(***************************************************************************)
DeltaPackets(delta) ==
    LET cuts(x) == {0} \cup {e.version : e \in x.entries}
        partial == UNION {{Prefix(x, c) : c \in cuts(x)} : x \in delta}
        packets == {whole \cup last : whole \in SUBSET delta,
                                      last \in {{}} \cup {{p} : p \in partial}}
    IN  {p \in packets : OnePerNode(p)}

DigestMsg(from, to, request, d) ==
    [type |-> "digest", from |-> from, to |-> to, request |-> request,
     digest |-> d]

DeltaMsg(type, from, to, d) ==
    [type |-> type, from |-> from, to |-> to, delta |-> d]

-----------------------------------------------------------------------------
(***************************************************************************)
(* Steps of the application and of the schedulers of one node.             *)
(***************************************************************************)

SetLocal(n, st) == nodes' = [nodes EXCEPT ![n][n] = st]

Upsert(n, k, v) ==
    /\ nodes[n][n].version < MaxVersion
    /\ SetLocal(n, UpsertLocal(nodes[n][n], k, v))
    /\ UNCHANGED <<msgs, leaving, expired>>

Delete(n, k) ==
    /\ nodes[n][n].version < MaxVersion
    /\ SetLocal(n, DeleteLocal(nodes[n][n], k))
    /\ UNCHANGED <<msgs, leaving, expired>>

Compact(n) ==
    /\ CompactLocal(nodes[n][n]).version <= MaxVersion
    /\ SetLocal(n, CompactLocal(nodes[n][n]))
    /\ UNCHANGED <<msgs, leaving, expired>>

\* Leave marks the local node left and picks the nodes to notify.
Leave(n) ==
    /\ nodes[n][n].version < MaxVersion
    /\ SetLocal(n, LeaveLocal(nodes[n][n]))
    /\ leaving' = [leaving EXCEPT ![n] = LiveNodes(nodes[n], n)]
    /\ UNCHANGED <<msgs, expired>>

NotifyLeave(n, m) ==
    /\ m \in leaving[n]
    /\ leaving' = [leaving EXCEPT ![n] = @ \ {m}]
    /\ Transmit(msgs, {DeltaMsg("leave", n, m, LocalDelta(nodes[n], n))})
    /\ UNCHANGED <<nodes, expired>>

Join(n, m) ==
    /\ Transmit(msgs, {[type |-> "join", from |-> n, to |-> m,
                        delta |-> LocalDelta(nodes[n], n),
                        digest |-> Digest(nodes[n])]})
    /\ UNCHANGED <<nodes, leaving, expired>>

\* One of S, or none if there is none.
Pick(S) == IF S = {} THEN {{}} ELSE {{x} : x \in S}

GossipRound(n) ==
    /\ \E live \in Pick(LiveNodes(nodes[n], n)),
          unreachable \in Pick(UnreachableNodes(nodes[n], n)) :
         \E d \in [live \cup unreachable -> DigestPackets(nodes[n])] :
            Transmit(msgs, {DigestMsg(n, m, TRUE, d[m]) : m \in DOMAIN d})
    /\ UNCHANGED <<nodes, leaving, expired>>

\* The failure detector of o suspects the nodes in suspected.
Liveness(o, suspected) ==
    /\ nodes' = [nodes EXCEPT ![o] =
                   [n \in Nodes |->
                      IF n = o THEN nodes[o][n]
                      ELSE UpdateLiveness(nodes[o][n], n \in suspected)]]
    /\ UNCHANGED <<msgs, leaving, expired>>

\* The expiry of the nodes in gone has passed at o.
RemoveExpired(o, gone) ==
    /\ gone # {} /\ \A n \in gone : nodes[o][n].expiry
    /\ nodes' = [nodes EXCEPT ![o] =
                   [n \in Nodes |->
                      IF n \in gone THEN Unknown ELSE nodes[o][n]]]
    /\ expired' = expired \cup gone
    /\ UNCHANGED <<msgs, leaving>>

-----------------------------------------------------------------------------
(***************************************************************************)
(* Handlers of received messages.                                          *)
(***************************************************************************)

\* An empty delta packet is left out: it feeds only the failure detector.
HandleDigest(m) ==
    LET r == m.to
        ns == ApplyDigest(nodes[r], m.digest)
    IN  /\ m.type = "digest"
        /\ nodes' = [nodes EXCEPT ![r] = ns]
        /\ \E rest \in Packet(m),
              delta \in DeltaPackets(Delta(ns, m.digest, FALSE)),
              d \in DigestPackets(ns) :
             Transmit(rest,
                {x \in {DeltaMsg("delta", r, m.from, delta)} : delta # {}}
                  \cup {x \in {DigestMsg(r, m.from, FALSE, d)} : m.request})
        /\ UNCHANGED <<leaving, expired>>

HandleDelta(m) ==
    /\ m.type = "delta"
    /\ nodes' = [nodes EXCEPT ![m.to] = ApplyDelta(@, m.to, m.delta)]
    /\ msgs' \in Packet(m)
    /\ UNCHANGED <<leaving, expired>>

HandleJoin(m) ==
    LET r == m.to
        ns == ApplyDigest(ApplyDelta(nodes[r], r, m.delta), m.digest)
    IN  /\ m.type = "join"
        /\ nodes' = [nodes EXCEPT ![r] = ns]
        /\ Transmit(msgs \ {m},
                    {DeltaMsg("joined", r, m.from, Delta(ns, m.digest, TRUE))})
        /\ UNCHANGED <<leaving, expired>>

\* The reply to a join, and the request of a leave.
HandleStream(m) ==
    /\ m.type \in {"joined", "leave"}
    /\ nodes' = [nodes EXCEPT ![m.to] = ApplyDelta(@, m.to, m.delta)]
    /\ msgs' = msgs \ {m}
    /\ UNCHANGED <<leaving, expired>>

-----------------------------------------------------------------------------
Next ==
    \/ \E n \in Writers :
        \/ \E k \in Keys : Delete(n, k) \/ \E v \in Values : Upsert(n, k, v)
        \/ Compact(n)
        \/ Leave(n)
    \/ \E n \in Nodes :
        \/ GossipRound(n)
        \/ \E m \in Seeds \ {n} : Join(n, m)
        \/ \E m \in Nodes : NotifyLeave(n, m)
    \/ \E n \in Detectors, S \in SUBSET Suspectable :
        n \notin S /\ (Liveness(n, S) \/ RemoveExpired(n, S))
    \/ \E m \in msgs :
        HandleDigest(m) \/ HandleDelta(m) \/ HandleJoin(m) \/ HandleStream(m)

Spec == Init /\ [][Next]_vars

-----------------------------------------------------------------------------
(***************************************************************************)
(* Properties.                                                             *)
(***************************************************************************)

TypeOK ==
    /\ nodes \in [Nodes -> [Nodes -> NodeState]]
    /\ msgs \subseteq Message
    /\ leaving \in [Nodes -> SUBSET Nodes]
    /\ expired \subseteq Nodes

(***************************************************************************)
(* A version is an honest summary of the entries below it.  The digest of  *)
(* a node reports only its version, and deltaEntry answers with what is    *)
(* newer, so an entry skipped below the version is never sent again.  As   *)
(* long as no node has removed the state of n, whoever is at version v of  *)
(* n holds every entry of n up to v exactly as n has it.                   *)
(***************************************************************************)
NoGap ==
    \A o \in Nodes, n \in Nodes \ expired :
        \A e \in nodes[n][n].entries :
            e.version <= nodes[o][n].version => e \in nodes[o][n].entries

(***************************************************************************)
(* Whoever has reached the version of n has the state of n: the same keys  *)
(* (a deleted or compacted key has not survived anywhere, whatever relays  *)
(* the entries came through) and the same left status.                     *)
(***************************************************************************)
CaughtUp ==
    \A o \in Nodes, n \in Nodes \ expired :
        nodes[o][n].version = nodes[n][n].version =>
            /\ nodes[o][n].entries = nodes[n][n].entries
            /\ nodes[o][n].left = nodes[n][n].left

(***************************************************************************)
(* No node is ahead of the owner, and none believes that a node has left   *)
(* which has not: this holds even for nodes whose state has expired.       *)
(***************************************************************************)
OwnerAhead ==
    \A o, n \in Nodes :
        /\ nodes[o][n].version <= nodes[n][n].version
        /\ nodes[o][n].left => nodes[n][n].left

\* What is known about a node that is not removed moves forward.
Advances(old, new) ==
    /\ old.known => new.known
    /\ old.version <= new.version
    /\ old.left => new.left

ForwardStep ==
    \A o \in Nodes, n \in Nodes \ expired' : Advances(nodes[o][n], nodes'[o][n])

(***************************************************************************)
(* What is known about a node only moves forward: ApplyDelta never lowers  *)
(* a version nor takes back left, whatever order packets arrive in; only   *)
(* RemoveExpired forgets.                                                  *)
(***************************************************************************)
Forward == [][ForwardStep]_vars

(***************************************************************************)
(* pkg/gossip/gossip.go:194: "After the node has left it's state should    *)
(* not be updated again."  UpsertLocal, DeleteLocal and the scheduled      *)
(* CompactLocal do not look at Left.                                       *)
(***************************************************************************)
LeftIsFinal ==
    [][\A n \in Nodes : nodes[n][n].left => nodes'[n][n] = nodes[n][n]]_vars

-----------------------------------------------------------------------------
(***************************************************************************)
(* The inductive invariant, in terms of what the nodes know (view) and the *)
(* nodes that were removed (gone).                                         *)
(***************************************************************************)

NodesOK(view, gone) ==
    /\ \A n \in Nodes : OwnerOK(view[n][n])
    /\ \A o, n \in Nodes : StateOK(view[o][n], view[n][n], n \notin gone)

MessageOK(m, view, gone) ==
    /\ m.type \in {"digest", "join"} =>
         \A d \in m.digest :
            d.id \notin gone => d.version <= view[m.from][d.id].version
    /\ m.type # "digest" =>
         \A x \in m.delta :
            DeltaEntryOK(x, view[m.to][x.id], view[x.id][x.id], x.id \notin gone)

(***************************************************************************)
(* The inductive invariant behind NoGap, CaughtUp and OwnerAhead.  A view  *)
(* holds every current entry of the owner up to its version; what else it  *)
(* holds the owner has replaced or compacted at a version still to come.   *)
(* A delta has no gap above the version it was computed for, which its     *)
(* receiver still has or has passed.                                       *)
(***************************************************************************)
IInv ==
    /\ TypeOK
    /\ NodesOK(nodes, expired)
    /\ \A m \in msgs : MessageOK(m, nodes, expired)

=============================================================================
