---------------------------- MODULE GossipProofs ----------------------------
(***************************************************************************)
(* The safety of the gossip protocol, proved for any number of nodes, keys *)
(* and messages: module Gossip satisfies TypeOK, NoGap, CaughtUp,          *)
(* OwnerAhead and Forward.                                                 *)
(***************************************************************************)
EXTENDS Gossip, GossipStateProofs

Views == [Nodes -> [Nodes -> NodeState]]

-----------------------------------------------------------------------------
(***************************************************************************)
(* What a node sends.  q is the receiver of the message.                   *)
(***************************************************************************)

\* A digest reports the versions its sender has.
LEMMA DigestOK ==
    ASSUME NEW N \in Views, NEW o \in Nodes
    PROVE  /\ Digest(N[o]) \subseteq DigestEntry
           /\ \A d \in Digest(N[o]) : d.version <= N[o][d.id].version
<1>1. \A n \in Nodes : N[o][n] \in NodeState
  BY DEF Views
<1>2. \A n \in Nodes : N[o][n].version \in Nat /\ N[o][n].left \in BOOLEAN
  BY <1>1 DEF NodeState
<1> QED  BY <1>2 DEF Digest, Known, DigestEntry

\* A delta entry for a version its receiver has reached has no gap.
LEMMA SentDeltaEntryOK ==
    ASSUME NEW N \in Views, NEW X, NodesOK(N, X),
           NEW o \in Nodes, NEW q \in Nodes, NEW n \in Nodes, NEW b \in Nat,
           n \notin X => b <= N[q][n].version
    PROVE  LET x == DeltaEntry(N[o], n, b)
           IN  /\ x \in DeltaEntries
               /\ x.id = n
               /\ DeltaEntryOK(x, N[q][n], N[n][n], n \notin X)
<1> DEFINE x == DeltaEntry(N[o], n, b)
           st == N[o][n]
           own == N[n][n]
<1>1. st \in NodeState /\ own \in NodeState
  BY DEF Views
<1>2. StateOK(st, own, n \notin X)
  BY DEF NodesOK
<1>3. x.id = n /\ x.base = b /\ x.entries = Newer(st, b)
  BY DEF DeltaEntry
<1> HIDE DEF st, own
<1>4. Newer(st, b) \subseteq st.entries
  BY DEF Newer
<1>5. x \in DeltaEntries
  BY <1>1, <1>4 DEF DeltaEntry, DeltaEntries, NodeState, st
<1> HIDE DEF x
<1>6. IsFiniteSet(x.entries)
  BY <1>2, <1>3, <1>4, FS_Subset DEF StateOK
<1>7. \A e \in x.entries : Genuine(e, own)
  BY <1>2, <1>3, <1>4 DEF StateOK
<1>8. n \notin X => DeltaOK(x.base, x.entries, own)
  BY <1>1, <1>2, <1>3, NewerDeltaOK DEF StateOK
<1>9. DeltaEntryOK(x, N[q][n], own, n \notin X)
  BY <1>3, <1>6, <1>7, <1>8 DEF DeltaEntryOK
<1> QED  BY <1>3, <1>5, <1>9 DEF x, own

\* What every delta entry to q satisfies.
SentOK(x, N, X, q) ==
    /\ x \in DeltaEntries
    /\ DeltaEntryOK(x, N[q][x.id], N[x.id][x.id], x.id \notin X)

\* The delta for a digest of q.
LEMMA DeltaSentOK ==
    ASSUME NEW N \in Views, NEW X, NodesOK(N, X),
           NEW o \in Nodes, NEW q \in Nodes,
           NEW digest \in SUBSET DigestEntry,
           \A d \in digest : d.id \notin X => d.version <= N[q][d.id].version,
           NEW full \in BOOLEAN, NEW x \in Delta(N[o], digest, full)
    PROVE  SentOK(x, N, X, q)
<1>1. \A n \in Nodes : N[q][n].version \in Nat
  BY DEF Views, NodeState
<1>2. ASSUME NEW d \in digest, x = DeltaEntry(N[o], d.id, d.version)
      PROVE  SentOK(x, N, X, q)
  <2>1. d.id \in Nodes /\ d.version \in Nat
    BY DEF DigestEntry
  <2> QED  BY <1>2, <2>1, SentDeltaEntryOK DEF SentOK
<1>3. ASSUME NEW n \in Nodes, x = DeltaEntry(N[o], n, 0)
      PROVE  SentOK(x, N, X, q)
  <2>1. 0 <= N[q][n].version
    BY <1>1
  <2> QED  BY <1>3, <2>1, SentDeltaEntryOK DEF SentOK
<1> QED  BY <1>2, <1>3 DEF Delta, Known

\* The delta of the local node, sent in a join or a leave.
LEMMA LocalDeltaSentOK ==
    ASSUME NEW N \in Views, NEW X, NodesOK(N, X),
           NEW o \in Nodes, NEW q \in Nodes, NEW x \in LocalDelta(N[o], o)
    PROVE  SentOK(x, N, X, q)
<1>1. 0 <= N[q][o].version
  BY DEF Views, NodeState
<1> QED  BY <1>1, SentDeltaEntryOK DEF SentOK, LocalDelta

\* A delta cut off where the packet is full.
LEMMA PacketSentOK ==
    ASSUME NEW N \in Views, NEW X, NEW q \in Nodes,
           NEW delta, \A x \in delta : SentOK(x, N, X, q),
           NEW p \in DeltaPackets(delta), NEW y \in p
    PROVE  SentOK(y, N, X, q)
<1>1. ASSUME NEW x \in delta, NEW c \in Nat, y = Prefix(x, c)
      PROVE  SentOK(y, N, X, q)
  <2> DEFINE E == {e \in x.entries : e.version <= c}
             own == N[x.id][x.id]
  <2>1. /\ x \in DeltaEntries
        /\ DeltaEntryOK(x, N[q][x.id], own, x.id \notin X)
    BY DEF SentOK
  <2>2. x.id \in Nodes /\ x.base \in Nat /\ x.entries \in SUBSET Entry
    BY <2>1 DEF DeltaEntries
  <2>3. own \in NodeState
    BY <2>2 DEF Views
  <2>4. E \in SUBSET Entry /\ IsFiniteSet(E) /\ \A e \in E : Genuine(e, own)
    BY <2>1, <2>2, FS_Subset DEF DeltaEntryOK
  <2>5. x.id \notin X => DeltaOK(x.base, E, own)
    BY <2>1, <2>2, <2>3, PrefixDeltaOK DEF DeltaEntryOK
  <2>6. y = [x EXCEPT !.entries = E]
    BY <1>1 DEF Prefix
  <2> HIDE DEF E
  <2>7. y \in DeltaEntries /\ y.id = x.id /\ y.base = x.base /\ y.entries = E
    BY <2>1, <2>4, <2>6 DEF DeltaEntries
  <2> QED  BY <2>1, <2>4, <2>5, <2>7 DEF SentOK, DeltaEntryOK
<1>2. ASSUME NEW x \in delta, NEW c \in {0} \cup {e.version : e \in x.entries}
      PROVE  c \in Nat
  <2>1. \A e \in x.entries : e.version \in Nat
    BY DEF SentOK, DeltaEntries, Entry
  <2> QED  BY <2>1
<1>3. y \in delta \/ \E x \in delta :
         \E c \in {0} \cup {e.version : e \in x.entries} : y = Prefix(x, c)
  BY DEF DeltaPackets
<1> QED  BY <1>1, <1>2, <1>3

-----------------------------------------------------------------------------
(***************************************************************************)
(* What a handler does to the states one node keeps.  RowOK says that row  *)
(* may replace what o knows.                                               *)
(***************************************************************************)
RowOK(row, N, X, o) ==
    /\ row \in [Nodes -> NodeState]
    /\ row[o] = N[o][o]
    /\ \A n \in Nodes : StateOK(row[n], N[n][n], n \notin X)
    /\ \A n \in Nodes \ X : Advances(N[o][n], row[n])

\* What a node knows is as good as itself.
LEMMA SameRowOK ==
    ASSUME NEW N \in Views, NEW X, NodesOK(N, X), NEW o \in Nodes
    PROVE  RowOK(N[o], N, X, o)
<1>1. \A n \in Nodes : N[o][n].version \in Nat
  BY DEF Views, NodeState
<1> QED  BY <1>1 DEF RowOK, NodesOK, Advances, Views

\* A node that is not known is at version 0 and has not left.
LEMMA DiscoverOK ==
    ASSUME NEW own \in NodeState, OwnerOK(own), NEW fresh \in BOOLEAN,
           NEW old \in NodeState, NEW st \in NodeState,
           StateOK(st, own, fresh), ~st.known, Advances(old, st)
    PROVE  Advances(old, NewNode) /\ NewNode.version = st.version
<1>1. st = Unknown
  BY DEF StateOK
<1> QED  BY <1>1 DEF Advances, NewNode, Unknown, Blank

\* ApplyDigest only adds nodes without entries, which are at version 0.
LEMMA ApplyDigestOK ==
    ASSUME NEW N \in Views, NEW X, NodesOK(N, X), NEW o \in Nodes,
           NEW row, RowOK(row, N, X, o), NEW digest
    PROVE  RowOK(ApplyDigest(row, digest), N, X, o)
<1> DEFINE new == ApplyDigest(row, digest)
<1>1. \A n \in Nodes : /\ row[n] \in NodeState
                       /\ N[o][n] \in NodeState /\ N[n][n] \in NodeState
                       /\ OwnerOK(N[n][n])
                       /\ StateOK(row[n], N[n][n], n \notin X)
  BY DEF RowOK, NodesOK, Views
<1>2. \A n \in Nodes : new[n] = row[n] \/ (new[n] = NewNode /\ ~row[n].known)
  BY DEF ApplyDigest
<1>3. new[o] = N[o][o]
  BY <1>1, <1>2 DEF RowOK, OwnerOK
<1>4. ASSUME NEW n \in Nodes
      PROVE  new[n] \in NodeState /\ StateOK(new[n], N[n][n], n \notin X)
  BY <1>1, <1>2, NewNodeOK, ZenonT(60)
<1>5. ASSUME NEW n \in Nodes \ X
      PROVE  Advances(N[o][n], new[n])
  <2>1. Advances(N[o][n], row[n])
    BY DEF RowOK
  <2>2. CASE new[n] = row[n]
    BY <2>1, <2>2
  <2>3. CASE new[n] = NewNode /\ ~row[n].known
    BY <1>1, <2>1, <2>3, DiscoverOK, ZenonT(60)
  <2> QED  BY <1>2, <2>2, <2>3
<1>6. new \in [Nodes -> NodeState]
  BY <1>4 DEF ApplyDigest
<1> QED  BY <1>3, <1>4, <1>5, <1>6 DEF RowOK

\* ApplyDelta of a sound delta keeps every row of the receiver sound.
LEMMA ApplyDeltaOK ==
    ASSUME NEW N \in Views, NEW X, NodesOK(N, X), NEW o \in Nodes,
           NEW row, RowOK(row, N, X, o),
           NEW delta, \A x \in delta : SentOK(x, N, X, o)
    PROVE  RowOK(ApplyDelta(row, o, delta), N, X, o)
<1> DEFINE new == ApplyDelta(row, o, delta)
<1>1. ASSUME NEW n \in Nodes
      PROVE  /\ row[n] \in NodeState
             /\ N[o][n] \in NodeState /\ N[n][n] \in NodeState
             /\ OwnerOK(N[n][n])
             /\ StateOK(row[n], N[n][n], n \notin X)
             /\ n \notin X => Advances(N[o][n], row[n])
  BY DEF RowOK, NodesOK, Views
<1>2. ASSUME NEW n \in Nodes, NEW x \in delta, x.id = n,
             new[n] = ApplyDeltaEntry(row[n], x.entries)
      PROVE  /\ new[n] \in NodeState
             /\ StateOK(new[n], N[n][n], n \notin X)
             /\ n \notin X => Advances(N[o][n], new[n])
  <2> DEFINE own == N[n][n]
             st == IF row[n].known THEN row[n] ELSE NewNode
             fresh == n \notin X
  <2>1. /\ st \in NodeState
        /\ st.known
        /\ StateOK(st, own, fresh)
        /\ fresh => Advances(N[o][n], st)
    BY <1>1, NewNodeOK, DiscoverOK, ZenonT(60)
  <2>2. new[n] = Apply(st, x.entries)
    BY <1>2 DEF ApplyDeltaEntry
  <2>3. /\ x.base \in Nat
        /\ x.entries \in SUBSET Entry
        /\ DeltaEntryOK(x, N[o][n], own, fresh)
    BY <1>2 DEF SentOK, DeltaEntries
  <2>4. own \in NodeState /\ OwnerOK(own) /\ fresh \in BOOLEAN
    BY <1>1
  <2> HIDE DEF own, st, fresh
  <2>5. DeltaEntryOK(x, st, own, fresh)
    <3>1. fresh => x.base <= st.version
      <4>1. x.base \in Nat /\ N[o][n].version \in Nat /\ st.version \in Nat
        BY <1>1, <2>1, <2>3 DEF NodeState
      <4> QED  BY <2>1, <2>3, <4>1 DEF DeltaEntryOK, Advances
    <3> QED  BY <2>3, <3>1 DEF DeltaEntryOK
  <2>6. new[n] \in NodeState /\ StateOK(new[n], own, fresh)
    BY <2>1, <2>2, <2>3, <2>4, <2>5, ApplyStateOK
  <2>7. Advances(st, new[n])
    <3>1. own.version \in Nat /\ \A e \in x.entries : e.version <= own.version
      BY <2>3, <2>4 DEF DeltaEntryOK, Genuine, NodeState
    <3> QED  BY <2>1, <2>2, <2>3, <3>1, ApplyForward DEF Advances
  <2>8. fresh => Advances(N[o][n], new[n])
    <3>1. /\ N[o][n].version \in Nat /\ st.version \in Nat
          /\ new[n].version \in Nat
      BY <1>1, <2>1, <2>6 DEF NodeState
    <3> QED  BY <2>1, <2>7, <3>1 DEF Advances
  <2> QED  BY <2>6, <2>8 DEF own, fresh
<1>3. ASSUME NEW n \in Nodes
      PROVE  \/ new[n] = row[n]
             \/ n # o /\ \E x \in delta :
                  /\ x.id = n
                  /\ new[n] = ApplyDeltaEntry(row[n], x.entries)
  BY ZenonT(60) DEF ApplyDelta
<1>4. new[o] = row[o]
  BY <1>3
<1>5. ASSUME NEW n \in Nodes
      PROVE  /\ new[n] \in NodeState
             /\ StateOK(new[n], N[n][n], n \notin X)
             /\ n \notin X => Advances(N[o][n], new[n])
  BY <1>1, <1>2, <1>3
<1>6. new \in [Nodes -> NodeState]
  BY <1>5 DEF ApplyDelta
<1> HIDE DEF new
<1>7. new[o] = N[o][o]
  BY <1>4 DEF RowOK
<1> QED  BY <1>5, <1>6, <1>7 DEF RowOK, new

-----------------------------------------------------------------------------
(***************************************************************************)
(* What a step does to everything the nodes know, from N to M.             *)
(***************************************************************************)

SetRow(M, N, o, row) == M = [N EXCEPT ![o] = row]

\* A step that changes what one node knows about the others.
LEMMA RowStepOK ==
    ASSUME NEW N \in Views, NEW X, NodesOK(N, X), NEW o \in Nodes,
           NEW row, RowOK(row, N, X, o),
           NEW M, SetRow(M, N, o, row)
    PROVE  /\ M \in Views
           /\ NodesOK(M, X)
           /\ M[o] = row
           /\ \A p \in Nodes, n \in Nodes \ X : Advances(N[p][n], M[p][n])
           /\ \A n \in Nodes : Evolves(N[n][n], M[n][n])
<1>1. /\ \A p \in Nodes : M[p] = IF p = o THEN row ELSE N[p]
      /\ row \in [Nodes -> NodeState]
  BY DEF Views, RowOK, SetRow
<1>2. M \in Views
  BY <1>1, ZenonT(60) DEF Views, SetRow
<1>3. \A n \in Nodes : M[n][n] = N[n][n]
  BY <1>1 DEF RowOK
<1>4. NodesOK(M, X)
  BY <1>1, <1>3 DEF NodesOK, RowOK
<1>5. ASSUME NEW p \in Nodes, NEW n \in Nodes \ X
      PROVE  Advances(N[p][n], M[p][n])
  <2>1. RowOK(N[p], N, X, p)
    BY SameRowOK
  <2> QED  BY <1>1, <2>1 DEF RowOK
<1>6. ASSUME NEW n \in Nodes
      PROVE  Evolves(N[n][n], M[n][n])
  BY <1>3, SameOK DEF NodesOK, Views
<1> QED  BY <1>1, <1>2, <1>4, <1>5, <1>6

\* A step that changes what one node says about itself.
LEMMA LocalStepOK ==
    ASSUME NEW N \in Views, NEW X, NodesOK(N, X), NEW o \in Nodes,
           NEW st \in NodeState, OwnerOK(st), Evolves(N[o][o], st),
           NEW M, M = [N EXCEPT ![o][o] = st]
    PROVE  /\ M \in Views
           /\ NodesOK(M, X)
           /\ \A p \in Nodes, n \in Nodes \ X : Advances(N[p][n], M[p][n])
           /\ \A n \in Nodes : Evolves(N[n][n], M[n][n])
<1>1. \A p, n \in Nodes :
         /\ M[p][n] = IF p = o /\ n = o THEN st ELSE N[p][n]
         /\ N[p][n] \in NodeState
         /\ N[p][n].version \in Nat
  BY DEF Views, NodeState
<1>2. M \in Views
  BY DEF Views
<1>3. \A n \in Nodes : OwnerOK(M[n][n])
  BY <1>1 DEF NodesOK
<1>4. ASSUME NEW n \in Nodes
      PROVE  Evolves(N[n][n], M[n][n])
  BY <1>1, SameOK DEF NodesOK
<1>5. ASSUME NEW p \in Nodes, NEW n \in Nodes
      PROVE  StateOK(M[p][n], M[n][n], n \notin X)
  <2>1. M[n][n] \in NodeState /\ M[p][n] \in NodeState
    BY <1>1
  <2>2. CASE p = n
    BY <1>3, <2>1, <2>2, OwnerStateOK, ZenonT(60)
  <2>3. CASE p # n
    <3>1. M[p][n] = N[p][n] /\ StateOK(N[p][n], N[n][n], n \notin X)
      BY <1>1, <2>3 DEF NodesOK
    <3>2. N[n][n] \in NodeState /\ Evolves(N[n][n], M[n][n])
      BY <1>1, <1>4
    <3>3. PICK fresh \in BOOLEAN : fresh = (n \notin X)
      BY ZenonT(60)
    <3> DEFINE old == N[n][n]
               new == M[n][n]
               view == M[p][n]
    <3>4. /\ old \in NodeState /\ new \in NodeState /\ view \in NodeState
          /\ Evolves(old, new)
          /\ StateOK(view, old, fresh)
      BY <2>1, <3>1, <3>2, <3>3
    <3> HIDE DEF old, new, view
    <3>5. StateOK(view, new, fresh)
      BY <3>4, EvolvesStateOK
    <3> QED  BY <3>3, <3>5 DEF new, view
  <2> QED  BY <2>2, <2>3
<1>6. ASSUME NEW p \in Nodes, NEW n \in Nodes \ X
      PROVE  Advances(N[p][n], M[p][n])
  <2>1. CASE p = o /\ n = o
    BY <1>1, <2>1 DEF Advances, Evolves, OwnerOK
  <2>2. CASE ~(p = o /\ n = o)
    BY <1>1, <2>2 DEF Advances
  <2> QED  BY <2>1, <2>2
<1> QED  BY <1>2, <1>3, <1>4, <1>5, <1>6 DEF NodesOK

\* The types of the fields of a message, by its type.
LEMMA MessageFields ==
    ASSUME NEW m \in Message
    PROVE  /\ m.from \in Nodes
           /\ m.to \in Nodes
           /\ m.type \in {"digest", "join"} => m.digest \in SUBSET DigestEntry
           /\ m.type # "digest" => m.delta \in SUBSET DeltaEntries
  BY DEF Message

\* Both kinds of step keep a message in flight valid.
LEMMA MessageStepOK ==
    ASSUME NEW N \in Views, NEW M \in Views, NEW X,
           \A p \in Nodes, n \in Nodes \ X : Advances(N[p][n], M[p][n]),
           \A n \in Nodes : Evolves(N[n][n], M[n][n]),
           NEW m \in Message, MessageOK(m, N, X)
    PROVE  MessageOK(m, M, X)
<1>1. \A p, n \in Nodes : /\ N[p][n] \in NodeState /\ N[p][n].version \in Nat
                          /\ M[p][n] \in NodeState /\ M[p][n].version \in Nat
  BY DEF Views, NodeState
<1>2. m.from \in Nodes /\ m.to \in Nodes
  BY MessageFields
<1>3. ASSUME m.type \in {"digest", "join"}, NEW d \in m.digest, d.id \notin X
      PROVE  d.version <= M[m.from][d.id].version
  <2>1. d.id \in Nodes /\ d.version \in Nat
    BY <1>3, MessageFields DEF DigestEntry
  <2>2. d.version <= N[m.from][d.id].version
    BY <1>3 DEF MessageOK
  <2>3. N[m.from][d.id].version <= M[m.from][d.id].version
    BY <1>2, <1>3, <2>1, SMTT(60) DEF Advances
  <2> QED  BY <1>1, <1>2, <2>1, <2>2, <2>3
<1>4. ASSUME m.type # "digest", NEW x \in m.delta
      PROVE  DeltaEntryOK(x, M[m.to][x.id], M[x.id][x.id], x.id \notin X)
  <2> DEFINE n == x.id
             fresh == n \notin X
  <2>1. x.entries \in SUBSET Entry /\ n \in Nodes /\ x.base \in Nat
    BY <1>4, MessageFields DEF DeltaEntries
  <2>2. DeltaEntryOK(x, N[m.to][n], N[n][n], fresh)
    BY <1>4 DEF MessageOK
  <2>3. DeltaEntryOK(x, N[m.to][n], M[n][n], fresh)
    BY <1>1, <1>2, <2>1, <2>2, EvolvesDeltaEntryOK, ZenonT(60)
  <2>4. fresh => x.base <= M[m.to][n].version
    BY <1>1, <1>2, <2>1, <2>2 DEF DeltaEntryOK, Advances
  <2> QED  BY <2>3, <2>4 DEF DeltaEntryOK
<1> QED  BY <1>3, <1>4 DEF MessageOK

\* Removing nodes weakens what is said of their states.
LEMMA RemovedOK ==
    ASSUME NEW N, NEW X, NEW Y, X \subseteq Y, NodesOK(N, X)
    PROVE  NodesOK(N, Y) /\ \A m : MessageOK(m, N, X) => MessageOK(m, N, Y)
<1>1. NodesOK(N, Y)
  BY DEF NodesOK, StateOK
<1>2. ASSUME NEW m, MessageOK(m, N, X)
      PROVE  MessageOK(m, N, Y)
  BY <1>2 DEF MessageOK, DeltaEntryOK
<1> QED  BY <1>1, <1>2, SMTT(60)

-----------------------------------------------------------------------------
(***************************************************************************)
(* The steps of the protocol.                                              *)
(***************************************************************************)

\* What a step has to establish; out is what it sends.
LEMMA StepOK ==
    ASSUME TypeOK,
           \A m \in msgs : MessageOK(m, nodes, expired'),
           nodes' \in Views, NodesOK(nodes', expired'),
           \A o \in Nodes, n \in Nodes \ expired' :
              Advances(nodes[o][n], nodes'[o][n]),
           \A n \in Nodes : Evolves(nodes[n][n], nodes'[n][n]),
           NEW out \in SUBSET Message,
           \A m \in out : MessageOK(m, nodes', expired'),
           msgs' \subseteq msgs \cup out,
           leaving' \in [Nodes -> SUBSET Nodes],
           expired' \subseteq Nodes
    PROVE  IInv' /\ ForwardStep
<1>1. nodes \in Views /\ msgs \subseteq Message
  BY DEF TypeOK, Views
<1>2. ASSUME NEW m \in msgs
      PROVE  MessageOK(m, nodes', expired')
  <2>1. MessageOK(m, nodes, expired') /\ m \in Message
    BY <1>1
  <2> QED  BY <1>1, <2>1, MessageStepOK, SMTT(60)
<1>3. \A m \in msgs' : MessageOK(m, nodes', expired')
  BY <1>2
<1>4. TypeOK'
  BY <1>1 DEF TypeOK, Views
<1>5. ForwardStep
  BY DEF ForwardStep
<1> QED  BY <1>3, <1>4, <1>5 DEF IInv

\* Doing nothing to what the nodes know.
LEMMA SameStepOK ==
    ASSUME NEW N \in Views, NEW X, NodesOK(N, X)
    PROVE  /\ \A o \in Nodes, n \in Nodes \ X : Advances(N[o][n], N[o][n])
           /\ \A n \in Nodes : Evolves(N[n][n], N[n][n])
<1>1. ASSUME NEW o \in Nodes, NEW n \in Nodes \ X
      PROVE  Advances(N[o][n], N[o][n])
  BY SameRowOK DEF RowOK
<1>2. ASSUME NEW n \in Nodes
      PROVE  Evolves(N[n][n], N[n][n])
  BY SameOK DEF NodesOK, Views
<1> QED  BY <1>1, <1>2, SMTT(60)

\* A step of the local node: it changes its own state and sends nothing.
LEMMA SetLocalOK ==
    ASSUME IInv, NEW n \in Nodes, NEW st \in NodeState,
           OwnerOK(st), Evolves(nodes[n][n], st), SetLocal(n, st),
           leaving' \in [Nodes -> SUBSET Nodes], UNCHANGED <<msgs, expired>>
    PROVE  IInv' /\ ForwardStep
<1>1. /\ TypeOK
      /\ nodes \in Views
      /\ NodesOK(nodes, expired)
      /\ \A m \in msgs : MessageOK(m, nodes, expired)
      /\ expired' = expired /\ msgs' = msgs /\ expired \subseteq Nodes
  BY DEF IInv, TypeOK, Views
<1>2. nodes' = [nodes EXCEPT ![n][n] = st]
  BY DEF SetLocal
<1>3. /\ nodes' \in Views
      /\ NodesOK(nodes', expired)
      /\ \A p \in Nodes, q \in Nodes \ expired :
            Advances(nodes[p][q], nodes'[p][q])
      /\ \A q \in Nodes : Evolves(nodes[q][q], nodes'[q][q])
  BY <1>1, <1>2, LocalStepOK, ZenonT(60)
<1>4. {} \in SUBSET Message /\ msgs' \subseteq msgs \cup {}
  BY <1>1, SMTT(60)
<1> QED  BY <1>1, <1>3, <1>4, StepOK, ZenonT(60)

\* A step that sends out and changes what no node knows.
LEMMA SendOK ==
    ASSUME IInv, NEW out \in SUBSET Message,
           \A m \in out : MessageOK(m, nodes, expired),
           Transmit(msgs, out), leaving' \in [Nodes -> SUBSET Nodes],
           UNCHANGED <<nodes, expired>>
    PROVE  IInv' /\ ForwardStep
<1>1. /\ TypeOK
      /\ nodes \in Views
      /\ NodesOK(nodes, expired)
      /\ \A m \in msgs : MessageOK(m, nodes, expired)
      /\ expired' = expired /\ nodes' = nodes /\ expired \subseteq Nodes
  BY DEF IInv, TypeOK, Views
<1>2. msgs' \subseteq msgs \cup out
  BY DEF Transmit
<1>3. /\ \A p \in Nodes, q \in Nodes \ expired :
            Advances(nodes[p][q], nodes[p][q])
      /\ \A q \in Nodes : Evolves(nodes[q][q], nodes[q][q])
  BY <1>1, SameStepOK, SMTT(60)
<1> QED  BY <1>1, <1>2, <1>3, StepOK

\* A step that changes what node o knows about the others.
LEMMA RowOKStep ==
    ASSUME IInv, NEW o \in Nodes, NEW row,
           expired \subseteq expired', expired' \subseteq Nodes,
           RowOK(row, nodes, expired', o),
           SetRow(nodes', nodes, o, row)
    PROVE  /\ TypeOK
           /\ nodes' \in Views
           /\ NodesOK(nodes', expired')
           /\ nodes'[o] = row
           /\ \A p \in Nodes, n \in Nodes \ expired' :
                 Advances(nodes[p][n], nodes'[p][n])
           /\ \A n \in Nodes : Evolves(nodes[n][n], nodes'[n][n])
           /\ \A m \in msgs : /\ m \in Message
                             /\ MessageOK(m, nodes, expired')
                             /\ MessageOK(m, nodes', expired')
<1>1. /\ TypeOK
      /\ nodes \in Views
      /\ NodesOK(nodes, expired)
      /\ \A m \in msgs : m \in Message /\ MessageOK(m, nodes, expired)
  BY DEF IInv, TypeOK, Views
<1>2. /\ NodesOK(nodes, expired')
      /\ \A m \in msgs : MessageOK(m, nodes, expired')
  BY <1>1, RemovedOK, ZenonT(60)
<1>3. /\ nodes' \in Views
      /\ NodesOK(nodes', expired')
      /\ nodes'[o] = row
      /\ \A p \in Nodes, n \in Nodes \ expired' :
            Advances(nodes[p][n], nodes'[p][n])
      /\ \A n \in Nodes : Evolves(nodes[n][n], nodes'[n][n])
  BY <1>1, <1>2, RowStepOK, SMTT(60)
<1>4. ASSUME NEW m \in msgs
      PROVE  MessageOK(m, nodes', expired')
  <2>1. m \in Message /\ MessageOK(m, nodes, expired')
    BY <1>1, <1>2
  <2> QED  BY <1>1, <1>3, <2>1, MessageStepOK
<1> QED  BY <1>1, <1>2, <1>3, <1>4, SMTT(60)

\* UpsertLocal, DeleteLocal, CompactLocal and Leave.
LEMMA LocalActionsOK ==
    ASSUME IInv, NEW n \in Writers,
           \/ \E k \in Keys : Delete(n, k) \/ \E v \in Values : Upsert(n, k, v)
           \/ Compact(n)
           \/ Leave(n)
    PROVE  IInv' /\ ForwardStep
<1> DEFINE own == nodes[n][n]
<1>1. n \in Nodes
  BY GossipAssumption
<1>2. /\ own \in NodeState
      /\ OwnerOK(own)
      /\ leaving \in [Nodes -> SUBSET Nodes]
  BY <1>1, SMTT(60) DEF IInv, TypeOK, NodesOK
<1>3. ASSUME NEW k \in Keys, Delete(n, k)
      PROVE  IInv' /\ ForwardStep
  <2>1. /\ SetLocal(n, DeleteLocal(own, k))
        /\ leaving' = leaving /\ UNCHANGED <<msgs, expired>>
    BY <1>3 DEF Delete
  <2> HIDE DEF own
  <2>2. /\ DeleteLocal(own, k) \in NodeState
        /\ OwnerOK(DeleteLocal(own, k))
        /\ Evolves(own, DeleteLocal(own, k))
    BY <1>2, DeleteLocalOK, SMTT(60)
  <2> QED  BY <1>1, <1>2, <2>1, <2>2, SetLocalOK, SMTT(60) DEF own
<1>4. ASSUME NEW k \in Keys, NEW v \in Values, Upsert(n, k, v)
      PROVE  IInv' /\ ForwardStep
  <2>1. /\ SetLocal(n, UpsertLocal(own, k, v))
        /\ leaving' = leaving /\ UNCHANGED <<msgs, expired>>
    BY <1>4 DEF Upsert
  <2> HIDE DEF own
  <2>2. /\ UpsertLocal(own, k, v) \in NodeState
        /\ OwnerOK(UpsertLocal(own, k, v))
        /\ Evolves(own, UpsertLocal(own, k, v))
    BY <1>2, UpsertLocalOK, SMTT(60)
  <2> QED  BY <1>1, <1>2, <2>1, <2>2, SetLocalOK, SMTT(60) DEF own
<1>5. ASSUME Compact(n)
      PROVE  IInv' /\ ForwardStep
  <2>1. /\ SetLocal(n, CompactLocal(own))
        /\ leaving' = leaving /\ UNCHANGED <<msgs, expired>>
    BY <1>5 DEF Compact
  <2> HIDE DEF own
  <2>2. /\ CompactLocal(own) \in NodeState
        /\ OwnerOK(CompactLocal(own))
        /\ Evolves(own, CompactLocal(own))
    BY <1>2, CompactLocalOK, SMTT(60)
  <2> QED  BY <1>1, <1>2, <2>1, <2>2, SetLocalOK, SMTT(60) DEF own
<1>6. ASSUME Leave(n)
      PROVE  IInv' /\ ForwardStep
  <2>1. SetLocal(n, LeaveLocal(own)) /\ UNCHANGED <<msgs, expired>>
    BY <1>6 DEF Leave
  <2>2. leaving' \in [Nodes -> SUBSET Nodes]
    <3>1. LiveNodes(nodes[n], n) \in SUBSET Nodes
      BY DEF LiveNodes, Known
    <3> HIDE DEF own
    <3> QED  BY <1>2, <1>6, <3>1, ZenonT(60) DEF Leave
  <2> HIDE DEF own
  <2>3. /\ LeaveLocal(own) \in NodeState
        /\ OwnerOK(LeaveLocal(own))
        /\ Evolves(own, LeaveLocal(own))
    BY <1>2, LeaveLocalOK
  <2> QED  BY <1>1, <2>1, <2>2, <2>3, SetLocalOK, SMTT(60) DEF own
<1> QED  BY <1>3, <1>4, <1>5, <1>6

\* A delta that is sent is valid for its receiver.
LEMMA DeltaMsgOK ==
    ASSUME NEW N \in Views, NEW X, NEW o \in Nodes, NEW q \in Nodes,
           NEW type \in {"delta", "joined", "leave"},
           NEW delta, \A x \in delta : SentOK(x, N, X, q)
    PROVE  /\ DeltaMsg(type, o, q, delta) \in Message
           /\ MessageOK(DeltaMsg(type, o, q, delta), N, X)
<1> DEFINE m == DeltaMsg(type, o, q, delta)
<1>1. delta \in SUBSET DeltaEntries
  BY DEF SentOK
<1>2. m \in Message
  BY <1>1 DEF DeltaMsg, Message
<1>3. m.type = type /\ m.to = q /\ m.delta = delta
  BY DEF DeltaMsg
<1> HIDE DEF m
<1>4. MessageOK(m, N, X)
  BY <1>3 DEF MessageOK, SentOK
<1> QED  BY <1>2, <1>4 DEF m

\* So is a digest.
LEMMA DigestMsgOK ==
    ASSUME NEW N \in Views, NEW X, NEW o \in Nodes, NEW q \in Nodes,
           NEW request \in BOOLEAN, NEW d \in DigestPackets(N[o])
    PROVE  /\ DigestMsg(o, q, request, d) \in Message
           /\ MessageOK(DigestMsg(o, q, request, d), N, X)
<1> DEFINE m == DigestMsg(o, q, request, d)
<1>1. d \subseteq Digest(N[o])
  BY DEF DigestPackets
<1>2. d \in SUBSET DigestEntry
  BY <1>1, DigestOK
<1>3. m \in Message
  BY <1>2 DEF DigestMsg, Message
<1>4. m.type = "digest" /\ m.from = o /\ m.digest = d
  BY DEF DigestMsg
<1> HIDE DEF m
<1>5. MessageOK(m, N, X)
  BY <1>1, <1>4, DigestOK DEF MessageOK
<1> QED  BY <1>3, <1>5 DEF m

\* gossipRound, Join and the notifications of Leave.
LEMMA SendersOK ==
    ASSUME IInv, NEW n \in Nodes,
           \/ GossipRound(n)
           \/ \E m \in Seeds \ {n} : Join(n, m)
           \/ \E m \in Nodes : NotifyLeave(n, m)
    PROVE  IInv' /\ ForwardStep
<1>1. /\ nodes \in Views
      /\ NodesOK(nodes, expired)
      /\ leaving \in [Nodes -> SUBSET Nodes]
  BY DEF IInv, TypeOK, Views
<1>2. CASE GossipRound(n)
  <2>1. PICK live \in Pick(LiveNodes(nodes[n], n)),
             unreachable \in Pick(UnreachableNodes(nodes[n], n)) :
           \E d \in [live \cup unreachable -> DigestPackets(nodes[n])] :
              Transmit(msgs, {DigestMsg(n, m, TRUE, d[m]) : m \in DOMAIN d})
    BY <1>2, ZenonT(60) DEF GossipRound
  <2>2. PICK d \in [live \cup unreachable -> DigestPackets(nodes[n])] :
              Transmit(msgs, {DigestMsg(n, m, TRUE, d[m]) : m \in DOMAIN d})
    BY <2>1, ZenonT(60)
  <2>3. live \cup unreachable \subseteq Nodes
    BY DEF Pick, LiveNodes, UnreachableNodes, Known
  <2> DEFINE out == {DigestMsg(n, m, TRUE, d[m]) : m \in DOMAIN d}
  <2>4. ASSUME NEW m \in DOMAIN d
        PROVE  /\ DigestMsg(n, m, TRUE, d[m]) \in Message
               /\ MessageOK(DigestMsg(n, m, TRUE, d[m]), nodes, expired)
    <3>1. m \in Nodes /\ d[m] \in DigestPackets(nodes[n])
      BY <2>3
    <3> QED  BY <1>1, <3>1, DigestMsgOK, ZenonT(60)
  <2>5. out \in SUBSET Message /\ \A m \in out : MessageOK(m, nodes, expired)
    BY <2>4, ZenonT(60)
  <2>6. leaving' = leaving /\ UNCHANGED <<nodes, expired>>
    BY <1>2 DEF GossipRound
  <2>7. Transmit(msgs, out)
    BY <2>2
  <2> HIDE DEF out
  <2> QED  BY <1>1, <2>5, <2>6, <2>7, SendOK, SMTT(60)
<1>3. ASSUME NEW q \in Seeds \ {n}, Join(n, q)
      PROVE  IInv' /\ ForwardStep
  <2> DEFINE m == [type |-> "join", from |-> n, to |-> q,
                   delta |-> LocalDelta(nodes[n], n),
                   digest |-> Digest(nodes[n])]
  <2>1. q \in Nodes
    BY GossipAssumption
  <2>2. \A x \in LocalDelta(nodes[n], n) : SentOK(x, nodes, expired, q)
    BY <1>1, <2>1, LocalDeltaSentOK
  <2>3. LocalDelta(nodes[n], n) \in SUBSET DeltaEntries
    BY <2>2 DEF SentOK
  <2>4. Digest(nodes[n]) \in SUBSET DigestEntry
    BY <1>1, DigestOK, SMTT(60)
  <2>5. m \in Message
    BY <2>1, <2>3, <2>4, SMTT(60) DEF Message
  <2>6. MessageOK(m, nodes, expired)
    BY <1>1, <2>2, DigestOK, SMTT(60) DEF MessageOK, SentOK
  <2>7. /\ Transmit(msgs, {m})
        /\ leaving' = leaving /\ UNCHANGED <<nodes, expired>>
    BY <1>3 DEF Join
  <2> HIDE DEF m
  <2> QED  BY <1>1, <2>5, <2>6, <2>7, SendOK
<1>4. ASSUME NEW q \in Nodes, NotifyLeave(n, q)
      PROVE  IInv' /\ ForwardStep
  <2> DEFINE m == DeltaMsg("leave", n, q, LocalDelta(nodes[n], n))
  <2>1. \A x \in LocalDelta(nodes[n], n) : SentOK(x, nodes, expired, q)
    BY <1>1, LocalDeltaSentOK, SMTT(60)
  <2>2. m \in Message /\ MessageOK(m, nodes, expired)
    BY <1>1, <2>1, DeltaMsgOK, SMTT(60)
  <2>3. /\ Transmit(msgs, {m})
        /\ UNCHANGED <<nodes, expired>>
    BY <1>4 DEF NotifyLeave
  <2>4. leaving' \in [Nodes -> SUBSET Nodes]
    BY <1>1, <1>4 DEF NotifyLeave
  <2> HIDE DEF m
  <2> QED  BY <2>2, <2>3, <2>4, SendOK, SMTT(60)
<1> QED  BY <1>2, <1>3, <1>4

\* UpdateLiveness changes neither version, entries nor left.
LEMMA UpdateLivenessOK ==
    ASSUME NEW own \in NodeState, NEW fresh \in BOOLEAN,
           NEW st \in NodeState, StateOK(st, own, fresh), NEW s \in BOOLEAN
    PROVE  LET r == UpdateLiveness(st, s)
           IN  r \in NodeState /\ StateOK(r, own, fresh) /\ Advances(st, r)
<1> DEFINE r == UpdateLiveness(st, s)
<1>1. r \in NodeState
  BY ZenonT(60) DEF UpdateLiveness, NodeState
<1>2. /\ r.known = st.known /\ r.version = st.version /\ r.left = st.left
      /\ r.entries = st.entries
  BY DEF UpdateLiveness, NodeState
<1>3. r = st \/ r.known
  BY <1>2, SMTT(60) DEF UpdateLiveness
<1> HIDE DEF r
<1>4. StateOK(r, own, fresh)
  BY <1>2, <1>3 DEF StateOK
<1>5. Advances(st, r)
  BY <1>2 DEF Advances, NodeState
<1> QED  BY <1>1, <1>4, <1>5 DEF r

\* updateLiveness and removeExpired.
LEMMA DetectorsOK ==
    ASSUME IInv, NEW o \in Nodes, NEW S \in SUBSET (Suspectable \ {o}),
           Liveness(o, S) \/ RemoveExpired(o, S)
    PROVE  IInv' /\ ForwardStep
<1>1. /\ nodes \in Views
      /\ NodesOK(nodes, expired)
      /\ leaving \in [Nodes -> SUBSET Nodes]
      /\ expired \subseteq Nodes
  BY DEF IInv, TypeOK, Views
<1>2. \A n \in Nodes : /\ nodes[o][n] \in NodeState
                       /\ nodes[n][n] \in NodeState
                       /\ OwnerOK(nodes[n][n])
                       /\ StateOK(nodes[o][n], nodes[n][n], n \notin expired)
  BY <1>1, SMTT(60) DEF NodesOK, Views
<1>3. ASSUME NEW row, RowOK(row, nodes, expired', o),
             SetRow(nodes', nodes, o, row),
             expired \subseteq expired', expired' \subseteq Nodes,
             UNCHANGED <<msgs, leaving>>
      PROVE  IInv' /\ ForwardStep
  <2>1. /\ TypeOK
        /\ nodes' \in Views
        /\ NodesOK(nodes', expired')
        /\ \A p \in Nodes, n \in Nodes \ expired' :
              Advances(nodes[p][n], nodes'[p][n])
        /\ \A n \in Nodes : Evolves(nodes[n][n], nodes'[n][n])
        /\ \A m \in msgs : MessageOK(m, nodes, expired')
    BY <1>3, RowOKStep
  <2>2. {} \in SUBSET Message /\ msgs' \subseteq msgs \cup {}
    BY <1>3
  <2> QED  BY <1>1, <1>3, <2>1, <2>2, StepOK, ZenonT(60)
<1>4. CASE Liveness(o, S)
  <2> DEFINE row == [n \in Nodes |->
                        IF n = o THEN nodes[o][n]
                        ELSE UpdateLiveness(nodes[o][n], n \in S)]
  <2>1. SetRow(nodes', nodes, o, row)
    BY <1>4 DEF Liveness, SetRow
  <2>2. expired' = expired /\ UNCHANGED <<msgs, leaving>>
    BY <1>4, SMTT(60) DEF Liveness
  <2>3. ASSUME NEW n \in Nodes
        PROVE  /\ row[n] \in NodeState
               /\ StateOK(row[n], nodes[n][n], n \notin expired)
               /\ Advances(nodes[o][n], row[n])
    <3>1. CASE n = o
      BY <1>2, <3>1, SMTT(60) DEF Advances, NodeState
    <3>2. CASE n # o
      <4> DEFINE s == n \in S
                 fresh == n \notin expired
      <4>1. s \in BOOLEAN /\ fresh \in BOOLEAN
        BY SMTT(60)
      <4>2. row[n] = UpdateLiveness(nodes[o][n], s)
        BY <3>2, SMTT(60)
      <4>3. StateOK(nodes[o][n], nodes[n][n], fresh)
        BY <1>2, SMTT(60)
      <4> HIDE DEF row, s, fresh
      <4>4. /\ row[n] \in NodeState
            /\ StateOK(row[n], nodes[n][n], fresh)
            /\ Advances(nodes[o][n], row[n])
        BY <1>2, <4>1, <4>2, <4>3, UpdateLivenessOK, SMTT(60)
      <4> QED  BY <4>4 DEF fresh
    <3> QED  BY <3>1, <3>2, SMTT(60)
  <2>4. row[o] = nodes[o][o]
    BY SMTT(60)
  <2>5. row \in [Nodes -> NodeState]
    BY <2>3, SMTT(60)
  <2> HIDE DEF row
  <2>6. RowOK(row, nodes, expired', o)
    BY <2>2, <2>3, <2>4, <2>5, SMTT(60) DEF RowOK
  <2> QED  BY <1>1, <1>3, <2>1, <2>2, <2>6, SMTT(60)
<1>5. CASE RemoveExpired(o, S)
  <2> DEFINE row == [n \in Nodes |->
                        IF n \in S THEN Unknown ELSE nodes[o][n]]
  <2>1. SetRow(nodes', nodes, o, row)
    BY <1>5 DEF RemoveExpired, SetRow
  <2>2. expired' = expired \cup S /\ UNCHANGED <<msgs, leaving>>
    BY <1>5 DEF RemoveExpired
  <2>3. S \subseteq Nodes /\ o \notin S
    BY GossipAssumption
  <2>4. NodesOK(nodes, expired')
    BY <1>1, <2>2, RemovedOK
  <2>5. RowOK(nodes[o], nodes, expired', o)
    BY <1>1, <2>4, SameRowOK, SMTT(60)
  <2>6. ASSUME NEW n \in Nodes
        PROVE  /\ row[n] \in NodeState
               /\ StateOK(row[n], nodes[n][n], n \notin expired')
               /\ n \notin expired' => Advances(nodes[o][n], row[n])
    <3>1. CASE n \in S
      BY <1>2, <2>2, <3>1, NewNodeOK, ZenonT(60)
    <3>2. CASE n \notin S
      BY <1>2, <2>5, <3>2, SMTT(60) DEF RowOK
    <3> QED  BY <3>1, <3>2, SMTT(60)
  <2>7. row[o] = nodes[o][o]
    BY <2>3, SMTT(60)
  <2>8. row \in [Nodes -> NodeState]
    BY <2>6, SMTT(60)
  <2> HIDE DEF row
  <2>9. RowOK(row, nodes, expired', o)
    BY <2>6, <2>7, <2>8, SMTT(60) DEF RowOK
  <2> QED  BY <1>1, <1>3, <2>1, <2>2, <2>3, <2>9, SMTT(60)
<1> QED  BY <1>4, <1>5

\* The handlers of packets and of stream connections.
LEMMA HandlersOK ==
    ASSUME IInv, NEW m \in msgs,
           \/ HandleDigest(m)
           \/ HandleDelta(m)
           \/ HandleJoin(m)
           \/ HandleStream(m)
    PROVE  IInv' /\ ForwardStep
<1> DEFINE o == m.to
           q == m.from
<1>1. /\ nodes \in Views
      /\ NodesOK(nodes, expired)
      /\ leaving \in [Nodes -> SUBSET Nodes]
      /\ expired \subseteq Nodes
      /\ m \in Message
      /\ MessageOK(m, nodes, expired)
  BY SMTT(60) DEF IInv, TypeOK, Views
<1>2. /\ o \in Nodes /\ q \in Nodes
      /\ m.type \in {"digest", "join"} => m.digest \in SUBSET DigestEntry
      /\ m.type # "digest" => m.delta \in SUBSET DeltaEntries
  BY <1>1, MessageFields, SMTT(60)
<1>3. expired' = expired /\ leaving' = leaving
  BY ZenonT(60) DEF HandleDigest, HandleDelta, HandleJoin, HandleStream
<1>4. m.type # "digest" => \A x \in m.delta : SentOK(x, nodes, expired, o)
  BY <1>1, <1>2, SMTT(60) DEF MessageOK, SentOK
<1>5. RowOK(nodes[o], nodes, expired, o)
  BY <1>1, <1>2, SameRowOK, SMTT(60)
<1>6. ASSUME NEW row, RowOK(row, nodes, expired, o),
             SetRow(nodes', nodes, o, row)
      PROVE  /\ TypeOK
             /\ nodes' \in Views
             /\ NodesOK(nodes', expired)
             /\ nodes'[o] = row
             /\ \A p \in Nodes, n \in Nodes \ expired :
                   Advances(nodes[p][n], nodes'[p][n])
             /\ \A n \in Nodes : Evolves(nodes[n][n], nodes'[n][n])
             /\ \A x \in msgs : MessageOK(x, nodes, expired)
             /\ MessageOK(m, nodes', expired)
  BY <1>1, <1>2, <1>3, <1>6, RowOKStep, SMTT(60)
<1>7. ASSUME NEW row, RowOK(row, nodes, expired, o),
             SetRow(nodes', nodes, o, row),
             NEW out \in SUBSET Message,
             \A x \in out : MessageOK(x, nodes', expired),
             msgs' \subseteq msgs \cup out
      PROVE  IInv' /\ ForwardStep
  BY <1>1, <1>3, <1>6, <1>7, StepOK, SMTT(60)
<1>8. CASE HandleDigest(m)
  <2> DEFINE row == ApplyDigest(nodes[o], m.digest)
  <2>1. m.type = "digest" /\ SetRow(nodes', nodes, o, row)
    BY <1>8 DEF HandleDigest, SetRow
  <2>2. RowOK(row, nodes, expired, o)
    BY <1>1, <1>2, <1>5, ApplyDigestOK, SMTT(60)
  <2>3. PICK rest \in Packet(m),
             delta \in DeltaPackets(Delta(row, m.digest, FALSE)),
             d \in DigestPackets(row) :
           Transmit(rest,
              {x \in {DeltaMsg("delta", o, q, delta)} : delta # {}}
                \cup {x \in {DigestMsg(o, q, FALSE, d)} : m.request})
    BY <1>8, ZenonT(60) DEF HandleDigest
  <2> DEFINE out == {DeltaMsg("delta", o, q, delta),
                     DigestMsg(o, q, FALSE, d)}
  <2>4. msgs' \subseteq msgs \cup out
    BY <2>3, ZenonT(60) DEF Transmit, Packet
  <2> HIDE DEF row
  <2>5. /\ nodes' \in Views
        /\ NodesOK(nodes', expired)
        /\ nodes'[o] = row
        /\ MessageOK(m, nodes', expired)
    BY <1>6, <2>1, <2>2, ZenonT(60)
  <2>6. \A x \in m.digest :
           x.id \notin expired => x.version <= nodes'[q][x.id].version
    BY <2>1, <2>5, ZenonT(60) DEF MessageOK
  <2>7. m.digest \in SUBSET DigestEntry
    BY <1>2, <2>1, SMTT(60)
  <2> HIDE DEF o, q
  <2>8. \A x \in Delta(row, m.digest, FALSE) : SentOK(x, nodes', expired, q)
    BY <1>2, <2>5, <2>6, <2>7, DeltaSentOK, ZenonT(60)
  <2>9. \A x \in delta : SentOK(x, nodes', expired, q)
    BY <1>2, <2>3, <2>5, <2>8, PacketSentOK, ZenonT(60)
  <2>10. /\ DeltaMsg("delta", o, q, delta) \in Message
         /\ MessageOK(DeltaMsg("delta", o, q, delta), nodes', expired)
    BY <1>2, <2>5, <2>9, DeltaMsgOK, ZenonT(60)
  <2>11. /\ DigestMsg(o, q, FALSE, d) \in Message
         /\ MessageOK(DigestMsg(o, q, FALSE, d), nodes', expired)
    BY <1>2, <2>3, <2>5, DigestMsgOK, ZenonT(60)
  <2>12. /\ out \in SUBSET Message
         /\ \A x \in out : MessageOK(x, nodes', expired)
    BY <2>10, <2>11, ZenonT(60)
  <2> HIDE DEF out
  <2> QED  BY <1>7, <2>1, <2>2, <2>4, <2>12
<1>9. CASE HandleDelta(m) \/ HandleStream(m)
  <2> DEFINE row == ApplyDelta(nodes[o], o, m.delta)
  <2>1. /\ m.type # "digest"
        /\ SetRow(nodes', nodes, o, row)
        /\ msgs' \subseteq msgs \cup {}
    BY <1>9, SMTT(60) DEF HandleDelta, HandleStream, SetRow, Packet
  <2>2. RowOK(row, nodes, expired, o)
    BY <1>1, <1>2, <1>4, <1>5, <2>1, ApplyDeltaOK, ZenonT(60)
  <2>3. {} \in SUBSET Message /\ \A x \in {} : MessageOK(x, nodes', expired)
    OBVIOUS
  <2> HIDE DEF row
  <2> QED  BY <1>7, <2>1, <2>2, <2>3, ZenonT(60)
<1>10. CASE HandleJoin(m)
  <2> DEFINE mid == ApplyDelta(nodes[o], o, m.delta)
             row == ApplyDigest(mid, m.digest)
             delta == Delta(row, m.digest, TRUE)
             out == {DeltaMsg("joined", o, q, delta)}
  <2>1. /\ m.type = "join"
        /\ SetRow(nodes', nodes, o, row)
        /\ msgs' \subseteq msgs \cup out
    BY <1>10, ZenonT(60) DEF HandleJoin, SetRow, Transmit
  <2>2. RowOK(mid, nodes, expired, o)
    BY <1>1, <1>2, <1>4, <1>5, <2>1, ApplyDeltaOK, ZenonT(60)
  <2> HIDE DEF mid
  <2>3. RowOK(row, nodes, expired, o)
    BY <1>1, <1>2, <2>2, ApplyDigestOK, SMTT(60)
  <2> HIDE DEF row
  <2>4. /\ nodes' \in Views
        /\ NodesOK(nodes', expired)
        /\ nodes'[o] = row
        /\ MessageOK(m, nodes', expired)
    BY <1>6, <2>1, <2>3, SMTT(60)
  <2>5. \A x \in m.digest :
           x.id \notin expired => x.version <= nodes'[q][x.id].version
    BY <2>1, <2>4, SMTT(60) DEF MessageOK
  <2>6. m.digest \in SUBSET DigestEntry
    BY <1>2, <2>1, SMTT(60)
  <2> HIDE DEF o, q
  <2>7. \A x \in delta : SentOK(x, nodes', expired, q)
    BY <1>2, <2>4, <2>5, <2>6, DeltaSentOK, ZenonT(60)
  <2> HIDE DEF delta
  <2>8. /\ DeltaMsg("joined", o, q, delta) \in Message
        /\ MessageOK(DeltaMsg("joined", o, q, delta), nodes', expired)
    BY <1>2, <2>4, <2>7, DeltaMsgOK, ZenonT(60)
  <2>9. /\ out \in SUBSET Message
        /\ \A x \in out : MessageOK(x, nodes', expired)
    BY <2>8
  <2> HIDE DEF out
  <2> QED  BY <1>7, <2>1, <2>3, <2>9, SMTT(60)
<1> QED  BY <1>8, <1>9, <1>10, SMTT(60)

-----------------------------------------------------------------------------
(***************************************************************************)
(* The theorems.                                                           *)
(***************************************************************************)

\* Initially nothing is known of others and nothing is in flight.
LEMMA InitOK == Init => IInv
<1> SUFFICES ASSUME Init
             PROVE  IInv
  BY SMTT(60)
<1>1. NewNode \in NodeState /\ Unknown \in NodeState
  BY SMTT(60) DEF NewNode, Unknown, Blank, NodeState
<1>2. OwnerOK(NewNode)
  BY FS_EmptySet DEF OwnerOK, NewNode, Blank
<1>3. nodes \in Views
  BY <1>1 DEF Init, Views
<1>4. TypeOK
  BY <1>3 DEF Init, TypeOK, Views
<1>5. \A o, n \in Nodes : nodes[o][n] = IF n = o THEN NewNode ELSE Unknown
  BY DEF Init
<1>6. ASSUME NEW fresh \in BOOLEAN
      PROVE  StateOK(NewNode, NewNode, fresh) /\ StateOK(Unknown, NewNode, fresh)
  BY <1>1, <1>2, NewNodeOK, SMTT(60)
<1>7. NodesOK(nodes, expired)
  <2>1. \A n \in Nodes : OwnerOK(nodes[n][n])
    BY <1>2, <1>5
  <2>2. ASSUME NEW o \in Nodes, NEW n \in Nodes
        PROVE  StateOK(nodes[o][n], nodes[n][n], n \notin expired)
    <3>1. PICK fresh \in BOOLEAN : fresh = (n \notin expired)
      BY ZenonT(60)
    <3>2. StateOK(nodes[o][n], nodes[n][n], fresh)
      BY <1>5, <1>6
    <3> QED  BY <3>1, <3>2
  <2> QED  BY <2>1, <2>2, SMTT(60) DEF NodesOK
<1>8. \A m \in msgs : MessageOK(m, nodes, expired)
  BY DEF Init
<1> QED  BY <1>4, <1>7, <1>8 DEF IInv

\* Every step keeps the inductive invariant and moves views forward.
LEMMA NextOK == IInv /\ [Next]_vars => IInv' /\ [ForwardStep]_vars
<1> SUFFICES ASSUME IInv, [Next]_vars
             PROVE  IInv' /\ [ForwardStep]_vars
  OBVIOUS
<1>1. CASE Next
  <2>1. IInv' /\ ForwardStep
    <3>1. CASE \E n \in Detectors, S \in SUBSET Suspectable :
                  n \notin S /\ (Liveness(n, S) \/ RemoveExpired(n, S))
      <4>1. PICK n \in Detectors, S \in SUBSET Suspectable :
                   n \notin S /\ (Liveness(n, S) \/ RemoveExpired(n, S))
        BY <3>1
      <4>2. n \in Nodes /\ S \in SUBSET (Suspectable \ {n})
        BY <4>1, GossipAssumption
      <4> QED  BY <4>1, <4>2, DetectorsOK
    <3>2. CASE ~\E n \in Detectors, S \in SUBSET Suspectable :
                   n \notin S /\ (Liveness(n, S) \/ RemoveExpired(n, S))
      BY <1>1, <3>2, LocalActionsOK, SendersOK, HandlersOK, SMTT(60) DEF Next
    <3> QED  BY <3>1, <3>2
  <2> QED  BY <2>1, SMTT(60)
<1>2. CASE UNCHANGED vars
  <2>1. IInv'
    BY <1>2 DEF vars, IInv, TypeOK
  <2> QED  BY <1>2, <2>1, SMTT(60)
<1> QED  BY <1>1, <1>2

\* The inductive invariant holds of every behaviour of the protocol.
THEOREM Invariance == Spec => []IInv
<1>1. IInv /\ [Next]_vars => IInv'
  BY NextOK
<1> QED  BY InitOK, <1>1, PTL DEF Spec

\* Type correctness of the gossip state and of the messages.
THEOREM TypeCorrect == Spec => []TypeOK
<1>1. IInv => TypeOK
  BY SMTT(60) DEF IInv
<1> QED  BY Invariance, <1>1, PTL

\* A digest that reports version v of a node never hides an entry below v.
THEOREM NoGapHolds == Spec => []NoGap
<1>1. IInv => NoGap
  BY SMTT(60) DEF IInv, NodesOK, StateOK, ViewOK, NoGap
<1> QED  BY Invariance, <1>1, PTL

\* A node that has reached the owner's version has the owner's state.
THEOREM CaughtUpHolds == Spec => []CaughtUp
<1>1. IInv => CaughtUp
  <2> SUFFICES ASSUME IInv, NEW o \in Nodes, NEW n \in Nodes \ expired,
                      nodes[o][n].version = nodes[n][n].version
               PROVE  /\ nodes[o][n].entries = nodes[n][n].entries
                      /\ nodes[o][n].left = nodes[n][n].left
    BY DEF CaughtUp
  <2> DEFINE st == nodes[o][n]
             own == nodes[n][n]
  <2>1. st \in NodeState /\ own \in NodeState
    BY DEF IInv, TypeOK
  <2>2. OwnerOK(own) /\ StateOK(st, own, TRUE)
    BY ZenonT(60) DEF IInv, NodesOK
  <2>3. st.version = own.version
    BY SMTT(60)
  <2> HIDE DEF st, own
  <2>4. /\ own.version \in Nat
        /\ \A f \in own.entries : f.version \in Nat /\ f.version <= own.version
    BY <2>1, <2>2, SMTT(60) DEF OwnerOK, NodeState, Entry
  <2>5. ViewOK(own.version, st.entries, own)
    BY <2>2, <2>3, SMTT(60) DEF StateOK
  <2>6. own.entries \subseteq st.entries
    BY <2>4, <2>5, SMTT(60) DEF ViewOK
  <2>7. st.entries \subseteq own.entries
    BY <2>4, <2>5, SMTT(60) DEF ViewOK
  <2>8. own.left => st.left
    BY <2>2, <2>6, SMTT(60) DEF OwnerOK, StateOK
  <2>9. st.left = own.left
    BY <2>1, <2>2, <2>8, SMTT(60) DEF StateOK, NodeState
  <2> QED  BY <2>6, <2>7, <2>9, ZenonT(60) DEF st, own
<1> QED  BY Invariance, <1>1, PTL

\* No node is ahead of the owner, even after its state has expired.
THEOREM OwnerAheadHolds == Spec => []OwnerAhead
<1>1. IInv => OwnerAhead
  BY DEF IInv, NodesOK, StateOK, OwnerAhead
<1> QED  BY Invariance, <1>1, PTL

\* Versions and left move forward whatever order packets arrive in.
THEOREM ForwardHolds == Spec => Forward
<1>1. IInv /\ [Next]_vars => [ForwardStep]_vars
  BY NextOK
<1> QED  BY Invariance, <1>1, PTL DEF Spec, Forward

=============================================================================
