--------------------------- MODULE RoutingProofs ---------------------------
(***************************************************************************)
(* Proofs about Routing, for all keys, thresholds and bounds: the cluster  *)
(* state mirrors gossip (Placed, Mirrors, GaugeCounts) whatever deltas the *)
(* observer receives; the walk over a delta computes its closed form       *)
(* (WalkIsApply); and the routes follow the owner (AddedInTime, NoFlap).   *)
(***************************************************************************)
EXTENDS Routing, GossipStateProofs

Texts == Nat \cup {NoValue}

NodeType ==
    [status : Status \cup {""}, proxy : Texts, admin : Texts,
     endpoints : SUBSET (EndpointKeys \X Texts)]

SyncType ==
    [pending : SUBSET NodeType, cluster : SUBSET NodeType,
     gauge : [Status -> Int]]

(***************************************************************************)
(* The three places of the owner in the observer's maps, x being what the  *)
(* observer knows by gossip.                                               *)
(***************************************************************************)

Absent(s, x) ==
    /\ s.pending = {}
    /\ s.cluster = {}
    /\ x.known => x.left

IsPending(s, x, n) ==
    /\ s.pending = {n}
    /\ s.cluster = {}
    /\ x.known
    /\ ~x.left
    /\ n.endpoints = LiveEndpoints(x)
    /\ n.status \in {"", StatusOf(x)}
    /\ x.unreachable => n.status = "unreachable"
    /\ ~Complete(n)

IsAdded(s, x, n) ==
    /\ s.pending = {}
    /\ s.cluster = {n}
    /\ x.known
    /\ n.endpoints = LiveEndpoints(x)
    /\ n.status = StatusOf(x)
    /\ Complete(n)

InPlace(s, x) ==
    \/ Absent(s, x)
    \/ \E n \in NodeType : IsPending(s, x, n)
    \/ \E n \in NodeType : IsAdded(s, x, n)

\* The local node, which is active.
One(y) == IF y = "active" THEN 1 ELSE 0

Counted(s) ==
    \A y \in Status : s.gauge[y] = WithStatus(s.cluster, y) + One(y)

Sound(s, x) == s \in SyncType /\ Counted(s) /\ InPlace(s, x)

\* A map has one entry for a key.
OneEach(x) == \A e, f \in x.entries : e.key = f.key => e = f

TypeInv ==
    /\ own \in NodeState
    /\ OwnerOK(own)
    /\ relay \in NodeState
    /\ st \in NodeState
    /\ OneEach(st)
    /\ delta \in SUBSET Entry
    /\ todo \in SUBSET Entry

(***************************************************************************)
(* The inductive invariant.  Placed and Mirrors alone are not inductive:   *)
(* what a compaction takes from the routes and from gossip agrees only if  *)
(* gossip has one entry for a key, and a pending node without a status can *)
(* be added as active only because it is not there once the node has left. *)
(***************************************************************************)
IInv == TypeInv /\ Sound(sync, st)

-----------------------------------------------------------------------------
(***************************************************************************)
(* Counting.                                                               *)
(***************************************************************************)

\* The keys of addresses, of endpoints and of gossip itself differ.
LEMMA Keyed ==
    /\ leftKey \notin Keys
    /\ compactKey \notin Keys
    /\ leftKey # compactKey
    /\ proxyKey # adminKey
    /\ Immutable = {proxyKey, adminKey}
    /\ Immutable \subseteq Keys
    /\ EndpointKeys = Keys \ Immutable
  BY StateAssumption, RoutingAssumption
     DEF leftKey, compactKey, proxyKey, adminKey, Immutable, EndpointKeys

LEMMA OneInt == \A y : One(y) \in Int
  BY DEF One

\* No node or one node has a finite number of nodes with a status.
LEMMA WithStatusNat ==
    ASSUME NEW S, NEW n, S = {} \/ S = {n}, NEW y
    PROVE  WithStatus(S, y) \in Nat
<1>1. IsFiniteSet(S)
  BY FS_EmptySet, FS_Singleton
<1>2. IsFiniteSet({m \in S : m.status = y})
  BY <1>1, FS_Subset
<1> QED  BY <1>2, FS_CardinalityType DEF WithStatus

LEMMA WithStatusNone == \A y : WithStatus({}, y) = 0
<1> TAKE y
<1>1. {m \in {} : m.status = y} = {}
  OBVIOUS
<1> QED  BY <1>1, FS_EmptySet DEF WithStatus

\* SetCluster keeps the metric right.
LEMMA SetClusterCounted ==
    ASSUME NEW s \in SyncType, Counted(s), NEW S \in SUBSET NodeType,
           NEW m, s.cluster = {} \/ s.cluster = {m},
           NEW n, S = {} \/ S = {n}
    PROVE  /\ SetCluster(s, S) \in SyncType
           /\ SetCluster(s, S).pending = s.pending
           /\ SetCluster(s, S).cluster = S
           /\ Counted(SetCluster(s, S))
<1> DEFINE t == SetCluster(s, S)
           g == [y \in Status |->
                    s.gauge[y] - WithStatus(s.cluster, y) + WithStatus(S, y)]
<1>1. \A y : WithStatus(s.cluster, y) \in Nat /\ WithStatus(S, y) \in Nat
  BY WithStatusNat, Zenon
<1>2. \A y \in Status : s.gauge[y] \in Int
  BY DEF SyncType
<1>3. g \in [Status -> Int]
  BY <1>1, <1>2
<1>4. \A y \in Status : g[y] = WithStatus(S, y) + One(y)
  BY <1>1, <1>2, OneInt DEF Counted
<1>5. t = [s EXCEPT !.cluster = S, !.gauge = g]
  BY DEF SetCluster
<1> HIDE DEF t, g
<1>6. t \in SyncType /\ t.pending = s.pending /\ t.cluster = S /\ t.gauge = g
  BY <1>3, <1>5, Zenon DEF SyncType
<1> QED  BY <1>4, <1>6 DEF Counted, t

\* So does AddNode, as long as the cluster does not have the node.
LEMMA AddNodeCounted ==
    ASSUME NEW s \in SyncType, Counted(s), s.cluster = {}, NEW n \in NodeType
    PROVE  /\ AddNode(s, n) \in SyncType
           /\ AddNode(s, n).pending = s.pending
           /\ AddNode(s, n).cluster = {n}
           /\ Counted(AddNode(s, n))
<1> DEFINE t == AddNode(s, n)
           g == [y \in Status |-> s.gauge[y] + WithStatus({n}, y)]
<1>1. \A y : WithStatus({n}, y) \in Nat /\ WithStatus({}, y) = 0
  BY WithStatusNat, WithStatusNone
<1>2. \A y \in Status : s.gauge[y] \in Int
  BY DEF SyncType
<1>3. g \in [Status -> Int]
  BY <1>1, <1>2
<1>4. \A y \in Status : g[y] = WithStatus({n}, y) + One(y)
  <2> TAKE y \in Status
  <2>1. s.gauge[y] = 0 + One(y)
    BY <1>1, Zenon DEF Counted
  <2> QED  BY <1>1, <2>1, OneInt
<1>5. t = [s EXCEPT !.cluster = {n}, !.gauge = g]
  BY DEF AddNode
<1> HIDE DEF t, g
<1>6. t \in SyncType /\ t.pending = s.pending /\ t.cluster = {n} /\ t.gauge = g
  BY <1>3, <1>5, Zenon DEF SyncType
<1> QED  BY <1>4, <1>6 DEF Counted, t

\* Replacing the pending node leaves the metric alone.
LEMMA SetPending ==
    ASSUME NEW s \in SyncType, Counted(s), NEW S \in SUBSET NodeType
    PROVE  LET t == [s EXCEPT !.pending = S]
           IN  /\ t \in SyncType
               /\ t.pending = S
               /\ t.cluster = s.cluster
               /\ Counted(t)
  BY DEF SyncType, Counted

-----------------------------------------------------------------------------
(***************************************************************************)
(* What an entry does to the endpoints of the gossip state.                *)
(***************************************************************************)

\* A live endpoint is an entry that is not a tombstone.
LEMMA LiveMember ==
    \A x, p : p \in LiveEndpoints(x) <=>
        \E y \in x.entries :
            y.key \in EndpointKeys /\ ~y.deleted /\ p = <<y.key, y.value>>
  BY DEF LiveEndpoints

\* The live endpoints are pairs of a key and a value.
LEMMA LiveType ==
    \A x \in NodeState : LiveEndpoints(x) \in SUBSET (EndpointKeys \X Texts)
<1> SUFFICES ASSUME NEW x \in NodeState, NEW p \in LiveEndpoints(x)
             PROVE  p \in EndpointKeys \X Texts
  OBVIOUS
<1>1. PICK y \in x.entries : y.key \in EndpointKeys /\ p = <<y.key, y.value>>
  BY LiveMember
<1>2. y.value \in Texts
  BY DEF NodeState, Entry, Texts
<1> QED  BY <1>1, <1>2

\* The fields of the state after an entry that is not discarded.
LEMMA ApplyEntryFields ==
    ASSUME NEW old \in NodeState, NEW e \in Entry, ~(e.version <= old.version)
    PROVE  LET new == ApplyEntry(old, e)
           IN  /\ new \in NodeState
               /\ new.known = old.known
               /\ new.unreachable = old.unreachable
               /\ new.entries = {x \in WithEntry(old.entries, e) :
                                   e.key = compactKey => x.version > e.value}
               /\ new.left <=> old.left \/ e.key = leftKey
               /\ new.expiry <=> old.expiry \/ e.key = leftKey
               /\ new.version = e.version
<1> DEFINE E == {x \in WithEntry(old.entries, e) :
                   e.key = compactKey => x.version > e.value}
           new == ApplyEntry(old, e)
<1>1. E \in SUBSET Entry
  BY DEF WithEntry, NodeState
<1>2. e.version \in Nat
  BY DEF Entry
<1>3. PICK l \in BOOLEAN, y \in BOOLEAN :
          l = (old.left \/ e.key = leftKey) /\ y = (old.expiry \/ e.key = leftKey)
  BY Zenon
<1>4. new = [old EXCEPT !.version = e.version, !.entries = E, !.left = l, !.expiry = y]
  BY <1>3 DEF ApplyEntry
<1> HIDE DEF E, new
<1>5. /\ new \in NodeState
      /\ new.known = old.known
      /\ new.unreachable = old.unreachable
      /\ new.entries = E
      /\ new.left = l
      /\ new.expiry = y
      /\ new.version = e.version
  BY <1>1, <1>2, <1>4, ZenonT(60) DEF NodeState
<1> QED  BY <1>3, <1>5, Zenon DEF E, new

\* An entry replaces the one with its key.
LEMMA ApplyEntryOneEach ==
    ASSUME NEW old \in NodeState, OneEach(old), NEW e \in Entry
    PROVE  ApplyEntry(old, e) \in NodeState /\ OneEach(ApplyEntry(old, e))
<1>1. CASE e.version <= old.version
  BY <1>1 DEF ApplyEntry
<1>2. CASE ~(e.version <= old.version)
  BY <1>2, ApplyEntryFields DEF OneEach, WithEntry
<1> QED  BY <1>1, <1>2

\* An entry for no endpoint leaves them as they are, unless it compacts.
LEMMA OtherEntryLive ==
    ASSUME NEW old \in NodeState, NEW e \in Entry, ~(e.version <= old.version),
           e.key \notin EndpointKeys, e.key # compactKey
    PROVE  LiveEndpoints(ApplyEntry(old, e)) = LiveEndpoints(old)
<1> DEFINE new == ApplyEntry(old, e)
<1>1. new.entries = {x \in old.entries : x.key # e.key} \cup {e}
  BY ApplyEntryFields DEF WithEntry
<1> HIDE DEF new
<1>2. \A p : p \in LiveEndpoints(new) <=> p \in LiveEndpoints(old)
  BY <1>1, LiveMember
<1> QED  BY <1>2, LiveType, Zenon DEF new, LiveEndpoints

\* An entry for an endpoint replaces its route, ...
LEMMA UpsertLive ==
    ASSUME NEW old \in NodeState, NEW e \in Entry, ~(e.version <= old.version),
           e.key \in EndpointKeys, ~e.deleted
    PROVE  LiveEndpoints(ApplyEntry(old, e)) =
             {p \in LiveEndpoints(old) : p[1] # e.key} \cup {<<e.key, e.value>>}
<1> DEFINE new == ApplyEntry(old, e)
<1>1. new.entries = {x \in old.entries : x.key # e.key} \cup {e}
  BY ApplyEntryFields, Keyed DEF WithEntry
<1> HIDE DEF new
<1>2. \A p : p \in LiveEndpoints(new) <=>
              p \in {q \in LiveEndpoints(old) : q[1] # e.key} \cup {<<e.key, e.value>>}
  BY <1>1, LiveMember
<1> QED  BY <1>2 DEF new, LiveEndpoints

\* ... and a tombstone takes it away.
LEMMA DeleteLive ==
    ASSUME NEW old \in NodeState, NEW e \in Entry, ~(e.version <= old.version),
           e.key \in Keys, e.deleted
    PROVE  LiveEndpoints(ApplyEntry(old, e)) =
             {p \in LiveEndpoints(old) : p[1] \notin {e.key} \cap EndpointKeys}
<1> DEFINE new == ApplyEntry(old, e)
<1>1. new.entries = {x \in old.entries : x.key # e.key} \cup {e}
  BY ApplyEntryFields, Keyed DEF WithEntry
<1> HIDE DEF new
<1>2. \A p : p \in LiveEndpoints(new) <=>
              p \in {q \in LiveEndpoints(old) : q[1] \notin {e.key} \cap EndpointKeys}
  BY <1>1, LiveMember
<1> QED  BY <1>2 DEF new, LiveEndpoints

\* A compaction discards the endpoints it reports to the watcher, no others.
LEMMA CompactLive ==
    ASSUME NEW old \in NodeState, OneEach(old), NEW e \in Entry,
           ~(e.version <= old.version), e.key = compactKey
    PROVE  LiveEndpoints(ApplyEntry(old, e)) =
             {p \in LiveEndpoints(old) :
                p[1] \notin CompactedKeys(old, e) \cap EndpointKeys}
<1> DEFINE new == ApplyEntry(old, e)
           K == CompactedKeys(old, e)
           W == WithEntry(old.entries, e)
<1>1. new.entries = {x \in W : x.version > e.value}
  BY ApplyEntryFields
<1>2. \A k : k \in K <=> \E y \in W : y.version <= e.value /\ ~y.deleted /\ k = y.key
  BY DEF CompactedKeys
<1>3. \A x : x.key \in EndpointKeys => (x \in W <=> x \in old.entries)
  BY Keyed DEF WithEntry
<1>4. \A x, y \in W : x.key = y.key => x = y
  BY DEF WithEntry, OneEach
<1>5. \A x \in W : x.version \in Nat /\ e.value \in Int
  BY DEF WithEntry, NodeState, Entry, NoValue
<1> HIDE DEF new, K, W
<1>6. \A x \in W : x.version > e.value <=> ~(x.version <= e.value)
  BY <1>5
<1>7. ASSUME NEW p, p \in LiveEndpoints(new)
      PROVE  p \in LiveEndpoints(old) /\ p[1] \notin K
  <2>1. PICK y \in new.entries :
            y.key \in EndpointKeys /\ ~y.deleted /\ p = <<y.key, y.value>>
    BY <1>7, LiveMember
  <2>2. y \in W /\ y \in old.entries /\ ~(y.version <= e.value)
    BY <1>1, <1>3, <1>6, <2>1
  <2>3. y.key \notin K
    BY <1>2, <1>4, <2>2
  <2>4. p[1] = y.key
    BY <2>1
  <2> QED  BY <2>1, <2>2, <2>3, <2>4, LiveMember
<1>8. ASSUME NEW p, p \in LiveEndpoints(old), p[1] \notin K \cap EndpointKeys
      PROVE  p \in LiveEndpoints(new)
  <2>1. PICK y \in old.entries :
            y.key \in EndpointKeys /\ ~y.deleted /\ p = <<y.key, y.value>>
    BY <1>8, LiveMember
  <2>2. y \in W /\ y.key \notin K
    BY <1>3, <1>8, <2>1
  <2>3. y \in new.entries
    BY <1>1, <1>2, <1>6, <2>1, <2>2
  <2> QED  BY <2>1, <2>3, LiveMember
<1>9. \A p : p \in LiveEndpoints(new) <=>
              p \in {q \in LiveEndpoints(old) : q[1] \notin K \cap EndpointKeys}
  BY <1>7, <1>8
<1> QED  BY <1>9 DEF new, K, LiveEndpoints

-----------------------------------------------------------------------------
(***************************************************************************)
(* The walk over the entries of a delta, and its closed form.              *)
(***************************************************************************)

\* A slice sorted by version: no key and no version twice.
Slice(S) == \A e, f \in S : e.key = f.key \/ e.version = f.version => e = f

\* Merging the first entry and then the others is merging them all.
LEMMA MergeStep ==
    ASSUME NEW E \in SUBSET Entry, NEW S \in SUBSET Entry, Slice(S), NEW e \in S,
           \A x \in S : e.version <= x.version,
           \A c \in S : c.key = compactKey => c.value < c.version
    PROVE  Merge({x \in WithEntry(E, e) : e.key = compactKey => x.version > e.value},
                 S \ {e}) = Merge(E, S)
<1> DEFINE F == {x \in WithEntry(E, e) : e.key = compactKey => x.version > e.value}
           B == S \ {e}
<1>1. \A x \in Entry : x.version \in Nat /\ x.value \in Int
  BY DEF Entry, NoValue
<1>2. \A x \in Entry : Compacted(x, S) <=>
          Compacted(x, B) \/ (e.key = compactKey /\ ~(x.version > e.value))
  <2>1. \A x \in Entry : x.version <= e.value <=> ~(x.version > e.value)
    BY <1>1
  <2> QED  BY <2>1 DEF Compacted
<1>3. \A b \in B : b.key # e.key /\ (e.key = compactKey => b.version > e.value)
  BY <1>1 DEF Slice
<1>4. F \subseteq Entry
  BY DEF WithEntry
<1>5. ASSUME NEW x \in Entry
      PROVE  x \in Merge(F, B) <=> x \in Merge(E, S)
  <2>1. x \in F <=> /\ x = e \/ (x \in E /\ x.key # e.key)
                    /\ e.key = compactKey => x.version > e.value
    BY DEF WithEntry
  <2> HIDE DEF F
  <2>2. CASE x \in S
    BY <1>2, <1>3, <2>1, <2>2 DEF Merge, Slice
  <2>3. CASE x \notin S
    BY <1>2, <1>3, <2>1, <2>3, Zenon DEF Merge
  <2> QED  BY <2>2, <2>3
<1>6. Merge(F, B) \subseteq Entry /\ Merge(E, S) \subseteq Entry
  BY <1>4 DEF Merge
<1> QED  BY <1>5, <1>6, Zenon

LEMMA SameRecord ==
    ASSUME NEW x \in NodeState, NEW y \in NodeState,
           x.known = y.known, x.version = y.version, x.entries = y.entries,
           x.left <=> y.left, x.unreachable = y.unreachable,
           x.expiry <=> y.expiry
    PROVE  x = y
<1>1. x.left = y.left /\ x.expiry = y.expiry
  BY Zenon DEF NodeState
<1> QED  BY <1>1 DEF NodeState

\* The version the closed form reaches does not depend on the first entry, if
\* there are others.
LEMMA TopStep ==
    ASSUME NEW S \in SUBSET Entry, NEW w \in Nat, \A x \in S : x.version <= w,
           NEW e \in S, \A x \in S : e.version <= x.version, S \ {e} # {}
    PROVE  Max({x.version : x \in S \ {e}}) = Max({x.version : x \in S})
<1> DEFINE V == {x.version : x \in S}
           U == {x.version : x \in S \ {e}}
           v == Max(V)
           u == Max(U)
<1>1. /\ V \subseteq Nat /\ \A y \in V : y <= w
      /\ U \subseteq V
      /\ e.version \in V
  BY DEF Entry
<1>2. PICK b \in S : b # e
  OBVIOUS
<1>3. b.version \in U
  BY <1>2
<1>4. \A y \in V : e.version <= y /\ (y \in U \/ y = e.version)
  OBVIOUS
<1> HIDE DEF V, U
<1>5. v \in V /\ \A y \in V : y <= v
  BY <1>1, MaxOfBounded, ZenonT(60)
<1>6. u \in U /\ \A y \in U : y <= u
  BY <1>1, <1>3, MaxOfBounded, ZenonT(60)
<1>7. u \in Nat /\ v \in Nat /\ u <= v /\ v <= u
  BY <1>1, <1>4, <1>5, <1>6, Zenon
<1>8. u = v
  BY <1>7
<1> QED  BY <1>8 DEF U, V

LEMMA TopOne ==
    ASSUME NEW e \in Entry
    PROVE  Max({x.version : x \in {e}}) = e.version
<1>1. {x.version : x \in {e}} = {e.version} /\ e.version \in Nat
  BY DEF Entry
<1> QED  BY <1>1, MaxOfBounded

\* One iteration of applyDeltaEntry and the closed form for the entries after
\* it make the closed form for all of them.
LEMMA WalkStep ==
    ASSUME NEW old \in NodeState, NEW S \in SUBSET Entry, Slice(S),
           NEW w \in Nat, \A x \in S : x.version <= w,
           \A c \in S : c.key = compactKey => c.value < c.version,
           NEW e \in S, \A x \in S : e.version <= x.version
    PROVE  Apply(ApplyEntry(old, e), S \ {e}) = Apply(old, S)
<1> DEFINE new == ApplyEntry(old, e)
           B == S \ {e}
           l == Apply(new, B)
           r == Apply(old, S)
<1>0. old.version \in Nat /\ \A x \in S : x.version \in Nat
  BY DEF NodeState, Entry
<1>1. CASE e.version <= old.version
  <2>1. new = old
    BY <1>1 DEF ApplyEntry
  <2>2. Accepted(old, B) = Accepted(old, S)
    BY <1>0, <1>1 DEF Accepted
  <2> QED  BY <2>1, <2>2, Zenon DEF Apply
<1>2. CASE ~(e.version <= old.version)
  <2>1. /\ new \in NodeState
        /\ new.known = old.known
        /\ new.unreachable = old.unreachable
        /\ new.entries = {x \in WithEntry(old.entries, e) :
                            e.key = compactKey => x.version > e.value}
        /\ new.left <=> old.left \/ e.key = leftKey
        /\ new.expiry <=> old.expiry \/ e.key = leftKey
        /\ new.version = e.version
    BY <1>2, ApplyEntryFields
  <2>2. Accepted(old, S) = S
    BY <1>0, <1>2 DEF Accepted
  <2>3. /\ r \in NodeState
        /\ r.known = old.known
        /\ r.version = Max({x.version : x \in S})
        /\ r.entries = Merge(old.entries, S)
        /\ r.left <=> old.left \/ \E x \in S : x.key = leftKey
        /\ r.unreachable = old.unreachable
        /\ r.expiry <=> old.expiry \/ \E x \in S : x.key = leftKey
    BY <2>2, ApplyFields, ZenonT(60)
  <2>4. Merge(new.entries, B) = Merge(old.entries, S)
    BY <2>1, MergeStep DEF NodeState
  <2>5. CASE B = {}
    <3>1. S = {e}
      BY <2>5
    <3>2. l = new
      BY <2>5 DEF Apply, Accepted
    <3>3. Merge(new.entries, B) = new.entries
      BY <2>5 DEF Merge, Compacted
    <3>4. r.version = e.version
      BY <2>3, <3>1, TopOne
    <3> HIDE DEF new, l, r, B
    <3>5. new = r
      BY <2>1, <2>3, <2>4, <3>1, <3>3, <3>4, SameRecord, Zenon
    <3> QED  BY <3>2, <3>5 DEF new, l, r, B
  <2>6. CASE B # {}
    <3>1. Accepted(new, B) = B
      BY <1>0, <2>1 DEF Accepted, Slice
    <3>2. /\ B \in SUBSET Entry
          /\ \A x \in B : x.version <= w
          /\ Accepted(new, B) # {}
      BY <2>6, <3>1
    <3> HIDE DEF new, B, r
    <3>3. /\ l \in NodeState
          /\ l.known = new.known
          /\ l.version = Max({x.version : x \in B})
          /\ l.entries = Merge(new.entries, B)
          /\ l.left <=> new.left \/ \E x \in B : x.key = leftKey
          /\ l.unreachable = new.unreachable
          /\ l.expiry <=> new.expiry \/ \E x \in B : x.key = leftKey
      <4> HIDE DEF l
      <4>1. LET A == Accepted(new, B)
            IN  /\ l \in NodeState
                /\ l.known = new.known
                /\ l.version = Max({x.version : x \in A})
                /\ l.entries = Merge(new.entries, A)
                /\ l.left = (new.left \/ \E x \in A : x.key = leftKey)
                /\ l.unreachable = new.unreachable
                /\ l.expiry = (new.expiry \/ \E x \in A : x.key = leftKey)
        BY <2>1, <3>2, ApplyFields, ZenonT(60) DEF l
      <4> QED  BY <3>1, <4>1, Zenon
    <3>4. l.version = r.version
      BY <2>3, <2>6, <3>3, TopStep, Zenon DEF B
    <3>5. (\E x \in S : x.key = leftKey) <=>
             e.key = leftKey \/ \E x \in B : x.key = leftKey
      BY DEF B
    <3> HIDE DEF l
    <3>6. l = r
      BY <2>1, <2>3, <2>4, <3>3, <3>4, <3>5, SameRecord
    <3> QED  BY <3>6 DEF l, r, B, new
  <2> QED  BY <2>5, <2>6
<1> QED  BY <1>1, <1>2

\* One iteration of applyDeltaEntry is the closed form for one entry.
LEMMA ApplyOne ==
    ASSUME NEW old \in NodeState, NEW e \in Entry,
           e.key = compactKey => e.value < e.version
    PROVE  ApplyEntry(old, e) = Apply(old, {e})
<1> DEFINE new == ApplyEntry(old, e)
<1>1. e.version \in Nat /\ e.version <= e.version
  BY DEF Entry
<1>2. Apply(new, {e} \ {e}) = Apply(old, {e})
  BY <1>1, WalkStep DEF Slice
<1>3. Accepted(new, {e} \ {e}) = {}
  BY DEF Accepted
<1> QED  BY <1>2, <1>3 DEF Apply

-----------------------------------------------------------------------------
(***************************************************************************)
(* The changes the callbacks make to a node and to the maps.               *)
(***************************************************************************)

LEMMA NodeStatus ==
    ASSUME NEW n \in NodeType, NEW z \in Status
    PROVE  LET m == [n EXCEPT !.status = z]
           IN  /\ m \in NodeType
               /\ m.status = z
               /\ m.endpoints = n.endpoints
               /\ Complete(m) <=> Complete(n)
  BY Zenon DEF NodeType, Complete

LEMMA NodeEndpoint ==
    ASSUME NEW n \in NodeType, NEW k \in EndpointKeys, NEW v \in Texts
    PROVE  LET m == WithEndpoint(n, k, v)
           IN  /\ m \in NodeType
               /\ m.status = n.status
               /\ m.endpoints = {p \in n.endpoints : p[1] # k} \cup {<<k, v>>}
               /\ Complete(m) <=> Complete(n)
<1> DEFINE D == {p \in n.endpoints : p[1] # k} \cup {<<k, v>>}
           m == WithEndpoint(n, k, v)
<1>1. D \in SUBSET (EndpointKeys \X Texts)
  <2>1. n.endpoints \in SUBSET (EndpointKeys \X Texts)
    BY Zenon DEF NodeType
  <2>2. <<k, v>> \in EndpointKeys \X Texts
    OBVIOUS
  <2> QED  BY <2>1, <2>2
<1>2. m = [n EXCEPT !.endpoints = D]
  BY DEF WithEndpoint
<1> HIDE DEF D, m
<1>3. /\ m \in NodeType
      /\ m.status = n.status
      /\ m.endpoints = D
      /\ m.proxy = n.proxy
      /\ m.admin = n.admin
  BY <1>1, <1>2, Zenon DEF NodeType
<1> QED  BY <1>3 DEF Complete, D, m

LEMMA NodeWithout ==
    ASSUME NEW n \in NodeType, NEW K
    PROVE  LET m == WithoutEndpoints(n, K)
           IN  /\ m \in NodeType
               /\ m.status = n.status
               /\ m.endpoints = {p \in n.endpoints : p[1] \notin K}
               /\ Complete(m) <=> Complete(n)
  BY Zenon DEF NodeType, Complete, WithoutEndpoints

LEMMA NodeKey ==
    ASSUME NEW n \in NodeType, NEW k \in Keys, NEW v \in Texts
    PROVE  LET m == WithKey(n, k, v)
           IN  /\ m \in NodeType
               /\ m.status = n.status
               /\ m.endpoints =
                     IF k \in EndpointKeys
                     THEN {p \in n.endpoints : p[1] # k} \cup {<<k, v>>}
                     ELSE n.endpoints
<1>1. CASE k = proxyKey
  BY <1>1, Keyed, Zenon DEF WithKey, NodeType
<1>2. CASE k = adminKey
  BY <1>2, Keyed, Zenon DEF WithKey, NodeType
<1>3. CASE k # proxyKey /\ k # adminKey
  <2>1. WithKey(n, k, v) = WithEndpoint(n, k, v) /\ k \in EndpointKeys
    BY <1>3, Keyed DEF WithKey
  <2> QED  BY <2>1, NodeEndpoint
<1> QED  BY <1>1, <1>2, <1>3

LEMMA NodeActivated ==
    ASSUME NEW n \in NodeType
    PROVE  LET m == Activated(n)
           IN  /\ m \in NodeType
               /\ m.status = IF n.status = "" THEN "active" ELSE n.status
               /\ m.endpoints = n.endpoints
               /\ Complete(m) <=> Complete(n)
  BY Zenon DEF NodeType, Complete, Activated, Status

\* A node of the same status counts the same.
LEMMA SameStatus ==
    ASSUME NEW m, NEW n, m.status = n.status
    PROVE  \A y : WithStatus({m}, y) = WithStatus({n}, y)
<1> TAKE y
<1>1. CASE m.status = y
  <2>1. {x \in {m} : x.status = y} = {m} /\ {x \in {n} : x.status = y} = {n}
    BY <1>1, Zenon
  <2> QED  BY <2>1, FS_Singleton DEF WithStatus
<1>2. CASE m.status # y
  <2>1. {x \in {m} : x.status = y} = {} /\ {x \in {n} : x.status = y} = {}
    BY <1>2
  <2> QED  BY <2>1 DEF WithStatus
<1> QED  BY <1>1, <1>2

LEMMA SetClusterSame ==
    ASSUME NEW s \in SyncType, Counted(s), NEW m, s.cluster = {m},
           NEW n \in NodeType, n.status = m.status
    PROVE  LET t == [s EXCEPT !.cluster = {n}]
           IN  /\ t \in SyncType
               /\ t.pending = s.pending
               /\ t.cluster = {n}
               /\ Counted(t)
<1> DEFINE t == [s EXCEPT !.cluster = {n}]
<1>1. t \in SyncType /\ t.pending = s.pending /\ t.cluster = {n} /\ t.gauge = s.gauge
  BY DEF SyncType
<1>2. \A y : WithStatus({n}, y) = WithStatus({m}, y)
  BY SameStatus
<1> HIDE DEF t
<1>3. Counted(t)
  BY <1>1, <1>2 DEF Counted
<1> QED  BY <1>1, <1>3 DEF t

-----------------------------------------------------------------------------
(***************************************************************************)
(* The callbacks keep the node in place.                                   *)
(***************************************************************************)

\* What OnDeleteKey does to the one node there may be.
LEMMA OnDeleteKeySound ==
    ASSUME NEW s, NEW x, NEW y, Sound(s, x), NEW K,
           y.known = x.known, y.left = x.left, y.unreachable = x.unreachable,
           LiveEndpoints(y) =
             {p \in LiveEndpoints(x) : p[1] \notin K \cap EndpointKeys}
    PROVE  Sound(OnDeleteKey(s, K), y)
<1> DEFINE D == K \cap EndpointKeys
           t == OnDeleteKey(s, K)
<1>0. s \in SyncType /\ Counted(s) /\ InPlace(s, x) /\ StatusOf(y) = StatusOf(x)
  BY DEF Sound, StatusOf
<1>1. CASE Absent(s, x)
  <2>1. t = [s EXCEPT !.pending = {}]
    BY <1>1 DEF Absent, OnDeleteKey
  <2> HIDE DEF t
  <2>2. t \in SyncType /\ Counted(t) /\ t.pending = {} /\ t.cluster = {}
    BY <1>0, <1>1, <2>1, SetPending DEF Absent
  <2> QED  BY <1>1, <2>2 DEF Absent, Sound, InPlace, t
<1>2. ASSUME NEW n \in NodeType, IsPending(s, x, n)
      PROVE  Sound(t, y)
  <2> DEFINE m == WithoutEndpoints(n, D)
  <2>1. t = [s EXCEPT !.pending = {m}]
    BY <1>2, Zenon DEF IsPending, OnDeleteKey
  <2>2. /\ m \in NodeType
        /\ m.status = n.status
        /\ m.endpoints = {p \in n.endpoints : p[1] \notin D}
        /\ Complete(m) <=> Complete(n)
    BY NodeWithout
  <2> HIDE DEF t, m
  <2>3. t \in SyncType /\ Counted(t) /\ t.pending = {m} /\ t.cluster = {}
    BY <1>0, <1>2, <2>1, <2>2, SetPending, Zenon DEF IsPending
  <2>4. IsPending(t, y, m)
    BY <1>0, <1>2, <2>2, <2>3, Zenon DEF IsPending
  <2> QED  BY <2>2, <2>3, <2>4 DEF Sound, InPlace
<1>3. ASSUME NEW n \in NodeType, IsAdded(s, x, n)
      PROVE  Sound(t, y)
  <2> DEFINE m == WithoutEndpoints(n, D)
  <2>1. t = [s EXCEPT !.cluster = {m}]
    BY <1>3, Zenon DEF IsAdded, OnDeleteKey, RemoveRemoteEndpoint
  <2>2. /\ m \in NodeType
        /\ m.status = n.status
        /\ m.endpoints = {p \in n.endpoints : p[1] \notin D}
        /\ Complete(m) <=> Complete(n)
    BY NodeWithout
  <2> HIDE DEF t, m
  <2>3. t \in SyncType /\ Counted(t) /\ t.pending = {} /\ t.cluster = {m}
    BY <1>0, <1>3, <2>1, <2>2, SetClusterSame DEF IsAdded
  <2>4. IsAdded(t, y, m)
    BY <1>0, <1>3, <2>2, <2>3 DEF IsAdded
  <2> QED  BY <2>2, <2>3, <2>4 DEF Sound, InPlace
<1> QED  BY <1>0, <1>1, <1>2, <1>3 DEF InPlace

\* What OnUpsertKey does: it may complete the pending node.
LEMMA OnUpsertKeySound ==
    ASSUME NEW s, NEW x, NEW y, Sound(s, x), NEW k \in Keys, NEW v \in Texts,
           y.known = x.known, y.left = x.left, y.unreachable = x.unreachable,
           LiveEndpoints(y) =
             IF k \in EndpointKeys
             THEN {p \in LiveEndpoints(x) : p[1] # k} \cup {<<k, v>>}
             ELSE LiveEndpoints(x)
    PROVE  Sound(OnUpsertKey(s, k, v), y)
<1> DEFINE t == OnUpsertKey(s, k, v)
<1>0. s \in SyncType /\ Counted(s) /\ InPlace(s, x) /\ StatusOf(y) = StatusOf(x)
  BY DEF Sound, StatusOf
<1>1. CASE Absent(s, x)
  <2>1. t = s /\ Absent(s, y)
    BY <1>1 DEF Absent, OnUpsertKey
  <2> QED  BY <1>0, <2>1 DEF Sound, InPlace
<1>2. ASSUME NEW n \in NodeType, IsPending(s, x, n)
      PROVE  Sound(t, y)
  <2> DEFINE m == WithKey(n, k, v)
             a == Activated(m)
             u == [s EXCEPT !.pending = {}]
  <2>1. (CHOOSE z \in {n} : TRUE) = n
    OBVIOUS
  <2>2. t = UpsertPending(s, m)
    BY <1>2, <2>1, Zenon DEF IsPending, OnUpsertKey
  <2>3. /\ m \in NodeType
        /\ m.status = n.status
        /\ m.endpoints = LiveEndpoints(y)
    BY <1>2, NodeKey, Zenon DEF IsPending
  <2> HIDE DEF t, m
  <2>4. CASE Complete(m)
    <3>1. t = AddNode(u, a)
      BY <2>2, <2>4 DEF UpsertPending
    <3>2. u \in SyncType /\ Counted(u) /\ u.pending = {} /\ u.cluster = {}
      BY <1>0, <1>2, SetPending, Zenon DEF IsPending
    <3>3. /\ a \in NodeType
          /\ a.status = IF m.status = "" THEN "active" ELSE m.status
          /\ a.endpoints = m.endpoints
          /\ Complete(a)
      BY <2>3, <2>4, NodeActivated, Zenon
    <3> HIDE DEF a, u
    <3>4. t \in SyncType /\ Counted(t) /\ t.pending = {} /\ t.cluster = {a}
      BY <3>1, <3>2, <3>3, AddNodeCounted, Zenon
    <3>5. a.status = StatusOf(y)
      BY <1>0, <1>2, <2>3, <3>3, Zenon DEF IsPending, StatusOf
    <3>6. IsAdded(t, y, a)
      BY <1>2, <2>3, <3>3, <3>4, <3>5, Zenon DEF IsAdded, IsPending
    <3> QED  BY <3>3, <3>4, <3>6, Zenon DEF Sound, InPlace
  <2>5. CASE ~Complete(m)
    <3>1. t = [s EXCEPT !.pending = {m}]
      BY <2>2, <2>5 DEF UpsertPending
    <3>2. t \in SyncType /\ Counted(t) /\ t.pending = {m} /\ t.cluster = {}
      BY <1>0, <1>2, <2>3, <3>1, SetPending, Zenon DEF IsPending
    <3>3. IsPending(t, y, m)
      BY <1>0, <1>2, <2>3, <2>5, <3>2, Zenon DEF IsPending
    <3> QED  BY <2>3, <3>2, <3>3 DEF Sound, InPlace
  <2> QED  BY <2>4, <2>5
<1>3. ASSUME NEW n \in NodeType, IsAdded(s, x, n)
      PROVE  Sound(t, y)
  <2>1. CASE k \in Immutable
    <3>1. t = s /\ k \notin EndpointKeys
      BY <1>3, <2>1, Keyed DEF IsAdded, OnUpsertKey
    <3>2. IsAdded(s, y, n)
      BY <1>0, <1>3, <3>1 DEF IsAdded
    <3> QED  BY <1>0, <3>1, <3>2 DEF Sound, InPlace
  <2>2. CASE k \notin Immutable
    <3> DEFINE m == WithEndpoint(n, k, v)
    <3>1. t = [s EXCEPT !.cluster = {m}] /\ k \in EndpointKeys
      BY <1>3, <2>2, Keyed DEF IsAdded, OnUpsertKey, UpdateRemoteEndpoint
    <3>2. /\ m \in NodeType
          /\ m.status = n.status
          /\ m.endpoints = LiveEndpoints(y)
          /\ Complete(m) <=> Complete(n)
      BY <1>3, <3>1, NodeEndpoint DEF IsAdded
    <3> HIDE DEF t, m
    <3>3. t \in SyncType /\ Counted(t) /\ t.pending = {} /\ t.cluster = {m}
      BY <1>0, <1>3, <3>1, <3>2, SetClusterSame DEF IsAdded
    <3>4. IsAdded(t, y, m)
      BY <1>0, <1>3, <3>2, <3>3 DEF IsAdded
    <3> QED  BY <3>2, <3>3, <3>4 DEF Sound, InPlace
  <2> QED  BY <2>1, <2>2
<1> QED  BY <1>0, <1>1, <1>2, <1>3 DEF InPlace

\* OnLeave: a node that is pending when it leaves is forgotten.
LEMMA OnLeaveSound ==
    ASSUME NEW s, NEW x, NEW y, Sound(s, x), y.known = x.known, y.left,
           LiveEndpoints(y) = LiveEndpoints(x)
    PROVE  Sound(OnLeave(s), y)
<1> DEFINE t == OnLeave(s)
<1>0. s \in SyncType /\ Counted(s) /\ InPlace(s, x) /\ StatusOf(y) = "left"
  BY DEF Sound, StatusOf
<1>1. CASE s.cluster = {}
  <2>1. t = [s EXCEPT !.pending = {}]
    BY <1>1 DEF OnLeave
  <2> HIDE DEF t
  <2>2. t \in SyncType /\ Counted(t) /\ t.pending = {} /\ t.cluster = {}
    BY <1>0, <1>1, <2>1, SetPending
  <2> QED  BY <2>2 DEF Sound, InPlace, Absent, t
<1>2. ASSUME NEW n \in NodeType, IsAdded(s, x, n)
      PROVE  Sound(t, y)
  <2> DEFINE m == [n EXCEPT !.status = "left"]
  <2>1. t = SetCluster(s, {m})
    BY <1>2 DEF IsAdded, OnLeave, UpdateRemoteStatus
  <2>2. /\ m \in NodeType
        /\ m.status = "left"
        /\ m.endpoints = n.endpoints
        /\ Complete(m) <=> Complete(n)
    BY NodeStatus, Zenon DEF Status
  <2> HIDE DEF t, m
  <2>3. t \in SyncType /\ Counted(t) /\ t.pending = {} /\ t.cluster = {m}
    BY <1>0, <1>2, <2>1, <2>2, SetClusterCounted DEF IsAdded
  <2>4. IsAdded(t, y, m)
    BY <1>0, <1>2, <2>2, <2>3 DEF IsAdded
  <2> QED  BY <2>2, <2>3, <2>4 DEF Sound, InPlace
<1> QED  BY <1>0, <1>1, <1>2, Zenon DEF InPlace, Absent, IsPending

\* OnReachable and OnUnreachable, for a node that has not left.
LEMMA OnStatusSound ==
    ASSUME NEW s, NEW x, NEW y, Sound(s, x), y.known, x.known, ~y.left, ~x.left,
           NEW z \in {"active", "unreachable"},
           y.unreachable <=> z = "unreachable",
           LiveEndpoints(y) = LiveEndpoints(x)
    PROVE  Sound(OnStatus(s, z), y)
<1> DEFINE t == OnStatus(s, z)
<1>0. /\ s \in SyncType
      /\ Counted(s)
      /\ InPlace(s, x)
      /\ StatusOf(y) = z
      /\ z \in Status
  BY DEF Sound, StatusOf, Status
<1>1. ~Absent(s, x)
  BY DEF Absent
<1>2. ASSUME NEW n \in NodeType, IsPending(s, x, n)
      PROVE  Sound(t, y)
  <2> DEFINE m == [n EXCEPT !.status = z]
  <2>1. t = [s EXCEPT !.pending = {m}]
    BY <1>2, Zenon DEF IsPending, OnStatus
  <2>2. /\ m \in NodeType
        /\ m.status = z
        /\ m.endpoints = n.endpoints
        /\ Complete(m) <=> Complete(n)
    BY <1>0, NodeStatus
  <2> HIDE DEF t, m
  <2>3. t \in SyncType /\ Counted(t) /\ t.pending = {m} /\ t.cluster = {}
    BY <1>0, <1>2, <2>1, <2>2, SetPending, Zenon DEF IsPending
  <2>4. IsPending(t, y, m)
    BY <1>0, <1>2, <2>2, <2>3, Zenon DEF IsPending
  <2> QED  BY <2>2, <2>3, <2>4 DEF Sound, InPlace
<1>3. ASSUME NEW n \in NodeType, IsAdded(s, x, n)
      PROVE  Sound(t, y)
  <2> DEFINE m == [n EXCEPT !.status = z]
  <2>1. t = SetCluster(s, {m})
    BY <1>3 DEF IsAdded, OnStatus, UpdateRemoteStatus
  <2>2. /\ m \in NodeType
        /\ m.status = z
        /\ m.endpoints = n.endpoints
        /\ Complete(m) <=> Complete(n)
    BY <1>0, NodeStatus
  <2> HIDE DEF t, m
  <2>3. t \in SyncType /\ Counted(t) /\ t.pending = {} /\ t.cluster = {m}
    BY <1>0, <1>3, <2>1, <2>2, SetClusterCounted DEF IsAdded
  <2>4. IsAdded(t, y, m)
    BY <1>0, <1>3, <2>2, <2>3 DEF IsAdded
  <2> QED  BY <2>2, <2>3, <2>4 DEF Sound, InPlace
<1> QED  BY <1>0, <1>1, <1>2, <1>3 DEF InPlace

\* OnExpired, after which gossip does not know the node.
LEMMA OnExpiredSound ==
    ASSUME NEW s, NEW x, Sound(s, x)
    PROVE  Sound(OnExpired(s), Unknown)
<1> DEFINE t == OnExpired(s)
<1>0. s \in SyncType /\ Counted(s) /\ InPlace(s, x)
  BY DEF Sound
<1>1. CASE s.cluster = {}
  <2>1. t = [s EXCEPT !.pending = {}]
    BY <1>1 DEF OnExpired
  <2> HIDE DEF t
  <2>2. t \in SyncType /\ Counted(t) /\ t.pending = {} /\ t.cluster = {}
    BY <1>0, <1>1, <2>1, SetPending
  <2> QED  BY <2>2 DEF Sound, InPlace, Absent, Unknown, Blank, t
<1>2. ASSUME NEW n \in NodeType, IsAdded(s, x, n)
      PROVE  Sound(t, Unknown)
  <2>1. t = SetCluster(s, {})
    BY <1>2 DEF IsAdded, OnExpired, RemoveNode
  <2> HIDE DEF t
  <2>2. t \in SyncType /\ Counted(t) /\ t.pending = {} /\ t.cluster = {}
    BY <1>0, <1>2, <2>1, SetClusterCounted DEF IsAdded
  <2> QED  BY <2>2 DEF Sound, InPlace, Absent, Unknown, Blank
<1> QED  BY <1>0, <1>1, <1>2, Zenon DEF InPlace, Absent, IsPending

\* OnJoin, before which gossip did not know the node.
LEMMA OnJoinSound ==
    ASSUME NEW s, NEW x, Sound(s, x), ~x.known
    PROVE  Sound(OnJoin(s), NewNode)
<1> DEFINE t == OnJoin(s)
<1>0. s \in SyncType /\ Counted(s) /\ s.pending = {} /\ s.cluster = {}
  BY Zenon DEF Sound, InPlace, Absent, IsPending, IsAdded
<1>1. t = [s EXCEPT !.pending = {PendingNode}]
  BY <1>0 DEF OnJoin
<1>2. /\ PendingNode \in NodeType
      /\ PendingNode.endpoints = {}
      /\ PendingNode.status = ""
      /\ ~Complete(PendingNode)
  BY DEF PendingNode, NodeType, Texts, Complete
<1>3. /\ NewNode.known
      /\ ~NewNode.left
      /\ ~NewNode.unreachable
      /\ NewNode.entries = {}
  BY DEF NewNode, Blank
<1>4. LiveEndpoints(NewNode) = {}
  BY <1>3 DEF LiveEndpoints
<1> HIDE DEF t
<1>5. t \in SyncType /\ Counted(t) /\ t.pending = {PendingNode} /\ t.cluster = {}
  BY <1>0, <1>1, <1>2, SetPending, Zenon
<1>6. IsPending(t, NewNode, PendingNode)
  BY <1>2, <1>3, <1>4, <1>5, Zenon DEF IsPending
<1> QED  BY <1>2, <1>5, <1>6, Zenon DEF Sound, InPlace, t

\* One iteration of applyDeltaEntry with its callbacks.
LEMMA WatchSound ==
    ASSUME NEW old \in NodeState, OneEach(old), NEW s, Sound(s, old),
           NEW e \in Entry
    PROVE  Sound(Watch(old, s, e), ApplyEntry(old, e))
<1> DEFINE new == ApplyEntry(old, e)
<1>1. CASE e.version <= old.version
  BY <1>1 DEF Watch, ApplyEntry
<1>2. CASE ~(e.version <= old.version)
  <2>1. /\ new.known = old.known
        /\ new.unreachable = old.unreachable
        /\ new.left <=> old.left \/ e.key = leftKey
        /\ new \in NodeState
    BY <1>2, ApplyEntryFields
  <2>2. e.key \in Keys \cup {leftKey, compactKey} /\ e.value \in Texts
    BY DEF Entry, Texts
  <2>3. CASE e.key = leftKey
    <3>1. LiveEndpoints(new) = LiveEndpoints(old)
      BY <1>2, <2>3, Keyed, OtherEntryLive
    <3>2. Watch(old, s, e) = OnLeave(s)
      BY <1>2, <2>3, Keyed DEF Watch
    <3> HIDE DEF new
    <3> QED  BY <2>1, <2>3, <3>1, <3>2, OnLeaveSound DEF new
  <2>4. e.key # leftKey => new.left = old.left
    BY <2>1 DEF NodeState
  <2>5. CASE e.key = compactKey
    <3>1. Watch(old, s, e) = OnDeleteKey(s, CompactedKeys(old, e))
      BY <1>2, <2>5, Keyed DEF Watch
    <3>2. LiveEndpoints(new) =
            {p \in LiveEndpoints(old) :
               p[1] \notin CompactedKeys(old, e) \cap EndpointKeys}
      BY <1>2, <2>5, CompactLive
    <3> HIDE DEF new
    <3> QED  BY <2>1, <2>4, <2>5, <3>1, <3>2, Keyed, OnDeleteKeySound DEF new
  <2>6. CASE e.key \in Keys /\ e.deleted
    <3>1. Watch(old, s, e) = OnDeleteKey(s, {e.key})
      BY <1>2, <2>6, Keyed DEF Watch
    <3>2. LiveEndpoints(new) =
            {p \in LiveEndpoints(old) : p[1] \notin {e.key} \cap EndpointKeys}
      BY <1>2, <2>6, DeleteLive
    <3> HIDE DEF new
    <3> QED  BY <2>1, <2>4, <2>6, <3>1, <3>2, Keyed, OnDeleteKeySound DEF new
  <2>7. CASE e.key \in Keys /\ ~e.deleted
    <3>1. Watch(old, s, e) = OnUpsertKey(s, e.key, e.value)
      BY <1>2, <2>7, Keyed DEF Watch
    <3>2. LiveEndpoints(new) =
            IF e.key \in EndpointKeys
            THEN {p \in LiveEndpoints(old) : p[1] # e.key} \cup {<<e.key, e.value>>}
            ELSE LiveEndpoints(old)
      BY <1>2, <2>7, Keyed, UpsertLive, OtherEntryLive
    <3> HIDE DEF new
    <3> QED  BY <2>1, <2>2, <2>4, <2>7, <3>1, <3>2, Keyed, OnUpsertKeySound DEF new
  <2> QED  BY <2>2, <2>3, <2>5, <2>6, <2>7
<1> QED  BY <1>1, <1>2

-----------------------------------------------------------------------------
(***************************************************************************)
(* The steps.                                                              *)
(***************************************************************************)

LEMMA BlankNodes ==
    /\ Unknown \in NodeState /\ OneEach(Unknown) /\ Unknown.known = FALSE
    /\ NewNode \in NodeState /\ OneEach(NewNode) /\ OwnerOK(NewNode)
<1>1. /\ Unknown \in NodeState
      /\ Unknown.entries = {}
      /\ Unknown.known = FALSE
      /\ NewNode \in NodeState
      /\ NewNode.entries = {}
      /\ NewNode.known = TRUE
      /\ NewNode.left = FALSE
      /\ NewNode.version = 0
  BY DEF Unknown, NewNode, Blank, NodeState
<1>2. OwnerOK(NewNode)
  BY <1>1, FS_EmptySet DEF OwnerOK
<1> QED  BY <1>1, <1>2 DEF OneEach

\* The owner is unknown at first.
LEMMA InitIInv == Init => IInv
<1> SUFFICES ASSUME Init PROVE IInv
  OBVIOUS
<1>1. TypeInv
  BY BlankNodes DEF Init, TypeInv
<1> DEFINE g == [x \in Status |-> IF x = "active" THEN 1 ELSE 0]
<1>2. g \in [Status -> Int] /\ \A y \in Status : g[y] = 0 + One(y)
  BY DEF One
<1>3. sync.pending = {} /\ sync.cluster = {} /\ sync.gauge = g
  BY DEF Init, InitSync
<1>4. sync = [pending |-> {}, cluster |-> {}, gauge |-> g]
  BY DEF Init, InitSync
<1> HIDE DEF g
<1>5. sync \in SyncType
  BY <1>2, <1>4 DEF SyncType
<1>6. Counted(sync)
  BY <1>2, <1>3, WithStatusNone, Zenon DEF Counted
<1>7. Absent(sync, st)
  BY <1>3, BlankNodes DEF Absent, Init
<1> QED  BY <1>1, <1>5, <1>6, <1>7 DEF IInv, Sound, InPlace

(***************************************************************************)
(* Every step of the owner is a change that the views of it survive.       *)
(***************************************************************************)

\* The addresses of the owner are set, and are never deleted.
Addresses(x) ==
    \A e \in x.entries : e.key \in Immutable => ~e.deleted /\ e.value # NoValue

MayFollow(old, new) ==
    /\ new \in NodeState
    /\ OwnerOK(new)
    /\ Evolves(old, new)
    /\ Addresses(old) => Addresses(new)

\* UpsertLocal and DeleteLocal are what an owner may do, ...
LEMMA PutFollows ==
    ASSUME NEW old \in NodeState, OwnerOK(old), NEW k \in Keys,
           NEW v \in Nat \cup {NoValue}, NEW del \in BOOLEAN,
           k \in Immutable => ~del /\ v # NoValue
    PROVE  MayFollow(old, Put(old, k, v, del))
<1> DEFINE e == NewEntry(k, v, old.version + 1, del)
           new == Put(old, k, v, del)
<1>0. k \in Keys \cup {leftKey}
  OBVIOUS
<1>1. new.entries = Written(old, k, e)
  BY <1>0, PutFields
<1>2. e.key = k /\ e.value = v /\ e.deleted = del
  BY DEF NewEntry
<1>3. new \in NodeState /\ OwnerOK(new) /\ Evolves(old, new)
  BY PutOK
<1> HIDE DEF e, new
<1>4. Addresses(old) => Addresses(new)
  BY <1>1, <1>2 DEF Addresses, Written
<1> QED  BY <1>3, <1>4 DEF MayFollow, new

\* ... LeaveLocal is, ...
LEMMA LeaveFollows ==
    ASSUME NEW old \in NodeState, OwnerOK(old)
    PROVE  MayFollow(old, LeaveLocal(old))
<1> DEFINE new == LeaveLocal(old)
<1>1. new \in NodeState /\ OwnerOK(new) /\ Evolves(old, new)
  BY LeaveLocalOK
<1>2. \A e \in new.entries : e \in old.entries \/ e.key = leftKey
  <2>1. CASE old.left
    BY <2>1 DEF LeaveLocal
  <2>2. CASE ~old.left
    <3>0. PICK k \in Keys \cup {leftKey}, v \in Nat \cup {NoValue},
               del \in BOOLEAN : k = leftKey /\ v = NoValue /\ del = FALSE
      BY ZenonT(60)
    <3> DEFINE p == Put(old, k, v, del)
               e == NewEntry(k, v, old.version + 1, del)
    <3>1. p \in NodeState /\ p.entries = Written(old, k, e)
      BY PutFields
    <3>2. e.key = leftKey
      BY <3>0 DEF NewEntry
    <3>3. new = [p EXCEPT !.left = TRUE]
      BY <2>2, <3>0, Zenon DEF LeaveLocal
    <3> HIDE DEF p, e, new
    <3>4. new.entries = p.entries
      BY <3>1, <3>3 DEF NodeState
    <3> QED  BY <3>1, <3>2, <3>4 DEF Written
  <2> QED  BY <2>1, <2>2
<1> HIDE DEF new
<1>3. Addresses(old) => Addresses(new)
  BY <1>2, Keyed DEF Addresses
<1> QED  BY <1>1, <1>3 DEF MayFollow, new

\* ... CompactLocal is, ...
LEMMA CompactFollows ==
    ASSUME NEW old \in NodeState, OwnerOK(old)
    PROVE  MayFollow(old, CompactLocal(old))
<1> DEFINE new == CompactLocal(old)
<1>1. new \in NodeState /\ OwnerOK(new) /\ Evolves(old, new)
  BY CompactLocalOK
<1>2. CASE Cardinality({e \in old.entries : e.deleted}) < CompactThreshold
  BY <1>1, <1>2 DEF CompactLocal, MayFollow
<1>3. CASE ~(Cardinality({e \in old.entries : e.deleted}) < CompactThreshold)
  <2> DEFINE c == NewEntry(compactKey, old.version,
                           old.version + Cardinality(Retained(old)) + 1, FALSE)
  <2>1. /\ c.key = compactKey
        /\ new.entries = {Reversion(old, e) : e \in Retained(old)} \cup {c}
    BY <1>3, CompactFields, ZenonT(60)
  <2>2. \A e \in Retained(old) :
            /\ e \in old.entries
            /\ Reversion(old, e).key = e.key
            /\ Reversion(old, e).value = e.value
            /\ Reversion(old, e).deleted = FALSE
    BY ReversionOK, ZenonT(60) DEF OwnerOK, Retained
  <2> HIDE DEF c, new
  <2>3. Addresses(old) => Addresses(new)
    BY <2>1, <2>2, Keyed DEF Addresses
  <2> QED  BY <1>1, <2>3 DEF MayFollow, new
<1> QED  BY <1>2, <1>3

\* ... and nothing at all is.
LEMMA SameFollows ==
    ASSUME NEW old \in NodeState, OwnerOK(old)
    PROVE  MayFollow(old, old)
  BY SameOK DEF MayFollow

\* Each action of the owner is one of these.
LEMMA OwnerSteps ==
    ASSUME own \in NodeState, OwnerOK(own),
           \/ Sync
           \/ \E k \in EndpointKeys : LocalEndpoint(k)
           \/ Compact
           \/ Leave
    PROVE  \E new : MayFollow(own, new) /\ SetOwn(new)
<1>1. \A k \in Keys, v \in Nat : MayFollow(own, UpsertLocal(own, k, v))
  <2> TAKE k \in Keys, v \in Nat
  <2>1. v \in Nat \cup {NoValue} /\ v # NoValue /\ FALSE \in BOOLEAN
    BY DEF NoValue
  <2> QED  BY <2>1, PutFollows, SameFollows, Zenon DEF UpsertLocal
<1>2. /\ proxyKey \in Keys
      /\ adminKey \in Keys
      /\ EndpointKeys \subseteq Keys
      /\ \A k \in EndpointKeys : k \notin Immutable
  BY Keyed
<1>3. CASE Sync
  <2>1. 1 \in Nat
    OBVIOUS
  <2> QED  BY <1>1, <1>2, <1>3, <2>1, Zenon DEF Sync
<1>4. ASSUME NEW k \in EndpointKeys, LocalEndpoint(k)
      PROVE  \E new : MayFollow(own, new) /\ SetOwn(new)
  <2>1. PICK n \in 0 .. MaxListeners : onLocalEndpointUpdate(k, n)
    BY <1>4 DEF LocalEndpoint
  <2>2. n \in Nat /\ k \in Keys
    BY <1>2, RoutingAssumption
  <2>3. MayFollow(own, DeleteLocal(own, k))
    <3>1. NoValue \in Nat \cup {NoValue} /\ TRUE \in BOOLEAN
      OBVIOUS
    <3> QED  BY <1>2, <2>2, <3>1, PutFollows, SameFollows, Zenon DEF DeleteLocal
  <2>4. MayFollow(own, UpsertLocal(own, k, n))
    BY <1>1, <2>2
  <2> QED  BY <2>1, <2>3, <2>4, Zenon DEF onLocalEndpointUpdate
<1>5. CASE Compact
  BY <1>5, CompactFollows DEF Compact
<1>6. CASE Leave
  BY <1>6, LeaveFollows DEF Leave
<1> QED  BY <1>3, <1>4, <1>5, <1>6

\* Steps that leave the observer alone.
LEMMA OwnerIInv ==
    ASSUME IInv,
           \/ Sync
           \/ \E k \in EndpointKeys : LocalEndpoint(k)
           \/ Compact
           \/ Leave
    PROVE  IInv'
<1>1. PICK new : MayFollow(own, new) /\ SetOwn(new)
  BY OwnerSteps DEF IInv, TypeInv
<1> QED  BY <1>1 DEF IInv, TypeInv, MayFollow, SetOwn, network

\* A delta has entries of the state it is computed from.
LEMMA DeltasType ==
    ASSUME NEW from \in NodeState, NEW v
    PROVE  \A d \in Deltas(from, v) : d \subseteq from.entries /\ d \in SUBSET Entry
  BY DEF Deltas, Newer, NodeState

\* Sending changes nothing that the watcher has seen.
LEMMA NetworkIInv ==
    ASSUME IInv, RelayPulls \/ SendDigest \/ Answer \/ SendLocal
    PROVE  IInv'
<1>0. own \in NodeState /\ OwnerOK(own) /\ relay \in NodeState
  BY DEF IInv, TypeInv
<1>1. CASE RelayPulls
  <2>1. PICK d \in Deltas(own, relay.version) : relay' = Apply(relay, d)
    BY <1>1 DEF RelayPulls
  <2>2. d \subseteq own.entries /\ d \in SUBSET Entry
    BY <1>0, DeltasType
  <2>3. own.version \in Nat /\ \A e \in d : e.version <= own.version
    BY <1>0, <2>2 DEF OwnerOK, NodeState
  <2>4. relay' \in NodeState
    BY <1>0, <2>1, <2>2, <2>3, ApplyForward
  <2> QED  BY <1>1, <2>4 DEF IInv, TypeInv, RelayPulls, network
<1>2. CASE SendDigest
  BY <1>2 DEF IInv, TypeInv, SendDigest
<1>3. CASE Answer
  <2>1. delta' \in SUBSET Entry
    BY <1>0, <1>3, DeltasType DEF Answer
  <2> QED  BY <1>3, <2>1 DEF IInv, TypeInv, Answer
<1>4. CASE SendLocal
  <2>1. delta' \in SUBSET Entry
    BY <1>0, <1>4 DEF SendLocal, Newer, NodeState
  <2> QED  BY <1>4, <2>1 DEF IInv, TypeInv, SendLocal
<1> QED  BY <1>1, <1>2, <1>3, <1>4

\* The observer adds a node without entries, if it does not know the owner.
LEMMA JoinedSound ==
    ASSUME IInv
    PROVE  /\ JoinedState \in NodeState
           /\ OneEach(JoinedState)
           /\ Sound(Joined(sync), JoinedState)
<1>0. st \in NodeState /\ OneEach(st) /\ Sound(sync, st)
  BY DEF IInv, TypeInv
<1>1. CASE st.known
  BY <1>0, <1>1 DEF Joined, JoinedState
<1>2. CASE ~st.known
  BY <1>0, <1>2, BlankNodes, OnJoinSound DEF Joined, JoinedState
<1> QED  BY <1>1, <1>2

\* UpdateLiveness tells the watcher of what it changes.
LEMMA LivenessIInv ==
    ASSUME IInv, NEW suspected \in BOOLEAN, Liveness(suspected)
    PROVE  IInv'
<1>0. st \in NodeState /\ OneEach(st) /\ Sound(sync, st)
  BY DEF IInv, TypeInv
<1>1. CASE st' = st
  <2>1. sync' = sync
    BY <1>1 DEF Liveness
  <2> QED  BY <1>1, <2>1 DEF IInv, TypeInv, Liveness, network
<1>2. CASE st' # st
  <2> DEFINE z == IF suspected THEN "unreachable" ELSE "active"
  <2>1. /\ st' = [st EXCEPT !.unreachable = suspected, !.expiry = suspected]
        /\ st.known
        /\ ~st.left
        /\ sync' = OnStatus(sync, z)
    BY <1>2 DEF Liveness, UpdateLiveness
  <2>2. /\ st' \in NodeState
        /\ st'.known = st.known
        /\ st'.left = st.left
        /\ st'.entries = st.entries
        /\ st'.unreachable = suspected
    BY <1>0, <2>1, Zenon DEF NodeState
  <2>3. LiveEndpoints(st)' = LiveEndpoints(st) /\ OneEach(st)'
    BY <1>0, <2>2 DEF LiveEndpoints, OneEach
  <2>4. z \in {"active", "unreachable"} /\ (st'.unreachable <=> z = "unreachable")
    BY <2>2
  <2>5. Sound(sync, st)'
    <3> HIDE DEF z
    <3>1. LiveEndpoints(st') = LiveEndpoints(st)
      BY <2>3
    <3>2. st'.known /\ ~st'.left
      BY <2>1, <2>2
    <3>3. Sound(OnStatus(sync, z), st')
      BY <1>0, <2>1, <2>4, <3>1, <3>2, OnStatusSound, Zenon
    <3> QED  BY <2>1, <3>3
  <2> QED  BY <2>2, <2>3, <2>5 DEF IInv, TypeInv, Liveness, network
<1> QED  BY <1>1, <1>2

\* So do the discovery, the application of a delta and the removal.
LEMMA ObserverIInv ==
    ASSUME IInv, Discover \/ StartDelta \/ ApplyNext \/ RemoveExpired
    PROVE  IInv'
<1>0. st \in NodeState /\ OneEach(st) /\ Sound(sync, st) /\ todo \in SUBSET Entry
  BY DEF IInv, TypeInv
<1>1. CASE Discover
  <2>1. st' \in NodeState /\ OneEach(st') /\ Sound(sync', st')
    BY <1>1, JoinedSound DEF Discover
  <2> QED  BY <1>1, <2>1 DEF IInv, TypeInv, Discover, network
<1>2. CASE StartDelta
  <2>1. st' \in NodeState /\ OneEach(st') /\ Sound(sync', st')
    BY <1>2, JoinedSound DEF StartDelta
  <2> QED  BY <1>2, <2>1 DEF IInv, TypeInv, StartDelta, network
<1>3. CASE ApplyNext
  <2>1. PICK e \in todo :
          /\ st' = ApplyEntry(st, e)
          /\ sync' = Watch(st, sync, e)
          /\ todo' = todo \ {e}
          /\ UNCHANGED <<own, relay, network, target, removals>>
    BY <1>3 DEF ApplyNext
  <2>2. st' \in NodeState /\ OneEach(st') /\ Sound(sync', st')
    BY <1>0, <2>1, ApplyEntryOneEach, WatchSound
  <2> QED  BY <2>1, <2>2 DEF IInv, TypeInv, network
<1>4. CASE RemoveExpired
  <2>1. st' \in NodeState /\ OneEach(st') /\ Sound(sync', st')
    BY <1>0, <1>4, BlankNodes, OnExpiredSound DEF RemoveExpired
  <2> QED  BY <1>4, <2>1 DEF IInv, TypeInv, RemoveExpired, network
<1> QED  BY <1>1, <1>2, <1>3, <1>4

\* Every step keeps the invariant.
LEMMA NextIInv == IInv /\ [Next]_vars => IInv'
<1> SUFFICES ASSUME IInv, [Next]_vars PROVE IInv'
  OBVIOUS
<1>1. CASE UNCHANGED vars
  BY <1>1 DEF IInv, TypeInv, vars
<1>2. CASE Next
  BY <1>2, OwnerIInv, NetworkIInv, ObserverIInv, LivenessIInv DEF Next
<1> QED  BY <1>1, <1>2

-----------------------------------------------------------------------------
(***************************************************************************)
(* The honesty of what the relay and the observer know and receive.        *)
(***************************************************************************)

\* What is on its way to the observer, who knows x about the owner.
Sent(S, x, owner, fresh) ==
    /\ Slice(S)
    /\ IsFiniteSet(S)
    /\ \A e \in S : Genuine(e, owner)
    /\ fresh => DeltaOK(x.version, S, owner)

\* A pending node has the addresses that gossip has.
Heard(s, x) ==
    \A n \in s.pending, e \in x.entries :
        ~e.deleted =>
            /\ e.key = proxyKey => n.proxy = e.value
            /\ e.key = adminKey => n.admin = e.value

(***************************************************************************)
(* The second inductive invariant.  AddedInTime and NoFlap are about the   *)
(* owner's entries, so they need that every view of the owner holds all of *)
(* them up to its version, and every delta all of them above the version   *)
(* it is applied to: StateOK and Sent, until the observer has removed the  *)
(* owner's state.  WalkIsApply needs that a delta is a slice.              *)
(***************************************************************************)
Honest ==
    /\ removals \in Nat
    /\ Addresses(own)
    /\ relay.known
    /\ Slice(relay.entries)
    /\ StateOK(relay, own, TRUE)
    /\ StateOK(st, own, removals = 0)
    /\ digest \subseteq Nat
    /\ removals = 0 => \A v \in digest : v <= st.version
    /\ Sent(delta, st, own, removals = 0)
    /\ Sent(todo, st, own, removals = 0)
    /\ todo # {} => st.known
    /\ Heard(sync, st)

\* Sent is what GossipStateProofs says of a delta, and that it is a slice.
LEMMA SentIs ==
    ASSUME NEW S \in SUBSET Entry, NEW x \in NodeState, NEW owner,
           NEW fresh \in BOOLEAN
    PROVE  LET d == [base |-> x.version, entries |-> S]
           IN  /\ d.base \in Nat
               /\ d.entries = S
               /\ Sent(S, x, owner, fresh) <=>
                    Slice(S) /\ DeltaEntryOK(d, x, owner, fresh)
<1>1. x.version \in Nat /\ x.version <= x.version
  BY DEF NodeState
<1> QED  BY <1>1 DEF Sent, DeltaEntryOK

\* Asking for more leaves no gap.
LEMMA BaseUp ==
    ASSUME NEW owner \in NodeState, NEW b \in Nat, NEW c \in Nat, b <= c,
           NEW S \in SUBSET Entry, DeltaOK(b, S, owner)
    PROVE  DeltaOK(c, S, owner)
<1>1. \A f \in owner.entries : f.version \in Nat
  BY DEF NodeState, Entry
<1> QED  BY <1>1 DEF DeltaOK

\* The deltas of the owner and of the relay.
LEMMA DeltasSent ==
    ASSUME NEW owner \in NodeState, OwnerOK(owner),
           NEW from \in NodeState, StateOK(from, owner, TRUE),
           Slice(from.entries),
           NEW v \in Nat, NEW d \in Deltas(from, v)
    PROVE  /\ d \in SUBSET Entry
           /\ d \subseteq from.entries
           /\ Slice(d)
           /\ IsFiniteSet(d)
           /\ \A e \in d : Genuine(e, owner)
           /\ DeltaOK(v, d, owner)
<1>1. d \in SUBSET Entry /\ d \subseteq from.entries
  BY DeltasType
<1>2. /\ ViewOK(from.version, from.entries, owner)
      /\ IsFiniteSet(from.entries)
      /\ \A e \in from.entries : Genuine(e, owner)
  BY DEF StateOK
<1>3. PICK cut \in Newer(from, v) :
          d = {e \in Newer(from, v) : e.version <= cut.version}
  BY DEF Deltas
<1>4. Newer(from, v) \in SUBSET Entry /\ cut.version \in Nat
  BY DEF Newer, NodeState, Entry
<1>5. DeltaOK(v, d, owner)
  BY <1>2, <1>3, <1>4, NewerDeltaOK, PrefixDeltaOK
<1>6. IsFiniteSet(d)
  BY <1>1, <1>2, FS_Subset
<1> QED  BY <1>1, <1>2, <1>5, <1>6 DEF Slice

\* A delta stays good while the receiver moves forward.
LEMMA SentUp ==
    ASSUME NEW owner \in NodeState, NEW S \in SUBSET Entry,
           NEW x \in NodeState, NEW y \in NodeState, NEW fresh \in BOOLEAN,
           fresh => x.version <= y.version,
           Sent(S, x, owner, fresh)
    PROVE  Sent(S, y, owner, fresh)
<1>1. x.version \in Nat /\ y.version \in Nat
  BY DEF NodeState
<1>2. fresh => DeltaOK(y.version, S, owner)
  BY <1>1, BaseUp DEF Sent
<1> QED  BY <1>2 DEF Sent

\* The owner has one entry for a key, and one of a version.
LEMMA OwnerSlice ==
    ASSUME NEW owner \in NodeState, OwnerOK(owner)
    PROVE  Slice(owner.entries)
  BY DEF OwnerOK, Slice

\* The views and the deltas survive every step of the owner.
LEMMA OwnerHonest ==
    ASSUME IInv, Honest, NEW new, MayFollow(own, new), SetOwn(new)
    PROVE  Honest'
<1> DEFINE fresh == removals = 0
<1>0. fresh \in BOOLEAN /\ TRUE \in BOOLEAN
  OBVIOUS
<1>1. /\ own \in NodeState /\ relay \in NodeState /\ st \in NodeState
      /\ delta \in SUBSET Entry /\ todo \in SUBSET Entry
      /\ new \in NodeState /\ Evolves(own, new)
      /\ st.version \in Nat
  BY DEF IInv, TypeInv, MayFollow, NodeState
<1>2. StateOK(relay, new, TRUE)
  BY <1>0, <1>1, EvolvesStateOK, Zenon DEF Honest
<1>3. StateOK(st, new, fresh)
  BY <1>0, <1>1, EvolvesStateOK, Zenon DEF Honest
<1>4. ASSUME NEW S \in SUBSET Entry, Sent(S, st, own, fresh)
      PROVE  Sent(S, st, new, fresh)
  <2> DEFINE x == [base |-> st.version, entries |-> S]
  <2>1. x.base \in Nat /\ x.entries \in SUBSET Entry
    BY <1>1
  <2>2. Slice(S) /\ DeltaEntryOK(x, st, own, fresh)
    BY <1>0, <1>1, <1>4, SentIs, Zenon
  <2> HIDE DEF x, fresh
  <2>3. DeltaEntryOK(x, st, new, fresh)
    BY <1>0, <1>1, <2>1, <2>2, EvolvesDeltaEntryOK
  <2> QED  BY <1>0, <1>1, <2>2, <2>3, SentIs DEF x
<1>5. Sent(delta, st, new, fresh) /\ Sent(todo, st, new, fresh)
  BY <1>1, <1>4 DEF Honest
<1>6. Addresses(new)
  BY DEF Honest, MayFollow
<1>7. own' = new /\ UNCHANGED <<relay, st, sync, digest, delta, todo, removals>>
  BY DEF SetOwn, network
<1> QED  BY <1>2, <1>3, <1>5, <1>6, <1>7, Zenon DEF Honest

\* A view that takes a slice is a slice.
LEMMA ApplySlice ==
    ASSUME NEW old \in NodeState, Slice(old.entries),
           \A e \in old.entries : e.version <= old.version,
           NEW S \in SUBSET Entry, Slice(S),
           NEW w \in Nat, \A e \in S : e.version <= w
    PROVE  Slice(Apply(old, S).entries)
<1>1. CASE Accepted(old, S) = {}
  BY <1>1 DEF Apply
<1>2. CASE Accepted(old, S) # {}
  <2> DEFINE A == Accepted(old, S)
             M == Merge(old.entries, A)
  <2>1. Apply(old, S).entries = M
    BY <1>2, ApplyFields, ZenonT(60)
  <2>2. \A a \in A, e \in old.entries : a.version # e.version
    BY DEF Accepted, NodeState, Entry
  <2>3. Slice(A)
    BY DEF Slice, Accepted
  <2> HIDE DEF A
  <2>4. Slice(M)
    BY <2>2, <2>3, Zenon DEF Slice, Merge
  <2> QED  BY <2>1, <2>4
<1> QED  BY <1>1, <1>2

\* What a node that has never removed the owner's state takes from a delta.
LEMMA RelayHonest ==
    ASSUME IInv, Honest, RelayPulls
    PROVE  Honest'
<1>1. /\ own \in NodeState /\ OwnerOK(own) /\ own.version \in Nat
      /\ relay \in NodeState /\ relay.version \in Nat
      /\ relay.known /\ StateOK(relay, own, TRUE) /\ Slice(relay.entries)
  BY Zenon DEF IInv, TypeInv, Honest, NodeState
<1>2. PICK d \in Deltas(own, relay.version) : relay' = Apply(relay, d)
  BY DEF RelayPulls
<1>3. StateOK(own, own, TRUE)
  BY <1>1, OwnerStateOK, Zenon
<1>4. /\ d \in SUBSET Entry
      /\ Slice(d)
      /\ IsFiniteSet(d)
      /\ \A e \in d : Genuine(e, own)
      /\ DeltaOK(relay.version, d, own)
  BY <1>1, <1>2, <1>3, DeltasSent, OwnerSlice, Zenon
<1>5. \A e \in d : e.version <= own.version
  BY <1>1, <1>4 DEF Genuine
<1> DEFINE x == [base |-> relay.version, entries |-> d]
<1>6. x.base \in Nat /\ x.entries = d /\ DeltaEntryOK(x, relay, own, TRUE)
  BY <1>1, <1>4, SentIs, Zenon DEF Sent
<1> HIDE DEF x
<1>7. StateOK(relay', own, TRUE)
  BY <1>1, <1>2, <1>4, <1>6, ApplyStateOK, Zenon
<1>8. relay'.known
  BY <1>1, <1>2, <1>4, <1>5, ApplyForward
<1>9. \A e \in relay.entries : e.version <= relay.version
  BY <1>1 DEF StateOK, ViewOK
<1>10. Slice(relay'.entries)
  BY <1>1, <1>2, <1>4, <1>5, <1>9, ApplySlice
<1>11. UNCHANGED <<own, st, sync, digest, delta, todo, removals>>
  BY DEF RelayPulls, network
<1> QED  BY <1>7, <1>8, <1>10, <1>11, Zenon DEF Honest

\* What is sent is honest, ...
LEMMA NetworkHonest ==
    ASSUME IInv, Honest, SendDigest \/ Answer \/ SendLocal
    PROVE  Honest'
<1> DEFINE fresh == removals = 0
<1>0. fresh \in BOOLEAN
  OBVIOUS
<1>1. /\ own \in NodeState /\ OwnerOK(own)
      /\ StateOK(own, own, TRUE) /\ Slice(own.entries)
      /\ relay \in NodeState
      /\ StateOK(relay, own, TRUE) /\ Slice(relay.entries)
      /\ st \in NodeState /\ st.version \in Nat
  BY OwnerStateOK, OwnerSlice, Zenon DEF IInv, TypeInv, Honest, NodeState
<1>2. CASE SendDigest
  <2>1. digest' \subseteq Nat /\ \A v \in digest' : v <= st.version
    BY <1>1, <1>2 DEF SendDigest
  <2>2. UNCHANGED <<own, relay, st, sync, delta, todo, removals>>
    BY <1>2 DEF SendDigest
  <2> QED  BY <2>1, <2>2, Zenon DEF Honest
<1>3. CASE Answer
  <2>1. PICK v \in digest, from \in {own, relay} : delta' \in Deltas(from, v)
    BY <1>3 DEF Answer
  <2>2. v \in Nat /\ (fresh => v <= st.version)
    BY DEF Honest
  <2>3. /\ delta' \in SUBSET Entry
        /\ Slice(delta')
        /\ IsFiniteSet(delta')
        /\ \A e \in delta' : Genuine(e, own)
        /\ DeltaOK(v, delta', own)
    BY <1>1, <2>1, <2>2, DeltasSent, Zenon
  <2>4. fresh => DeltaOK(st.version, delta', own)
    BY <1>1, <2>2, <2>3, BaseUp
  <2>5. Sent(delta', st, own, fresh)
    BY <2>3, <2>4 DEF Sent
  <2>6. UNCHANGED <<own, relay, st, sync, digest, todo, removals>>
    BY <1>3 DEF Answer
  <2> QED  BY <2>5, <2>6, Zenon DEF Honest
<1>4. CASE SendLocal
  <2>1. delta' = Newer(own, 0) /\ delta' \subseteq own.entries
    BY <1>4 DEF SendLocal, Newer
  <2>2. /\ Slice(delta')
        /\ IsFiniteSet(delta')
        /\ \A e \in delta' : Genuine(e, own)
        /\ delta' \in SUBSET Entry
    BY <1>1, <2>1, FS_Subset DEF Slice, StateOK, NodeState
  <2>3. DeltaOK(0, delta', own)
    BY <1>1, <2>1, NewerDeltaOK DEF StateOK
  <2>4. DeltaOK(st.version, delta', own)
    BY <1>1, <2>2, <2>3, BaseUp
  <2>5. Sent(delta', st, own, fresh)
    BY <2>2, <2>4 DEF Sent
  <2>6. UNCHANGED <<own, relay, st, sync, digest, todo, removals>>
    BY <1>4 DEF SendLocal
  <2> QED  BY <2>5, <2>6, Zenon DEF Honest
<1> QED  BY <1>2, <1>3, <1>4

\* The pending node, if there is one.
LEMMA OnePending ==
    ASSUME NEW s, NEW x, Sound(s, x)
    PROVE  /\ s.pending = {} \/ \E n \in NodeType : s.pending = {n}
           /\ s.cluster # {} => s.pending = {}
  BY Zenon DEF Sound, InPlace, Absent, IsPending, IsAdded

LEMMA SoundType ==
    ASSUME NEW s, NEW x, Sound(s, x)
    PROVE  s \in SyncType
  BY DEF Sound

\* Taking endpoints from the pending node leaves its addresses alone.
LEMMA DeleteHeard ==
    ASSUME NEW s, NEW x, Sound(s, x), Heard(s, x), NEW K, NEW y,
           \A e \in y.entries :
              e \in x.entries \/ e.deleted \/ e.key \notin Immutable
    PROVE  Heard(OnDeleteKey(s, K), y)
<1> DEFINE t == OnDeleteKey(s, K)
           D == K \cap EndpointKeys
<1>1. s \in SyncType
  BY SoundType
<1>2. CASE s.pending = {}
  <2>1. t.pending = {}
    BY <1>1, <1>2, Zenon DEF OnDeleteKey, RemoveRemoteEndpoint, SyncType
  <2> QED  BY <2>1 DEF Heard
<1>3. ASSUME NEW n \in NodeType, s.pending = {n}
      PROVE  Heard(t, y)
  <2> DEFINE m == WithoutEndpoints(n, D)
  <2>1. t = [s EXCEPT !.pending = {m}]
    BY <1>3, OnePending, Zenon DEF OnDeleteKey
  <2>2. m.proxy = n.proxy /\ m.admin = n.admin
    BY Zenon DEF WithoutEndpoints, NodeType
  <2> HIDE DEF m, t
  <2>3. t.pending = {m}
    BY <1>1, <2>1, Zenon DEF SyncType
  <2>4. proxyKey \in Immutable /\ adminKey \in Immutable
    BY DEF Immutable
  <2> QED  BY <1>3, <2>2, <2>3, <2>4 DEF Heard
<1> QED  BY <1>2, <1>3, OnePending

\* The pending node takes the address that gossip takes.
LEMMA UpsertHeard ==
    ASSUME NEW s, NEW x, Sound(s, x), Heard(s, x), NEW k \in Keys, NEW v \in Texts,
           NEW y, \A e \in y.entries :
              \/ e \in x.entries /\ e.key # k
              \/ e.key = k /\ e.value = v
    PROVE  Heard(OnUpsertKey(s, k, v), y)
<1> DEFINE t == OnUpsertKey(s, k, v)
<1>1. s \in SyncType
  BY SoundType
<1>2. CASE s.pending = {}
  <2>1. t.pending = {}
    BY <1>1, <1>2, Zenon DEF OnUpsertKey, UpdateRemoteEndpoint, SyncType
  <2> QED  BY <2>1 DEF Heard
<1>3. ASSUME NEW n \in NodeType, s.pending = {n}
      PROVE  Heard(t, y)
  <2> DEFINE m == WithKey(n, k, v)
  <2>1. (CHOOSE z \in {n} : TRUE) = n
    OBVIOUS
  <2>2. t = UpsertPending(s, m)
    BY <1>3, <2>1, OnePending, Zenon DEF OnUpsertKey
  <2>3. /\ m \in NodeType
        /\ k = proxyKey => m.proxy = v /\ m.admin = n.admin
        /\ k = adminKey => m.admin = v /\ m.proxy = n.proxy
        /\ k # proxyKey /\ k # adminKey => m.proxy = n.proxy /\ m.admin = n.admin
    <3>1. CASE k = proxyKey
      BY <3>1, Keyed, Zenon DEF WithKey, NodeType
    <3>2. CASE k = adminKey
      BY <3>2, Keyed, Zenon DEF WithKey, NodeType
    <3>3. CASE k # proxyKey /\ k # adminKey
      <4>1. m = WithEndpoint(n, k, v) /\ k \in EndpointKeys
        BY <3>3, Keyed DEF WithKey
      <4>2. m \in NodeType
        BY NodeKey, Zenon
      <4>3. m.proxy = n.proxy /\ m.admin = n.admin
        BY <4>1, Zenon DEF WithEndpoint, NodeType
      <4> QED  BY <3>3, <4>2, <4>3
    <3> QED  BY <3>1, <3>2, <3>3
  <2> HIDE DEF m, t
  <2>4. t.pending = {} \/ t.pending = {m}
    <3>1. CASE Complete(m)
      <4> DEFINE u == [s EXCEPT !.pending = {}]
      <4>1. t = AddNode(u, Activated(m))
        BY <2>2, <3>1 DEF UpsertPending
      <4>2. u \in SyncType /\ u.pending = {}
        BY <1>1, Zenon DEF SyncType
      <4> HIDE DEF u
      <4>3. t.pending = u.pending
        BY <4>1, <4>2, Zenon DEF AddNode, SyncType
      <4> QED  BY <4>2, <4>3
    <3>2. CASE ~Complete(m)
      <4>1. t = [s EXCEPT !.pending = {m}]
        BY <2>2, <3>2 DEF UpsertPending
      <4> QED  BY <1>1, <4>1, Zenon DEF SyncType
    <3> QED  BY <3>1, <3>2
  <2>5. proxyKey # adminKey
    BY Keyed
  <2> QED  BY <1>3, <2>3, <2>4, <2>5 DEF Heard
<1> QED  BY <1>2, <1>3, OnePending

\* One iteration of applyDeltaEntry: see WatchSound.
LEMMA WatchHeard ==
    ASSUME NEW old \in NodeState, NEW s, Sound(s, old), Heard(s, old),
           NEW e \in Entry
    PROVE  Heard(Watch(old, s, e), ApplyEntry(old, e))
<1> DEFINE new == ApplyEntry(old, e)
<1>1. CASE e.version <= old.version
  BY <1>1 DEF Watch, ApplyEntry
<1>2. CASE ~(e.version <= old.version)
  <2>1. \A x \in new.entries : x = e \/ (x \in old.entries /\ x.key # e.key)
    BY <1>2, ApplyEntryFields DEF WithEntry
  <2>2. e.key \in Keys \cup {leftKey, compactKey} /\ e.value \in Texts
    BY DEF Entry, Texts
  <2> HIDE DEF new
  <2>3. CASE e.key = leftKey
    <3> DEFINE t == OnLeave(s)
    <3>1. Watch(old, s, e) = t
      BY <1>2, <2>3, Keyed DEF Watch
    <3>2. t.pending = {}
      <4>1. CASE s.cluster # {}
        <5>1. s.pending = {} /\ s \in SyncType
          BY <4>1, OnePending, SoundType
        <5> QED  BY <4>1, <5>1, Zenon
                 DEF OnLeave, UpdateRemoteStatus, SetCluster, SyncType
      <4>2. CASE s.cluster = {}
        <5>1. s \in SyncType
          BY SoundType
        <5> QED  BY <4>2, <5>1, Zenon DEF OnLeave, SyncType
      <4> QED  BY <4>1, <4>2
    <3> QED  BY <3>1, <3>2 DEF Heard, new
  <2>4. CASE e.key = compactKey
    <3>1. Watch(old, s, e) = OnDeleteKey(s, CompactedKeys(old, e))
      BY <1>2, <2>4, Keyed DEF Watch
    <3>2. compactKey \notin Immutable
      BY Keyed
    <3> QED  BY <2>1, <2>4, <3>1, <3>2, DeleteHeard DEF new
  <2>5. CASE e.key \in Keys /\ e.deleted
    <3>1. Watch(old, s, e) = OnDeleteKey(s, {e.key})
      BY <1>2, <2>5, Keyed DEF Watch
    <3> QED  BY <2>1, <2>5, <3>1, DeleteHeard DEF new
  <2>6. CASE e.key \in Keys /\ ~e.deleted
    <3>1. Watch(old, s, e) = OnUpsertKey(s, e.key, e.value)
      BY <1>2, <2>6, Keyed DEF Watch
    <3> QED  BY <2>1, <2>2, <2>6, <3>1, UpsertHeard DEF new
  <2> QED  BY <2>2, <2>3, <2>4, <2>5, <2>6
<1> QED  BY <1>1, <1>2

\* Adding the owner, if the observer does not know it, changes no version.
LEMMA JoinedHonest ==
    ASSUME IInv, Honest
    PROVE  /\ JoinedState \in NodeState
           /\ JoinedState.known
           /\ JoinedState.version = st.version
           /\ StateOK(JoinedState, own, removals = 0)
           /\ Heard(Joined(sync), JoinedState)
<1> DEFINE fresh == removals = 0
<1>0. own \in NodeState /\ OwnerOK(own) /\ st \in NodeState /\ fresh \in BOOLEAN
  BY DEF IInv, TypeInv
<1>1. CASE st.known
  BY <1>0, <1>1 DEF Joined, JoinedState, Honest
<1>2. CASE ~st.known
  <2>1. st = Unknown /\ JoinedState = NewNode
    BY <1>2, Zenon DEF Honest, StateOK, JoinedState
  <2>2. /\ Unknown.version = 0
        /\ NewNode.version = 0
        /\ NewNode.known
        /\ NewNode.entries = {}
    BY DEF Unknown, NewNode, Blank
  <2> HIDE DEF fresh
  <2>3. NewNode \in NodeState /\ StateOK(NewNode, own, fresh)
    BY <1>0, NewNodeOK
  <2>4. Heard(Joined(sync), NewNode)
    BY <2>2 DEF Heard
  <2> QED  BY <2>1, <2>2, <2>3, <2>4 DEF fresh
<1> QED  BY <1>1, <1>2

\* ... what is received is, ...
LEMMA DiscoverHonest ==
    ASSUME IInv, Honest, Discover \/ StartDelta
    PROVE  Honest'
<1> DEFINE fresh == removals = 0
<1>1. /\ st' = JoinedState
      /\ sync' = Joined(sync)
      /\ todo' = todo \/ todo' = delta
      /\ UNCHANGED <<own, relay, digest, delta, removals>>
  BY DEF Discover, StartDelta, network
<1>2. /\ st'.known
      /\ st'.version = st.version
      /\ StateOK(st', own, fresh)
      /\ Heard(sync', st')
  BY <1>1, JoinedHonest
<1>3. Sent(delta, st', own, fresh) /\ Sent(todo', st', own, fresh)
  BY <1>1, <1>2, Zenon DEF Honest, Sent
<1> QED  BY <1>1, <1>2, <1>3, Zenon DEF Honest

\* ... what is left of a delta after an entry of it is, ...
LEMMA ApplyNextHonest ==
    ASSUME IInv, Honest, ApplyNext
    PROVE  Honest'
<1> DEFINE fresh == removals = 0
<1>0. fresh \in BOOLEAN
  OBVIOUS
<1>1. /\ own \in NodeState /\ OwnerOK(own) /\ own.version \in Nat
      /\ st \in NodeState /\ st.version \in Nat
      /\ todo \in SUBSET Entry /\ delta \in SUBSET Entry
      /\ Sound(sync, st) /\ Heard(sync, st)
      /\ StateOK(st, own, fresh)
      /\ Sent(todo, st, own, fresh) /\ Sent(delta, st, own, fresh)
  BY DEF IInv, TypeInv, Honest, NodeState
<1>2. PICK e \in todo :
        /\ \A x \in todo : e.version <= x.version
        /\ st' = ApplyEntry(st, e)
        /\ sync' = Watch(st, sync, e)
        /\ todo' = todo \ {e}
        /\ UNCHANGED <<own, relay, network, target, removals>>
  BY DEF ApplyNext
<1>3. UNCHANGED <<own, relay, digest, delta, removals>>
  BY <1>2 DEF network
<1>4. st.known /\ e \in Entry /\ e.version \in Nat /\ Genuine(e, own)
  BY <1>1, Zenon DEF Honest, Sent, Entry
<1>5. st' = Apply(st, {e})
  BY <1>1, <1>2, <1>4, ApplyOne DEF Genuine
<1>6. \A x \in todo : x.version <= e.version => x = e
  <2>1. \A x \in todo : x.version \in Nat
    BY <1>1 DEF Entry
  <2> QED  BY <1>1, <1>2, <1>4, <2>1 DEF Sent, Slice
<1>7. /\ {x \in todo : x.version <= e.version} = {e}
      /\ {e} \in SUBSET Entry
      /\ e.version <= e.version
  BY <1>4, <1>6
<1> HIDE DEF fresh
<1>8. fresh => DeltaOK(st.version, {e}, own)
  BY <1>1, <1>4, <1>7, PrefixDeltaOK DEF Sent
<1>9. Sent({e}, st, own, fresh)
  BY <1>4, <1>8, FS_Singleton, Zenon DEF Sent, Slice
<1> DEFINE x == [base |-> st.version, entries |-> {e}]
<1>10. x.base \in Nat /\ x.entries = {e} /\ DeltaEntryOK(x, st, own, fresh)
  BY <1>0, <1>1, <1>7, <1>9, SentIs
<1> HIDE DEF x
<1>11. st' \in NodeState /\ StateOK(st', own, fresh)
  BY <1>0, <1>1, <1>4, <1>5, <1>7, <1>10, ApplyStateOK, Zenon
<1>12. st'.known /\ st.version <= st'.version
  <2>1. e.version <= own.version
    BY <1>1, <1>4 DEF Genuine
  <2> QED  BY <1>1, <1>4, <1>5, <1>7, <2>1, ApplyForward
<1>13. st'.version \in Nat /\ e.version <= st'.version
  <2>1. CASE e.version <= st.version
    BY <1>1, <1>2, <2>1 DEF ApplyEntry
  <2>2. CASE ~(e.version <= st.version)
    BY <1>1, <1>2, <1>4, <2>2, ApplyEntryFields
  <2> QED  BY <2>1, <2>2
<1>14. Sent(delta, st', own, fresh)
  BY <1>0, <1>1, <1>11, <1>12, SentUp
<1>15. Sent(todo', st', own, fresh)
  <2>1. Sent(todo, st', own, fresh)
    BY <1>0, <1>1, <1>11, <1>12, SentUp
  <2>2. \A f \in own.entries : st'.version < f.version => f # e
    BY <1>1, <1>13 DEF NodeState, Entry
  <2>3. fresh => DeltaOK(st'.version, todo', own)
    BY <1>2, <2>1, <2>2 DEF Sent, DeltaOK
  <2>4. IsFiniteSet(todo')
    BY <1>1, <1>2, FS_Subset DEF Sent
  <2> QED  BY <1>2, <2>1, <2>3, <2>4 DEF Sent, Slice
<1>16. Heard(sync', st')
  BY <1>1, <1>2, <1>4, WatchHeard
<1>17. fresh => \A v \in digest : v <= st'.version
  <2>1. fresh => \A v \in digest : v \in Nat /\ v <= st.version
    BY DEF Honest, fresh
  <2> QED  BY <1>1, <1>12, <1>13, <2>1
<1> QED  BY <1>3, <1>11, <1>12, <1>14, <1>15, <1>16, <1>17, Zenon DEF Honest, fresh

\* ... a verdict changes nothing of that, ...
LEMMA LivenessHonest ==
    ASSUME IInv, Honest, NEW suspected \in BOOLEAN, Liveness(suspected)
    PROVE  Honest'
<1>0. st \in NodeState /\ Sound(sync, st)
  BY DEF IInv, TypeInv
<1>1. UNCHANGED <<own, relay, digest, delta, todo, removals>>
  BY DEF Liveness, network
<1>2. CASE st' = st
  <2>1. sync' = sync
    BY <1>2 DEF Liveness
  <2> QED  BY <1>1, <1>2, <2>1, Zenon DEF Honest
<1>3. CASE st' # st
  <2> DEFINE z == IF suspected THEN "unreachable" ELSE "active"
             t == OnStatus(sync, z)
  <2>1. /\ st' = [st EXCEPT !.unreachable = suspected, !.expiry = suspected]
        /\ st.known
        /\ sync' = t
    BY <1>3 DEF Liveness, UpdateLiveness
  <2>2. /\ st'.known
        /\ st'.left = st.left
        /\ st'.entries = st.entries
        /\ st'.version = st.version
    BY <1>0, <2>1, Zenon DEF NodeState
  <2>3. StateOK(st', own, removals = 0)
    BY <2>1, <2>2 DEF Honest, StateOK
  <2>4. Sent(delta, st', own, removals = 0) /\ Sent(todo, st', own, removals = 0)
    BY <2>2 DEF Honest, Sent
  <2>5. \A n \in t.pending : \E m \in sync.pending :
            n.proxy = m.proxy /\ n.admin = m.admin
    <3> HIDE DEF z
    <3>1. sync \in SyncType
      BY <1>0, SoundType
    <3>2. CASE sync.pending = {}
      <4>1. t.pending = {}
        BY <3>1, <3>2, Zenon
           DEF OnStatus, UpdateRemoteStatus, SetCluster, SyncType
      <4> QED  BY <4>1
    <3>3. ASSUME NEW n \in NodeType, sync.pending = {n}
          PROVE  \A i \in t.pending : i.proxy = n.proxy /\ i.admin = n.admin
      <4> DEFINE m == [n EXCEPT !.status = z]
      <4>1. t = [sync EXCEPT !.pending = {m}]
        <5>1. sync.cluster = {}
          BY <1>0, <3>3, OnePending
        <5>2. {[i EXCEPT !.status = z] : i \in {n}} = {m}
          OBVIOUS
        <5> HIDE DEF m
        <5> QED  BY <3>3, <5>1, <5>2, Zenon DEF OnStatus
      <4>2. m.proxy = n.proxy /\ m.admin = n.admin
        BY Zenon DEF NodeType
      <4> HIDE DEF m, t
      <4>3. t.pending = {m}
        BY <3>1, <4>1, Zenon DEF SyncType
      <4> QED  BY <4>2, <4>3
    <3> QED  BY <1>0, <3>2, <3>3, OnePending
  <2> HIDE DEF t
  <2>6. Heard(sync', st')
    BY <2>1, <2>2, <2>5 DEF Honest, Heard
  <2> QED  BY <1>1, <2>2, <2>3, <2>4, <2>6, Zenon DEF Honest
<1> QED  BY <1>2, <1>3

\* ... and a removal ends what is said of deltas in flight.
LEMMA RemoveHonest ==
    ASSUME IInv, Honest, RemoveExpired
    PROVE  Honest'
<1>1. /\ st' = Unknown
      /\ removals' = removals + 1
      /\ todo = {}
      /\ UNCHANGED <<own, relay, digest, delta, todo>>
  BY DEF RemoveExpired, network
<1>2. removals' \in Nat /\ ~(removals' = 0)
  BY <1>1 DEF Honest
<1>3. own \in NodeState /\ OwnerOK(own)
  BY DEF IInv, TypeInv
<1>4. StateOK(Unknown, own, FALSE) /\ Unknown.entries = {}
  BY <1>3, NewNodeOK, Zenon DEF Unknown, Blank
<1>5. StateOK(st', own, removals' = 0)
  BY <1>1, <1>2, <1>4 DEF StateOK
<1>6. \A S : Sent(S, st, own, removals = 0) => Sent(S, st', own, removals' = 0)
  BY <1>2 DEF Sent
<1>7. Heard(sync', st')
  BY <1>1, <1>4 DEF Heard
<1> QED  BY <1>1, <1>2, <1>5, <1>6, <1>7, Zenon DEF Honest

\* Nothing has been sent at first.
LEMMA InitHonest == Init => Honest
<1> SUFFICES ASSUME Init PROVE Honest
  OBVIOUS
<1>1. /\ own = NewNode /\ relay = NewNode /\ st = Unknown
      /\ digest = {} /\ delta = {} /\ todo = {} /\ removals = 0
      /\ sync.pending = {}
  BY DEF Init, InitSync
<1>2. /\ NewNode \in NodeState /\ OwnerOK(NewNode)
      /\ NewNode.known /\ NewNode.entries = {}
  BY BlankNodes DEF NewNode, Blank
<1>3. StateOK(NewNode, NewNode, TRUE) /\ StateOK(Unknown, NewNode, TRUE)
  BY <1>2, NewNodeOK, Zenon
<1>4. StateOK(st, own, removals = 0)
  BY <1>1, <1>3 DEF StateOK
<1>5. \A fresh : Sent({}, st, own, fresh)
  BY FS_EmptySet DEF Sent, Slice, DeltaOK
<1> QED  BY <1>1, <1>2, <1>3, <1>4, <1>5, Zenon DEF Honest, Addresses, Slice, Heard

\* Every step keeps the views and the deltas honest.
LEMMA NextHonest == IInv /\ Honest /\ [Next]_vars => Honest'
<1> SUFFICES ASSUME IInv, Honest, [Next]_vars PROVE Honest'
  OBVIOUS
<1>1. CASE UNCHANGED vars
  BY <1>1, Zenon DEF Honest, vars
<1>2. CASE \/ Sync
           \/ \E k \in EndpointKeys : LocalEndpoint(k)
           \/ Compact
           \/ Leave
  BY <1>2, OwnerSteps, OwnerHonest DEF IInv, TypeInv
<1>3. CASE RelayPulls
  BY <1>3, RelayHonest
<1>4. CASE SendDigest \/ Answer \/ SendLocal
  BY <1>4, NetworkHonest
<1>5. CASE Discover \/ StartDelta
  BY <1>5, DiscoverHonest
<1>6. CASE ApplyNext
  BY <1>6, ApplyNextHonest
<1>7. CASE \E suspected \in BOOLEAN : Liveness(suspected)
  BY <1>7, LivenessHonest
<1>8. CASE RemoveExpired
  BY <1>8, RemoveHonest
<1> QED  BY <1>1, <1>2, <1>3, <1>4, <1>5, <1>6, <1>7, <1>8, Zenon DEF Next

\* The walk, from any entry it has reached.
LEMMA NextWalk == IInv /\ Honest /\ WalkIsApply /\ [Next]_vars => WalkIsApply'
<1> SUFFICES ASSUME IInv, Honest, WalkIsApply, [Next]_vars PROVE WalkIsApply'
  OBVIOUS
<1>0. \A x : Apply(x, {}) = x
  BY DEF Apply, Accepted
<1>1. CASE UNCHANGED <<st, todo, target>>
  BY <1>1 DEF WalkIsApply
<1>2. CASE ApplyNext
  <2>1. PICK e \in todo :
          /\ \A x \in todo : e.version <= x.version
          /\ st' = ApplyEntry(st, e)
          /\ todo' = todo \ {e}
          /\ target' = target
    BY <1>2 DEF ApplyNext
  <2>2. /\ st \in NodeState /\ todo \in SUBSET Entry
        /\ own.version \in Nat
        /\ Slice(todo)
        /\ \A x \in todo : Genuine(x, own)
    BY DEF IInv, TypeInv, Honest, Sent, NodeState
  <2>3. /\ \A x \in todo : x.version <= own.version
        /\ \A x \in todo : x.key = compactKey => x.value < x.version
    BY <2>2 DEF Genuine
  <2>4. Apply(st', todo') = Apply(st, todo)
    BY <2>1, <2>2, <2>3, WalkStep
  <2> QED  BY <2>1, <2>4 DEF WalkIsApply
<1>3. CASE StartDelta
  BY <1>3 DEF StartDelta, WalkIsApply, ApplyDeltaEntry, JoinedState
<1>4. CASE Discover \/ RemoveExpired \/ \E suspected \in BOOLEAN : Liveness(suspected)
  <2>1. todo' = {} /\ target' = st'
    BY <1>4 DEF Discover, RemoveExpired, Liveness
  <2> QED  BY <1>0, <2>1 DEF WalkIsApply
<1>5. CASE \/ Sync
           \/ \E k \in EndpointKeys : LocalEndpoint(k)
           \/ Compact
           \/ Leave
  <2>1. PICK new : SetOwn(new)
    BY <1>5, OwnerSteps DEF IInv, TypeInv
  <2> QED  BY <1>1, <2>1 DEF SetOwn
<1>6. CASE RelayPulls \/ SendDigest \/ Answer \/ SendLocal
  BY <1>1, <1>6 DEF RelayPulls, SendDigest, Answer, SendLocal
<1> QED  BY <1>1, <1>2, <1>3, <1>4, <1>5, <1>6, Zenon DEF Next, vars

\* Nothing leaves the observer's view while the owner still has it.
LEMMA NextNoFlap == IInv /\ Honest /\ Honest' /\ [Next]_vars => [NoFlapStep]_vars
<1> SUFFICES ASSUME IInv, Honest, Honest', Next,
                    st.known, st'.known, removals = 0,
                    NEW k \in LiveKeys(st) \ LiveKeys(st')
             PROVE  ~Current(k, st'.version)
  BY DEF NoFlapStep
<1>1. \A x, y : x.entries = y.entries => LiveKeys(x) = LiveKeys(y)
  BY DEF LiveKeys
<1>2. CASE st' = st
  BY <1>2
<1>3. CASE \E suspected \in BOOLEAN : Liveness(suspected)
  <2>1. st \in NodeState
    BY DEF IInv, TypeInv
  <2>2. st'.entries = st.entries
    BY <1>3, <2>1, Zenon DEF Liveness, UpdateLiveness, NodeState
  <2> QED  BY <1>1, <2>2
<1>4. CASE ApplyNext
  <2>1. own' = own /\ removals' = removals
    BY <1>4 DEF ApplyNext
  <2>2. ViewOK(st'.version, st'.entries, own)
    BY <2>1, Zenon DEF Honest, StateOK
  <2> QED  BY <2>2 DEF ViewOK, Current, LiveKeys
<1>5. CASE RemoveExpired
  BY <1>5 DEF RemoveExpired, Unknown, Blank
<1>6. CASE Discover \/ StartDelta
  BY <1>2, <1>6 DEF Discover, StartDelta, JoinedState
<1>7. CASE \/ Sync
           \/ \E i \in EndpointKeys : LocalEndpoint(i)
           \/ Compact
           \/ Leave
  <2>1. PICK new : SetOwn(new)
    BY <1>7, OwnerSteps DEF IInv, TypeInv
  <2> QED  BY <1>2, <2>1 DEF SetOwn
<1>8. CASE RelayPulls \/ SendDigest \/ Answer \/ SendLocal
  BY <1>2, <1>8 DEF RelayPulls, SendDigest, Answer, SendLocal
<1> QED  BY <1>3, <1>4, <1>5, <1>6, <1>7, <1>8, Zenon DEF Next

\* Who has both addresses and is still pending would be complete.
LEMMA HonestAdds == IInv /\ Honest => AddedInTime
<1> SUFFICES ASSUME IInv, Honest, st.known, ~st.left, removals = 0,
                    \A k \in Immutable :
                       \E e \in own.entries : e.key = k /\ e.version <= st.version,
                    sync.cluster = {}
             PROVE  FALSE
  BY DEF AddedInTime
<1>1. ViewOK(st.version, st.entries, own)
  BY Zenon DEF Honest, StateOK
<1>2. PICK p \in own.entries : p.key = proxyKey /\ p.version <= st.version
  BY DEF Immutable
<1>3. PICK a \in own.entries : a.key = adminKey /\ a.version <= st.version
  BY DEF Immutable
<1>4. /\ ~p.deleted /\ p.value # NoValue /\ p \in st.entries
      /\ ~a.deleted /\ a.value # NoValue /\ a \in st.entries
  BY <1>1, <1>2, <1>3, Zenon DEF Honest, Addresses, Immutable, ViewOK
<1>5. PICK n \in NodeType : IsPending(sync, st, n)
  BY DEF IInv, Sound, InPlace, Absent, IsAdded
<1>6. n.proxy = p.value /\ n.admin = a.value
  BY <1>2, <1>3, <1>4, <1>5, Zenon DEF Honest, Heard, IsPending
<1>7. Complete(n)
  BY <1>4, <1>6 DEF Complete
<1> QED  BY <1>5, <1>7, Zenon DEF IsPending

-----------------------------------------------------------------------------
(***************************************************************************)
(* The theorems.                                                           *)
(***************************************************************************)

\* The observer's maps, its metric and its gossip state agree: after every
\* callback of the syncer, in whatever order deltas and verdicts come.
THEOREM Invariance == Spec => []IInv
  BY InitIInv, NextIInv, PTL DEF Spec

\* The owner is pending or in the cluster, never both, and in neither only
\* when gossip does not know it or it left while pending.
THEOREM PlacedHolds == Spec => []Placed
<1>1. IInv => Placed
  BY Zenon DEF IInv, Sound, InPlace, Absent, IsPending, IsAdded, Placed
<1> QED  BY <1>1, Invariance, PTL

\* The routes of the proxy are the endpoints and the status that gossip has,
\* between any two callbacks of the syncer.
THEOREM MirrorsHolds == Spec => []Mirrors
<1>1. IInv => Mirrors
  BY Zenon DEF IInv, Sound, InPlace, Absent, IsPending, IsAdded, Mirrors
<1> QED  BY <1>1, Invariance, PTL

\* No sequence of callbacks makes the Nodes metric drift: AddNode counts a
\* node only when the cluster does not have it.
THEOREM GaugeCountsHolds == Spec => []GaugeCounts
<1>1. IInv => GaugeCounts
  BY DEF IInv, Sound, Counted, One, GaugeCounts
<1> QED  BY <1>1, Invariance, PTL

\* The views, the digest and the deltas are honest about the owner, whatever
\* the owner, the relay and the network do, until the observer removes it.
THEOREM Honesty == Spec => []Honest
<1>1. IInv /\ IInv' /\ Honest /\ [Next]_vars => Honest'
  BY NextHonest
<1> QED  BY <1>1, InitHonest, Invariance, PTL DEF Spec

\* Entry by entry, in version order and with what the observer already has,
\* applyDeltaEntry computes Apply: the closed form that module Gossip uses.
THEOREM WalkIsApplyHolds == Spec => []WalkIsApply
<1>1. Init => WalkIsApply
  BY DEF Init, WalkIsApply, Apply, Accepted
<1>2. IInv /\ Honest /\ WalkIsApply /\ [Next]_vars => WalkIsApply'
  BY NextWalk
<1> QED  BY <1>1, <1>2, Invariance, Honesty, PTL DEF Spec

\* The owner is in the cluster as soon as the observer has reached the versions
\* of its addresses, however often compaction has moved them.
THEOREM AddedInTimeHolds == Spec => []AddedInTime
  BY HonestAdds, Invariance, Honesty, PTL

\* No iteration of applyDeltaEntry takes from the observer what the owner has.
THEOREM NoFlapHolds == Spec => NoFlap
<1>1. IInv /\ Honest /\ Honest' /\ [Next]_vars => [NoFlapStep]_vars
  BY NextNoFlap
<1> QED  BY <1>1, Invariance, Honesty, PTL DEF Spec, NoFlap

=============================================================================
