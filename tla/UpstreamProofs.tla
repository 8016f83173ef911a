--------------------------- MODULE UpstreamProofs ---------------------------
(***************************************************************************)
(* Proofs about Upstream for any connections and endpoints: the load       *)
(* balancers, the cluster state, gossip and the metrics agree on the       *)
(* connections, nextIndex stays within bounds, and the manager implements  *)
(* module Registry.                                                        *)
(***************************************************************************)
EXTENDS Upstream, FiniteSetTheorems, SequenceTheorems, TLAPS

-----------------------------------------------------------------------------
(***************************************************************************)
(* The load balancer, for slices of any length: Add, Remove and Next keep  *)
(* it a list of the connections, each of them once, with nextIndex within  *)
(* bounds.                                                                 *)
(***************************************************************************)

LoadBalancer == [exists : BOOLEAN, upstreams : Seq(Conns), nextIndex : Nat]

Injective(s) == \A i, j \in 1 .. Len(s) : s[i] = s[j] => i = j

\* A load balancer with the connections S, each of them once.
Holds(lb, S) ==
    /\ ToSet(lb.upstreams) = S
    /\ Len(lb.upstreams) = Cardinality(S)
    /\ Injective(lb.upstreams)
    /\ lb.exists <=> lb.upstreams # <<>>
    /\ lb.exists => lb.nextIndex < Len(lb.upstreams)
    /\ ~lb.exists => lb = NoLoadBalancer

\* A load balancer without upstreams holds no connection.
LEMMA ToSetEmpty == \A s \in Seq(Conns) : ToSet(s) = {} <=> s = <<>>
<1> SUFFICES ASSUME NEW s \in Seq(Conns) PROVE ToSet(s) = {} <=> s = <<>>
  OBVIOUS
<1>1. CASE s = <<>>
  BY <1>1 DEF ToSet
<1>2. CASE s # <<>>
  <2>1. 1 \in DOMAIN s
    BY <1>2, EmptySeq
  <2>2. QED
    BY <1>2, <2>1 DEF ToSet
<1>3. QED
  BY <1>1, <1>2

\* Where an upstream is in the slice, Remove takes it out and keeps the rest.
LEMMA RemoveFirstFound ==
    ASSUME NEW S, NEW s \in Seq(S), NEW u \in ToSet(s), Injective(s)
    PROVE  /\ RemoveFirst(s, u) \in Seq(S)
           /\ Len(RemoveFirst(s, u)) = Len(s) - 1
           /\ ToSet(RemoveFirst(s, u)) = ToSet(s) \ {u}
           /\ Injective(RemoveFirst(s, u))
<1>1. PICK k \in 1 .. Len(s) : s[k] = u
  BY DEF ToSet
<1>2. {i \in 1 .. Len(s) : s[i] = u} = {k}
  BY <1>1 DEF Injective
<1>3. Min({k}) = k
  BY <1>1 DEF Min
<1>4. RemoveFirst(s, u) = RemoveAt(s, k)
  BY <1>1, <1>2, <1>3, Zenon DEF RemoveFirst, SelectInSeq
<1> DEFINE r == RemoveAt(s, k)
<1>5. /\ r \in Seq(S)
      /\ Len(r) = Len(s) - 1
      /\ \A i \in 1 .. Len(s) - 1 : r[i] = IF i < k THEN s[i] ELSE s[i + 1]
  <2> DEFINE a == SubSeq(s, 1, k - 1)
             b == SubSeq(s, k + 1, Len(s))
  <2>1. Len(s) \in Nat /\ \A i \in 1 .. Len(s) : s[i] \in S
    BY LenProperties, ElementOfSeq
  <2>2. /\ a \in Seq(S)
        /\ Len(a) = k - 1
        /\ \A i \in 1 .. k - 1 : a[i] = s[i]
    BY <1>1, <2>1
  <2>3. /\ b \in Seq(S)
        /\ Len(b) = Len(s) - k
        /\ \A i \in 1 .. Len(s) - k : b[i] = s[k + i]
    BY <1>1, <2>1
  <2>4. r = a \o b
    BY DEF RemoveAt
  <2> HIDE DEF a, b, r
  <2>5. r \in Seq(S) /\ Len(r) = Len(s) - 1
    <3>1. r \in Seq(S) /\ Len(r) = Len(a) + Len(b)
      BY <2>2, <2>3, <2>4, ConcatProperties, Zenon
    <3>2. QED
      BY <1>1, <2>1, <2>2, <2>3, <3>1
  <2>6. ASSUME NEW i \in 1 .. Len(s) - 1
        PROVE  r[i] = IF i < k THEN s[i] ELSE s[i + 1]
    <3>1. r[i] = IF i <= Len(a) THEN a[i] ELSE b[i - Len(a)]
      BY <1>1, <2>1, <2>2, <2>3, <2>4
    <3>2. CASE i < k
      BY <1>1, <2>1, <2>2, <3>1, <3>2
    <3>3. CASE i >= k
      <4>1. i - Len(a) \in 1 .. Len(s) - k /\ k + (i - Len(a)) = i + 1 /\ ~(i <= Len(a))
        BY <1>1, <2>1, <2>2, <3>3
      <4>2. b[i - Len(a)] = s[i + 1]
        BY <2>3, <4>1, SMTT(30)
      <4>3. QED
        BY <3>1, <3>3, <4>1, <4>2
    <3>4. QED
      BY <1>1, <2>1, <3>2, <3>3
  <2>7. QED
    BY <2>5, <2>6
<1>6. ToSet(r) = ToSet(s) \ {u}
  <2>1. ASSUME NEW i \in 1 .. Len(s) - 1
        PROVE  r[i] \in ToSet(s) \ {u}
    <3>1. PICK j \in 1 .. Len(s) : j # k /\ r[i] = s[j]
      BY <1>1, <1>5
    <3>2. s[j] # u /\ s[j] \in ToSet(s)
      BY <1>1, <3>1 DEF ToSet, Injective
    <3>3. QED
      BY <3>1, <3>2
  <2>2. ASSUME NEW i \in 1 .. Len(s), i # k
        PROVE  \E j \in 1 .. Len(s) - 1 : r[j] = s[i]
    <3>1. CASE i < k
      BY <1>1, <1>5, <3>1
    <3>2. CASE i > k
      <4>1. i - 1 \in 1 .. Len(s) - 1 /\ r[i - 1] = s[i]
        BY <1>1, <1>5, <3>2
      <4>2. QED
        BY <4>1
    <3>3. QED
      BY <2>2, <3>1, <3>2
  <2>3. DOMAIN r = 1 .. Len(s) - 1 /\ DOMAIN s = 1 .. Len(s)
    BY <1>5
  <2> HIDE DEF r
  <2>4. ToSet(r) \subseteq ToSet(s) \ {u}
    BY <2>1, <2>3 DEF ToSet
  <2>5. ASSUME NEW x \in ToSet(s), x # u
        PROVE  x \in ToSet(r)
    <3>1. PICK i \in 1 .. Len(s) : s[i] = x
      BY <2>3 DEF ToSet
    <3>2. i # k
      BY <1>1, <2>5, <3>1
    <3>3. QED
      BY <2>2, <2>3, <3>1, <3>2, Zenon DEF ToSet
  <2>6. QED
    BY <2>4, <2>5
<1>7. Injective(r)
  BY <1>1, <1>5 DEF Injective
<1>8. QED
  BY <1>4, <1>5, <1>6, <1>7

\* Add keeps each upstream once and nextIndex within bounds.
LEMMA AddHolds ==
    ASSUME NEW lb \in LoadBalancer, NEW S \in SUBSET Conns, Holds(lb, S),
           NEW c \in Conns, c \notin S
    PROVE  /\ Add(lb, c) \in LoadBalancer
           /\ Add(lb, c).exists
           /\ Holds(Add(lb, c), S \cup {c})
<1> DEFINE s == lb.upstreams
           t == Append(s, c)
<1>1. s \in Seq(Conns) /\ lb.nextIndex \in Nat /\ lb.exists \in BOOLEAN
  BY DEF LoadBalancer
<1>2. /\ t \in Seq(Conns)
      /\ Len(t) = Len(s) + 1
      /\ \A i \in 1 .. Len(s) : t[i] = s[i]
      /\ t[Len(s) + 1] = c
      /\ Len(s) \in Nat
  BY <1>1
<1>3. Add(lb, c) \in LoadBalancer /\ Add(lb, c).exists /\ Add(lb, c).upstreams = t
      /\ Add(lb, c).nextIndex = lb.nextIndex
  BY <1>1, <1>2, Zenon DEF Add, LoadBalancer
<1> HIDE DEF t
<1>4. ToSet(t) = S \cup {c}
  <2>1. DOMAIN t = 1 .. Len(s) + 1 /\ DOMAIN s = 1 .. Len(s)
    BY <1>1, <1>2
  <2>2. ToSet(t) \subseteq ToSet(s) \cup {c}
    BY <1>2, <2>1 DEF ToSet
  <2>3. ToSet(s) \cup {c} \subseteq ToSet(t)
    BY <1>2, <2>1 DEF ToSet
  <2>4. QED
    BY <2>2, <2>3 DEF Holds
<1>5. Injective(t)
  <2>1. \A i \in 1 .. Len(s) : s[i] # c
    BY <1>1 DEF Holds, ToSet
  <2>2. QED
    BY <1>2, <2>1 DEF Holds, Injective
<1>6. Cardinality(S \cup {c}) = Cardinality(S) + 1
  BY UpstreamAssumption, FS_Subset, FS_AddElement
<1>7. t # <<>> /\ lb.nextIndex < Len(t)
  BY <1>1, <1>2 DEF Holds, NoLoadBalancer
<1>8. QED
  BY <1>2, <1>3, <1>4, <1>5, <1>6, <1>7 DEF Holds

\* Remove takes out the upstream, drops an empty load balancer, and keeps
\* nextIndex within bounds.
LEMMA RemoveHolds ==
    ASSUME NEW lb \in LoadBalancer, NEW S \in SUBSET Conns, Holds(lb, S), NEW c \in S
    PROVE  /\ RemoveUpstream(lb, c) \in LoadBalancer
           /\ lb.exists
           /\ Holds(RemoveUpstream(lb, c), S \ {c})
<1> DEFINE s == lb.upstreams
           t == RemoveFirst(s, c)
<1>1. s \in Seq(Conns) /\ lb.nextIndex \in Nat /\ lb.exists \in BOOLEAN
  BY DEF LoadBalancer
<1>2. /\ t \in Seq(Conns)
      /\ Len(t) = Len(s) - 1
      /\ ToSet(t) = S \ {c}
      /\ Injective(t)
  BY <1>1, RemoveFirstFound DEF Holds
<1>3. Cardinality(S \ {c}) = Cardinality(S) - 1
  BY UpstreamAssumption, FS_Subset, FS_RemoveElement
<1>4. Len(s) \in Nat /\ Len(t) \in Nat /\ t # s
  BY <1>1, <1>2
<1>5. lb.exists
  BY <1>1 DEF Holds, ToSet
<1> HIDE DEF t
<1>6. CASE t = <<>>
  <2>1. RemoveUpstream(lb, c) = NoLoadBalancer
    BY <1>4, <1>6 DEF RemoveUpstream, t
  <2>2. NoLoadBalancer \in LoadBalancer
    BY DEF NoLoadBalancer, LoadBalancer
  <2>3. QED
    BY <1>2, <1>3, <1>5, <1>6, <2>1, <2>2 DEF Holds, NoLoadBalancer
<1>7. CASE t # <<>>
  <2>1. RemoveUpstream(lb, c) =
          [lb EXCEPT !.upstreams = t, !.nextIndex = lb.nextIndex % Len(t)]
    BY <1>4, <1>7 DEF RemoveUpstream, t
  <2>2. Len(t) > 0
    BY <1>2, <1>4, <1>7
  <2>3. lb.nextIndex % Len(t) \in 0 .. Len(t) - 1
    BY <1>1, <1>4, <2>2
  <2>4. RemoveUpstream(lb, c) = [exists |-> TRUE, upstreams |-> t,
                                 nextIndex |-> lb.nextIndex % Len(t)]
    BY <1>5, <2>1, Zenon DEF LoadBalancer
  <2>5. /\ RemoveUpstream(lb, c) \in LoadBalancer
        /\ RemoveUpstream(lb, c).upstreams = t
        /\ RemoveUpstream(lb, c).exists
        /\ RemoveUpstream(lb, c).nextIndex < Len(t)
    BY <1>2, <1>4, <2>3, <2>4 DEF LoadBalancer
  <2>6. QED
    BY <1>2, <1>3, <1>5, <1>7, <2>5 DEF Holds
<1>8. QED
  BY <1>6, <1>7

\* Next returns an upstream of the load balancer and stays within bounds.
LEMMA AdvanceHolds ==
    ASSUME NEW lb \in LoadBalancer, NEW S \in SUBSET Conns, Holds(lb, S), lb.exists
    PROVE  /\ Advance(lb) \in LoadBalancer
           /\ Advance(lb).exists
           /\ Advance(lb).upstreams = lb.upstreams
           /\ Holds(Advance(lb), S)
           /\ Chosen(lb) \in S
<1>1. /\ lb.upstreams \in Seq(Conns) /\ lb.nextIndex \in Nat
      /\ Len(lb.upstreams) \in Nat \ {0}
      /\ lb.nextIndex < Len(lb.upstreams)
  BY DEF LoadBalancer, Holds
<1>2. (lb.nextIndex + 1) % Len(lb.upstreams) \in 0 .. Len(lb.upstreams) - 1
  BY <1>1
<1>3. /\ Advance(lb) \in LoadBalancer
      /\ Advance(lb).exists
      /\ Advance(lb).upstreams = lb.upstreams
      /\ Advance(lb).nextIndex < Len(lb.upstreams)
  BY <1>1, <1>2 DEF Advance, LoadBalancer
<1>4. Chosen(lb) \in ToSet(lb.upstreams)
  BY <1>1 DEF Chosen, ToSet
<1>5. QED
  BY <1>3, <1>4 DEF Holds

-----------------------------------------------------------------------------
(***************************************************************************)
(* The inductive invariant.  Each record of a connection is made at a      *)
(* different step of its handler, so each counts the connections whose     *)
(* handlers are past that step.                                            *)
(***************************************************************************)

Adding == {"add", "count add", "added", "read add", "done add"}

Removing == {"remove", "count remove", "removed", "read remove", "done"}

\* The handlers that hold the manager's mutex, and the cluster's.
Busy == Adding \cup Removing

Counting == {"count add", "count remove"}

\* The handlers of connections that are in the load balancer, ...
Balanced == Adding \cup {"open"}

\* ... in the cluster state, ...
Counted == {"added", "read add", "done add", "open", "remove", "count remove"}

\* ... in the gossip state and ...
Told == {"done add", "open", "remove", "count remove", "removed", "read remove"}

\* ... in the ConnectedUpstreams metric.
Metered == Removing \cup {"open"}

On(e) == {c \in Conns : EndpointID[c] = e}

In(p, A, D) == {c \in D : p[c] \in A}

Locked ==
    /\ mu = In(pc, Busy, Conns)
    /\ \A c, d \in mu : c = d
    /\ clusterMu = In(pc, Counting, Conns)

Known == {e \in Endpoints : lbs[e].exists}

IInv ==
    /\ TypeOK
    /\ Locked
    /\ \A e \in Endpoints :
         /\ Holds(lbs[e], In(pc, Balanced, On(e)))
         /\ endpoints[e] = Cardinality(In(pc, Counted, On(e)))
         /\ gossiped[e] = Cardinality(In(pc, Told, On(e)))
    /\ connected = Cardinality(In(pc, Metered, Conns))
    /\ IsFiniteSet(Known) /\ registered = Cardinality(Known)
    /\ \A c \in Conns :
         pc[c] \in {"read add", "read remove"} => listeners = endpoints[EndpointID[c]]

-----------------------------------------------------------------------------
(***************************************************************************)
(* Counting the connections of a set when one handler moves.               *)
(***************************************************************************)

\* The connections of a set whose handlers are at some steps can be counted.
LEMMA InFinite ==
    ASSUME NEW p, NEW A, NEW D \in SUBSET Conns
    PROVE  IsFiniteSet(In(p, A, D)) /\ Cardinality(In(p, A, D)) \in Nat
BY UpstreamAssumption, FS_Subset, FS_CardinalityType DEF In

\* The count of the connections that a move of one handler does not concern.
LEMMA InStays ==
    ASSUME NEW c \in Conns, NEW from, NEW to, TypeOK, Goto(c, from, to),
           NEW A, NEW D \in SUBSET Conns, c \notin D \/ (from \in A /\ to \in A) \/ (from \notin A /\ to \notin A)
    PROVE  In(pc', A, D) = In(pc, A, D)
BY Zenon DEF In, Goto, TypeOK

\* The count when a handler comes to one of the steps that are counted.
LEMMA InEnters ==
    ASSUME NEW c \in Conns, NEW from, NEW to, TypeOK, Goto(c, from, to),
           NEW A, NEW D \in SUBSET Conns, c \in D, from \notin A, to \in A
    PROVE  /\ In(pc', A, D) = In(pc, A, D) \cup {c}
           /\ Cardinality(In(pc', A, D)) = Cardinality(In(pc, A, D)) + 1
<1>1. In(pc', A, D) = In(pc, A, D) \cup {c} /\ c \notin In(pc, A, D)
  BY Zenon DEF In, Goto, TypeOK
<1>2. QED
  BY <1>1, InFinite, FS_AddElement, Zenon

\* The count when a handler leaves them.
LEMMA InLeaves ==
    ASSUME NEW c \in Conns, NEW from, NEW to, TypeOK, Goto(c, from, to),
           NEW A, NEW D \in SUBSET Conns, c \in D, from \in A, to \notin A
    PROVE  /\ In(pc', A, D) = In(pc, A, D) \ {c}
           /\ Cardinality(In(pc', A, D)) = Cardinality(In(pc, A, D)) - 1
<1>1. In(pc', A, D) = In(pc, A, D) \ {c} /\ c \in In(pc, A, D)
  BY Zenon DEF In, Goto, TypeOK
<1>2. IsFiniteSet(In(pc, A, D))
  BY InFinite
<1>3. Cardinality(In(pc, A, D) \ {c}) = Cardinality(In(pc, A, D)) - 1
  BY <1>1, <1>2, FS_RemoveElement, Zenon
<1>4. QED
  BY <1>1, <1>3

-----------------------------------------------------------------------------
(***************************************************************************)
(* Each step preserves the invariant.                                      *)
(***************************************************************************)

\* Every connection listens on one endpoint.
LEMMA OnConns ==
    /\ \A e \in Endpoints : On(e) \in SUBSET Conns
    /\ \A c \in Conns : EndpointID[c] \in Endpoints
    /\ \A c \in Conns, e \in Endpoints : c \in On(e) <=> e = EndpointID[c]
BY UpstreamAssumption DEF On

\* A server starts without connections.
LEMMA InitIInv == Init => IInv
<1> SUFFICES ASSUME Init PROVE IInv
  OBVIOUS
<1>1. TypeOK
  BY DEF Init, TypeOK, Handler, NoLoadBalancer
<1>2. \A A, D : D \in SUBSET Conns /\ "closed" \notin A =>
                  In(pc, A, D) = {} /\ Cardinality(In(pc, A, D)) = 0
  BY FS_EmptySet, SMTT(30) DEF Init, In
<1>3. "closed" \notin Busy \cup Counting \cup Balanced \cup Counted \cup Told \cup Metered
  BY DEF Busy, Counting, Adding, Removing, Balanced, Counted, Told, Metered
<1>4. Locked
  BY <1>2, <1>3 DEF Locked, Init
<1>5. Holds(NoLoadBalancer, {})
  BY FS_EmptySet DEF Holds, NoLoadBalancer, ToSet, Injective
<1>6. ASSUME NEW e \in Endpoints
      PROVE  /\ Holds(lbs[e], In(pc, Balanced, On(e)))
             /\ endpoints[e] = Cardinality(In(pc, Counted, On(e)))
             /\ gossiped[e] = Cardinality(In(pc, Told, On(e)))
  BY <1>2, <1>3, <1>5, OnConns, Zenon DEF Init
<1>7. connected = Cardinality(In(pc, Metered, Conns))
  BY <1>2, <1>3 DEF Init
<1>8. IsFiniteSet(Known) /\ registered = Cardinality(Known)
  <2>1. Known = {}
    BY DEF Known, Init, NoLoadBalancer
  <2>2. QED
    BY <2>1, FS_EmptySet DEF Init
<1>9. \A c \in Conns : pc[c] \notin {"read add", "read remove"}
  BY DEF Init
<1>10. QED
  BY <1>1, <1>4, <1>6, <1>7, <1>8, <1>9, Zenon DEF IInv

\* In the middle of AddConn or RemoveConn a handler is alone.
LEMMA Alone ==
    ASSUME IInv, NEW c \in Conns, pc[c] \in Busy
    PROVE  mu = {c} /\ \A d \in Conns : d # c => pc[d] \in {"closed", "open"}
<1>1. mu = {c}
  BY Zenon DEF IInv, Locked, In
<1>2. QED
  BY <1>1, Zenon DEF IInv, Locked, In, TypeOK, Handler, Busy, Adding, Removing

\* AddConn adds the connection to the load balancer, and to nothing else yet.
LEMMA AddConnIInv == \A c \in Conns : IInv /\ AddConn(c) => IInv'
<1> SUFFICES ASSUME NEW c \in Conns, IInv, AddConn(c) PROVE IInv'
  OBVIOUS
<1> DEFINE b == EndpointID[c]
<1> USE OnConns
<1>0. TypeOK /\ Goto(c, "closed", "add")
  BY Zenon DEF AddConn, IInv
<1>m. /\ "closed" \notin Busy \cup Counting \cup Balanced \cup Counted \cup Told \cup Metered
      /\ "add" \in Busy /\ "add" \in Balanced
      /\ "add" \notin Counting \cup Counted \cup Told \cup Metered
  BY DEF Busy, Counting, Adding, Removing, Balanced, Counted, Told, Metered
<1>1. /\ pc[c] = "closed" /\ pc \in [Conns -> Handler]
      /\ pc' = [pc EXCEPT ![c] = "add"] /\ "add" \in Handler
      /\ lbs \in [Endpoints -> LoadBalancer]
  BY <1>0, Zenon DEF Goto, TypeOK, Handler, LoadBalancer
<1>2. /\ lbs[b] \in LoadBalancer /\ Holds(lbs[b], In(pc, Balanced, On(b)))
      /\ In(pc, Balanced, On(b)) \in SUBSET Conns /\ c \notin In(pc, Balanced, On(b))
  BY <1>1, Zenon DEF IInv, In, Balanced, Adding
<1>3. /\ Add(lbs[b], c) \in LoadBalancer /\ Add(lbs[b], c).exists
      /\ Holds(Add(lbs[b], c), In(pc, Balanced, On(b)) \cup {c})
  BY <1>2, AddHolds, SMTT(30)
<1>4. IsFiniteSet(Known') /\ registered' = Cardinality(Known') /\ registered' \in Nat
  <2>1. Known' = Known \cup {b}
    BY <1>1, <1>3 DEF Known, AddConn
  <2>2. IsFiniteSet(Known) /\ registered = Cardinality(Known) /\ (b \in Known <=> lbs[b].exists)
    BY Zenon DEF IInv, Known
  <2>3. QED
    BY <2>1, <2>2, FS_AddElement, FS_CardinalityType DEF AddConn
<1>5. TypeOK'
  BY <1>1, <1>3, <1>4, Zenon DEF AddConn, TypeOK, IInv, LoadBalancer
<1>6. Locked'
  <2>1. In(pc', Busy, Conns) = In(pc, Busy, Conns) \cup {c}
    BY <1>0, <1>m, InEnters
  <2>2. In(pc', Counting, Conns) = In(pc, Counting, Conns)
    BY <1>0, <1>m, InStays
  <2>3. QED
    BY <2>1, <2>2, Zenon DEF Locked, IInv, AddConn
<1>7. ASSUME NEW e \in Endpoints
      PROVE  /\ Holds(lbs'[e], In(pc', Balanced, On(e)))
             /\ endpoints'[e] = Cardinality(In(pc', Counted, On(e)))
             /\ gossiped'[e] = Cardinality(In(pc', Told, On(e)))
  <2>1. In(pc', Counted, On(e)) = In(pc, Counted, On(e))
    BY <1>0, <1>m, InStays
  <2>2. In(pc', Told, On(e)) = In(pc, Told, On(e))
    BY <1>0, <1>m, InStays
  <2>3. CASE e = b
    <3>1. In(pc', Balanced, On(e)) = In(pc, Balanced, On(e)) \cup {c}
      BY <1>0, <1>m, <2>3, InEnters
    <3>2. QED
      BY <1>1, <1>3, <2>1, <2>2, <2>3, <3>1, Zenon DEF AddConn, IInv
  <2>4. CASE e # b
    <3>1. In(pc', Balanced, On(e)) = In(pc, Balanced, On(e))
      BY <1>0, <1>m, <2>4, InStays
    <3>2. QED
      BY <1>1, <2>1, <2>2, <2>4, <3>1, Zenon DEF AddConn, IInv
  <2>5. QED
    BY <2>3, <2>4
<1>8. connected' = Cardinality(In(pc', Metered, Conns))
  <2>1. In(pc', Metered, Conns) = In(pc, Metered, Conns)
    BY <1>0, <1>m, InStays
  <2>2. QED
    BY <2>1, Zenon DEF IInv, AddConn
<1>9. \A d \in Conns : pc'[d] \in {"read add", "read remove"} =>
                         listeners' = endpoints'[EndpointID[d]]
  BY <1>1, Zenon DEF IInv, AddConn
<1>10. QED
  BY <1>4, <1>5, <1>6, <1>7, <1>8, <1>9, Zenon DEF IInv, On

\* What remains of the invariant when a handler goes on in AddConn or
\* RemoveConn: the load balancers stay, and so do the other endpoints.
LEMMA HandlerIInv ==
    ASSUME IInv, NEW c \in Conns, NEW from, NEW to, Goto(c, from, to), from \in Busy,
           TypeOK', Locked', UNCHANGED <<lbs, registered>>,
           from \in Balanced <=> to \in Balanced,
           \A e \in Endpoints \ {EndpointID[c]} :
              endpoints'[e] = endpoints[e] /\ gossiped'[e] = gossiped[e],
           endpoints'[EndpointID[c]] = Cardinality(In(pc', Counted, On(EndpointID[c]))),
           gossiped'[EndpointID[c]] = Cardinality(In(pc', Told, On(EndpointID[c]))),
           connected' = Cardinality(In(pc', Metered, Conns)),
           to \in {"read add", "read remove"} => listeners' = endpoints'[EndpointID[c]]
    PROVE  IInv'
<1> USE OnConns
<1>0. TypeOK
  BY Zenon DEF IInv
<1>1. pc[c] = from /\ pc' = [pc EXCEPT ![c] = to] /\ pc \in [Conns -> Handler]
  BY <1>0, Zenon DEF TypeOK, Goto
<1>2. ASSUME NEW e \in Endpoints
      PROVE  /\ Holds(lbs'[e], In(pc', Balanced, On(e)))
             /\ endpoints'[e] = Cardinality(In(pc', Counted, On(e)))
             /\ gossiped'[e] = Cardinality(In(pc', Told, On(e)))
  <2>1. In(pc', Balanced, On(e)) = In(pc, Balanced, On(e))
    BY <1>1, Zenon DEF In, On
  <2>2. CASE e = EndpointID[c]
    BY <2>1, <2>2, Zenon DEF IInv
  <2>3. CASE e # EndpointID[c]
    <3>1. In(pc', Counted, On(e)) = In(pc, Counted, On(e))
      BY <1>1, <2>3, Zenon DEF In, On
    <3>2. In(pc', Told, On(e)) = In(pc, Told, On(e))
      BY <1>1, <2>3, Zenon DEF In, On
    <3>3. QED
      BY <2>1, <2>3, <3>1, <3>2, Zenon DEF IInv
  <2>4. QED
    BY <2>2, <2>3, Zenon
<1>3. Known' = Known
  BY Zenon DEF Known
<1>4. ASSUME NEW d \in Conns, pc'[d] \in {"read add", "read remove"}
      PROVE  listeners' = endpoints'[EndpointID[d]]
  <2>1. d = c
    BY <1>1, <1>4, Alone, Zenon
  <2>2. QED
    BY <1>1, <1>4, <2>1, Zenon
<1>5. QED
  BY <1>2, <1>3, <1>4, Zenon DEF IInv, On

\* The mutexes when a handler goes on without releasing the manager's.
LEMMA HandlerLocked ==
    ASSUME IInv, NEW c \in Conns, NEW from, NEW to, Goto(c, from, to),
           from \in Busy, to \in Busy, mu' = mu,
           clusterMu' = IF to \in Counting THEN {c} ELSE {}
    PROVE  Locked'
<1>0. TypeOK
  BY Zenon DEF IInv
<1>1. pc[c] = from /\ pc' = [pc EXCEPT ![c] = to] /\ pc \in [Conns -> Handler]
  BY <1>0, Zenon DEF TypeOK, Goto
<1>2. mu = {c} /\ \A d \in Conns : d # c => pc[d] \notin Counting
  BY <1>1, Alone, Zenon DEF Counting
<1>3. In(pc', Busy, Conns) = In(pc, Busy, Conns)
  BY <1>1 DEF In, On
<1>4. In(pc', Counting, Conns) = IF to \in Counting THEN {c} ELSE {}
  BY <1>1, <1>2 DEF In
<1>5. QED
  BY <1>2, <1>3, <1>4, Zenon DEF IInv, Locked

\* The cluster's mutex is taken.
LEMMA LockClusterIInv == \A c \in Conns : IInv /\ LockCluster(c) => IInv'
<1> SUFFICES ASSUME NEW c \in Conns, IInv, LockCluster(c) PROVE IInv'
  OBVIOUS
<1> USE OnConns
<1>1. PICK from, to : /\ Goto(c, from, to)
                      /\ \/ from = "add" /\ to = "count add"
                         \/ from = "remove" /\ to = "count remove"
  BY Zenon DEF LockCluster
<1>2. /\ from \in Busy /\ to \in Busy /\ to \in Counting /\ to \in Handler
      /\ from \in Balanced <=> to \in Balanced
      /\ from \in Counted <=> to \in Counted
      /\ from \in Told <=> to \in Told
      /\ from \in Metered <=> to \in Metered
      /\ to \notin {"read add", "read remove"}
  BY <1>1, Zenon DEF Handler, Busy, Counting, Adding, Removing, Balanced,
     Counted, Told, Metered
<1>0. Goto(c, from, to) /\ TypeOK
  BY <1>1, Zenon DEF IInv
<1>e. pc[c] = from /\ pc' = [pc EXCEPT ![c] = to] /\ pc \in [Conns -> Handler]
  BY <1>0, Zenon DEF TypeOK, Goto
<1>3. TypeOK'
  BY <1>0, <1>2, Zenon DEF TypeOK, LockCluster, Goto, counts
<1>4. Locked'
  BY <1>0, <1>2, HandlerLocked, Zenon DEF LockCluster
<1>5. In(pc', Counted, On(EndpointID[c])) = In(pc, Counted, On(EndpointID[c]))
  BY <1>2, <1>e, Zenon DEF In, On
<1>6. In(pc', Told, On(EndpointID[c])) = In(pc, Told, On(EndpointID[c]))
  BY <1>2, <1>e, Zenon DEF In, On
<1>7. In(pc', Metered, Conns) = In(pc, Metered, Conns)
  BY <1>2, <1>e, Zenon DEF In, On
<1>8. /\ endpoints' = endpoints /\ gossiped' = gossiped /\ connected' = connected
      /\ UNCHANGED <<lbs, registered>>
  BY Zenon DEF LockCluster, counts
<1>9. /\ endpoints[EndpointID[c]] = Cardinality(In(pc, Counted, On(EndpointID[c])))
      /\ gossiped[EndpointID[c]] = Cardinality(In(pc, Told, On(EndpointID[c])))
      /\ connected = Cardinality(In(pc, Metered, Conns))
  BY Zenon DEF IInv
<1>10. QED
  BY <1>0, <1>2, <1>3, <1>4, <1>5, <1>6, <1>7, <1>8, <1>9, HandlerIInv, Zenon

\* AddLocalEndpoint counts the connection in the cluster state.
LEMMA AddLocalEndpointIInv == \A c \in Conns : IInv /\ AddLocalEndpoint(c) => IInv'
<1> SUFFICES ASSUME NEW c \in Conns, IInv, AddLocalEndpoint(c) PROVE IInv'
  OBVIOUS
<1> DEFINE b == EndpointID[c]
<1>0. b \in Endpoints /\ On(b) \in SUBSET Conns /\ c \in On(b)
  BY OnConns
<1>1. Goto(c, "count add", "added") /\ TypeOK
  BY Zenon DEF IInv, AddLocalEndpoint
<1>2. /\ "count add" \in Busy /\ "added" \in Busy /\ "added" \notin Counting
      /\ "count add" \in Balanced /\ "added" \in Balanced
      /\ "count add" \notin Counted /\ "added" \in Counted
      /\ "count add" \notin Told \cup Metered /\ "added" \notin Told \cup Metered
      /\ "added" \in Handler
  BY DEF Handler, Busy, Counting, Adding, Removing, Balanced,
     Counted, Told, Metered
<1>3. pc[c] = "count add" /\ pc' = [pc EXCEPT ![c] = "added"] /\ pc \in [Conns -> Handler]
  BY <1>1, Zenon DEF TypeOK, Goto
<1>4. TypeOK'
  <2>1. endpoints' \in [Endpoints -> Nat]
    <3>1. /\ endpoints \in [Endpoints -> Nat] /\ b \in Endpoints
          /\ endpoints' = [endpoints EXCEPT ![b] = endpoints[b] + 1]
      BY <1>0, <1>1, Zenon DEF TypeOK, AddLocalEndpoint
    <3>2. endpoints[b] + 1 \in Nat
      BY <3>1
    <3>3. QED
      BY <3>1, <3>2
  <2>2. pc' \in [Conns -> Handler]
    BY <1>2, <1>3, Zenon
  <2>3. QED
    BY <1>1, <2>1, <2>2, Zenon DEF TypeOK, AddLocalEndpoint, counts
<1>5. Locked'
  BY <1>1, <1>2, HandlerLocked, Zenon DEF AddLocalEndpoint
<1>6. Cardinality(In(pc', Counted, On(b))) = Cardinality(In(pc, Counted, On(b))) + 1
  <2>1. /\ In(pc', Counted, On(b)) = In(pc, Counted, On(b)) \cup {c}
        /\ c \notin In(pc, Counted, On(b))
    BY <1>0, <1>2, <1>3, Zenon DEF In
  <2>2. IsFiniteSet(In(pc, Counted, On(b)))
    BY <1>0, InFinite
  <2>3. QED
    BY <2>1, <2>2, FS_AddElement
<1>7. In(pc', Told, On(b)) = In(pc, Told, On(b)) /\ In(pc', Metered, Conns) = In(pc, Metered, Conns)
  BY <1>2, <1>3, Zenon DEF In, On
<1>8. /\ endpoints'[b] = endpoints[b] + 1
      /\ \A e \in Endpoints \ {b} : endpoints'[e] = endpoints[e]
      /\ gossiped' = gossiped /\ connected' = connected
      /\ UNCHANGED <<lbs, registered>>
  BY <1>0, <1>1, Zenon DEF AddLocalEndpoint, TypeOK, counts
<1>9. /\ endpoints[b] = Cardinality(In(pc, Counted, On(b)))
      /\ gossiped[b] = Cardinality(In(pc, Told, On(b)))
      /\ connected = Cardinality(In(pc, Metered, Conns))
  BY <1>0, Zenon DEF IInv
<1>10. QED
  BY <1>1, <1>2, <1>4, <1>5, <1>6, <1>7, <1>8, <1>9, HandlerIInv, Zenon

\* The endpoint is found: the cluster state counts the connection itself.
LEMMA RemoveLocalEndpointIInv == \A c \in Conns : IInv /\ RemoveLocalEndpoint(c) => IInv'
<1> SUFFICES ASSUME NEW c \in Conns, IInv, RemoveLocalEndpoint(c) PROVE IInv'
  OBVIOUS
<1> DEFINE b == EndpointID[c]
<1>0. b \in Endpoints /\ On(b) \in SUBSET Conns /\ c \in On(b)
  BY OnConns
<1>1. TypeOK /\ pc[c] = "count remove" /\ endpoints[b] \in Nat
  BY <1>0, Zenon DEF IInv, TypeOK, RemoveLocalEndpoint, Goto
<1>2. /\ "count remove" \in Busy /\ "removed" \in Busy /\ "removed" \notin Counting
      /\ "count remove" \notin Balanced /\ "removed" \notin Balanced
      /\ "count remove" \in Counted /\ "removed" \notin Counted
      /\ "count remove" \in Told /\ "removed" \in Told
      /\ "count remove" \in Metered /\ "removed" \in Metered
      /\ "removed" \in Handler
  BY DEF Handler, Busy, Counting, Adding, Removing, Balanced,
     Counted, Told, Metered
<1>3. endpoints[b] # 0
  <2>1. c \in In(pc, Counted, On(b)) /\ IsFiniteSet(In(pc, Counted, On(b)))
    <3>2. IsFiniteSet(In(pc, Counted, On(b)))
      BY <1>0, InFinite
    <3>3. QED
      BY <1>0, <1>1, <1>2, <3>2, Zenon DEF In
  <2>2. Cardinality(In(pc, Counted, On(b))) # 0
    BY <2>1, FS_EmptySet
  <2>3. QED
    BY <1>0, <2>2, Zenon DEF IInv
<1>4. Goto(c, "count remove", "removed")
  BY <1>3, Zenon DEF RemoveLocalEndpoint
<1>5. pc' = [pc EXCEPT ![c] = "removed"] /\ pc \in [Conns -> Handler]
  BY <1>1, <1>4, Zenon DEF TypeOK, Goto
<1>6. /\ endpoints'[b] = endpoints[b] - 1
      /\ \A e \in Endpoints \ {b} : endpoints'[e] = endpoints[e]
      /\ gossiped' = gossiped /\ connected' = connected
      /\ UNCHANGED <<lbs, registered>>
  BY <1>0, <1>1, <1>3, Zenon DEF RemoveLocalEndpoint, TypeOK, counts
<1>7. TypeOK'
  <2>1. endpoints' \in [Endpoints -> Nat]
    <3>1. /\ endpoints \in [Endpoints -> Nat] /\ b \in Endpoints
          /\ endpoints' = [endpoints EXCEPT ![b] = endpoints[b] - 1]
      BY <1>0, <1>1, <1>3, Zenon DEF TypeOK, RemoveLocalEndpoint
    <3>2. \A n \in Nat : n # 0 => n - 1 \in Nat
      OBVIOUS
    <3>3. endpoints[b] - 1 \in Nat
      BY <1>1, <1>3, <3>2, Zenon
    <3>4. QED
      BY <3>1, <3>3
  <2>2. pc' \in [Conns -> Handler]
    BY <1>2, <1>5, Zenon
  <2>3. QED
    BY <1>1, <2>1, <2>2, Zenon DEF TypeOK, RemoveLocalEndpoint, counts
<1>8. Locked'
  BY <1>2, <1>4, HandlerLocked, Zenon DEF RemoveLocalEndpoint
<1>9. Cardinality(In(pc', Counted, On(b))) = Cardinality(In(pc, Counted, On(b))) - 1
  <2>1. /\ In(pc', Counted, On(b)) = In(pc, Counted, On(b)) \ {c}
        /\ c \in In(pc, Counted, On(b))
    BY <1>0, <1>1, <1>2, <1>5, Zenon DEF In
  <2>2. IsFiniteSet(In(pc, Counted, On(b)))
    BY <1>0, InFinite
  <2>3. QED
    BY <2>1, <2>2, FS_RemoveElement, Zenon
<1>10. In(pc', Told, On(b)) = In(pc, Told, On(b)) /\ In(pc', Metered, Conns) = In(pc, Metered, Conns)
  BY <1>1, <1>2, <1>5, Zenon DEF In, On
<1>11. /\ endpoints[b] = Cardinality(In(pc, Counted, On(b)))
       /\ gossiped[b] = Cardinality(In(pc, Told, On(b)))
       /\ connected = Cardinality(In(pc, Metered, Conns))
  BY <1>0, Zenon DEF IInv
<1>12. QED
  BY <1>2, <1>4, <1>6, <1>7, <1>8, <1>9, <1>10, <1>11, HandlerIInv, Zenon

\* The subscriber reads the count while nobody else can change it.
LEMMA LocalEndpointListenersIInv ==
    \A c \in Conns : IInv /\ LocalEndpointListeners(c) => IInv'
<1> SUFFICES ASSUME NEW c \in Conns, IInv, LocalEndpointListeners(c) PROVE IInv'
  OBVIOUS
<1> USE OnConns
<1> DEFINE b == EndpointID[c]
<1>1. PICK from, to : /\ Goto(c, from, to)
                      /\ \/ from = "added" /\ to = "read add"
                         \/ from = "removed" /\ to = "read remove"
  BY Zenon DEF LocalEndpointListeners
<1>2. /\ from \in Busy /\ to \in Busy /\ to \notin Counting /\ to \in Handler
      /\ from \in Balanced <=> to \in Balanced
      /\ from \in Counted <=> to \in Counted
      /\ from \in Told <=> to \in Told
      /\ from \in Metered <=> to \in Metered
  BY <1>1, Zenon DEF Handler, Busy, Counting, Adding, Removing, Balanced,
     Counted, Told, Metered
<1>3. Goto(c, from, to) /\ TypeOK
  BY <1>1, Zenon DEF IInv
<1>4. pc[c] = from /\ pc' = [pc EXCEPT ![c] = to] /\ pc \in [Conns -> Handler]
  BY <1>3, Zenon DEF TypeOK, Goto
<1>5. TypeOK'
  BY <1>2, <1>3, <1>4, Zenon DEF TypeOK, LocalEndpointListeners, counts
<1>6. Locked'
  BY <1>2, <1>3, HandlerLocked, Zenon DEF LocalEndpointListeners
<1>7. In(pc', Counted, On(b)) = In(pc, Counted, On(b))
  BY <1>2, <1>4 DEF In, On
<1>8. In(pc', Told, On(b)) = In(pc, Told, On(b))
  BY <1>2, <1>4 DEF In, On
<1>9. In(pc', Metered, Conns) = In(pc, Metered, Conns)
  BY <1>2, <1>4 DEF In
<1>10. /\ endpoints' = endpoints /\ gossiped' = gossiped /\ connected' = connected
       /\ UNCHANGED <<lbs, registered>> /\ listeners' = endpoints[b]
  BY Zenon DEF LocalEndpointListeners, counts
<1>11. /\ endpoints[b] = Cardinality(In(pc, Counted, On(b)))
       /\ gossiped[b] = Cardinality(In(pc, Told, On(b)))
       /\ connected = Cardinality(In(pc, Metered, Conns))
  BY Zenon DEF IInv
<1>12. QED
  BY <1>2, <1>3, <1>5, <1>6, <1>7, <1>8, <1>9, <1>10, <1>11, HandlerIInv, Zenon

\* The count that was read back is that of the connections to be told of.
LEMMA onLocalEndpointUpdateIInv ==
    \A c \in Conns : IInv /\ onLocalEndpointUpdate(c) => IInv'
<1> SUFFICES ASSUME NEW c \in Conns, IInv, onLocalEndpointUpdate(c) PROVE IInv'
  OBVIOUS
<1> USE OnConns
<1> DEFINE b == EndpointID[c]
<1>1. PICK from, to : /\ Goto(c, from, to)
                      /\ \/ from = "read add" /\ to = "done add"
                         \/ from = "read remove" /\ to = "done"
  BY Zenon DEF onLocalEndpointUpdate
<1>2. /\ from \in Busy /\ to \in Busy /\ to \notin Counting /\ to \in Handler
      /\ from \notin Counting /\ to \notin {"read add", "read remove"}
      /\ from \in Balanced <=> to \in Balanced
      /\ from \in Counted <=> to \in Counted
      /\ from \in Counted <=> to \in Told
      /\ from \in Metered <=> to \in Metered
      /\ from \in {"read add", "read remove"}
      /\ "open" \in Counted /\ "open" \in Told
      /\ "closed" \notin Counted /\ "closed" \notin Told
  BY <1>1, Zenon DEF Handler, Busy, Counting, Adding, Removing, Balanced,
     Counted, Told, Metered
<1>3. Goto(c, from, to) /\ TypeOK
  BY <1>1, Zenon DEF IInv
<1>4. pc[c] = from /\ pc' = [pc EXCEPT ![c] = to] /\ pc \in [Conns -> Handler]
  BY <1>3, Zenon DEF TypeOK, Goto
<1>5. \A d \in Conns : d # c => pc[d] \in {"closed", "open"}
  BY <1>2, <1>4, Alone, Zenon
<1>6. TypeOK'
  BY <1>2, <1>3, <1>4, Zenon DEF TypeOK, onLocalEndpointUpdate, counts
<1>7. Locked'
  <2>1. clusterMu = {}
    BY <1>2, <1>4, <1>5, Zenon DEF IInv, Locked, In, Counting
  <2>2. QED
    BY <1>2, <1>3, <2>1, HandlerLocked, Zenon DEF onLocalEndpointUpdate
<1>8. In(pc', Counted, On(b)) = In(pc, Counted, On(b))
  BY <1>2, <1>4, Zenon DEF In, On
<1>9. In(pc', Told, On(b)) = In(pc, Counted, On(b))
  <2>1. ASSUME NEW d \in Conns
        PROVE  pc'[d] \in Told <=> pc[d] \in Counted
    BY <1>2, <1>4, <1>5, Zenon
  <2>2. QED
    BY <2>1 DEF In, On
<1>10. In(pc', Metered, Conns) = In(pc, Metered, Conns)
  BY <1>2, <1>4, Zenon DEF In
<1>11. /\ endpoints' = endpoints /\ connected' = connected
       /\ gossiped'[b] = listeners
       /\ \A e \in Endpoints \ {b} : gossiped'[e] = gossiped[e]
       /\ UNCHANGED <<lbs, registered>>
  BY <1>3, Zenon DEF onLocalEndpointUpdate, counts, TypeOK
<1>12. /\ endpoints[b] = Cardinality(In(pc, Counted, On(b)))
       /\ connected = Cardinality(In(pc, Metered, Conns))
       /\ listeners = endpoints[b]
  BY <1>2, <1>4, Zenon DEF IInv
<1>13. QED
  BY <1>2, <1>3, <1>6, <1>7, <1>8, <1>9, <1>10, <1>11, <1>12, HandlerIInv, Zenon

\* The manager's mutex is released and the metric changed.
LEMMA UnlockIInv == \A c \in Conns : IInv /\ Unlock(c) => IInv'
<1> SUFFICES ASSUME NEW c \in Conns, IInv, Unlock(c) PROVE IInv'
  OBVIOUS
<1> DEFINE b == EndpointID[c]
<1>0. b \in Endpoints /\ On(b) \in SUBSET Conns /\ c \in On(b)
  BY OnConns
<1>1. PICK from, to :
        /\ Goto(c, from, to)
        /\ \/ from = "done add" /\ to = "open" /\ connected' = connected + 1
           \/ from = "done" /\ to = "closed" /\ connected' = connected - 1
  BY Zenon DEF Unlock
<1>2. /\ from \in Busy /\ to \notin Busy /\ to \in Handler
      /\ from \notin Counting /\ to \notin Counting
      /\ from \in Balanced <=> to \in Balanced
      /\ from \in Counted <=> to \in Counted
      /\ from \in Told <=> to \in Told
      /\ to \notin {"read add", "read remove"}
      /\ \/ from \notin Metered /\ to \in Metered /\ connected' = connected + 1
         \/ from \in Metered /\ to \notin Metered /\ connected' = connected - 1
  BY <1>1, Zenon DEF Handler, Busy, Counting, Adding, Removing, Balanced,
     Counted, Told, Metered
<1>3. Goto(c, from, to) /\ TypeOK
  BY <1>1, Zenon DEF IInv
<1>4. pc[c] = from /\ pc' = [pc EXCEPT ![c] = to] /\ pc \in [Conns -> Handler]
  BY <1>3, Zenon DEF TypeOK, Goto
<1>5. connected' = Cardinality(In(pc', Metered, Conns))
  <2>1. connected = Cardinality(In(pc, Metered, Conns)) /\ IsFiniteSet(In(pc, Metered, Conns))
    BY InFinite, Zenon DEF IInv
  <2>2. CASE from \notin Metered /\ to \in Metered /\ connected' = connected + 1
    <3>1. /\ In(pc', Metered, Conns) = In(pc, Metered, Conns) \cup {c}
          /\ c \notin In(pc, Metered, Conns)
      BY <1>4, <2>2 DEF In
    <3>2. QED
      BY <2>1, <2>2, <3>1, FS_AddElement
  <2>3. CASE from \in Metered /\ to \notin Metered /\ connected' = connected - 1
    <3>1. /\ In(pc', Metered, Conns) = In(pc, Metered, Conns) \ {c}
          /\ c \in In(pc, Metered, Conns)
      BY <1>4, <2>3 DEF In
    <3>2. QED
      BY <2>1, <2>3, <3>1, FS_RemoveElement, Zenon
  <2>4. QED
    BY <1>2, <2>2, <2>3, Zenon
<1>6. TypeOK'
  <2>1. connected' \in Nat
    BY <1>5, InFinite
  <2>2. pc' \in [Conns -> Handler]
    BY <1>2, <1>4, Zenon
  <2>3. QED
    BY <1>3, <2>1, <2>2, Zenon DEF TypeOK, Unlock
<1>7. Locked'
  <2>1. In(pc', Busy, Conns) = In(pc, Busy, Conns) \ {c}
    BY <1>2, <1>4, Zenon DEF In
  <2>2. In(pc', Counting, Conns) = In(pc, Counting, Conns)
    BY <1>2, <1>4, Zenon DEF In
  <2>3. QED
    BY <2>1, <2>2, Zenon DEF IInv, Locked, Unlock
<1>8. In(pc', Counted, On(b)) = In(pc, Counted, On(b))
  BY <1>0, <1>2, <1>4, Zenon DEF In
<1>9. In(pc', Told, On(b)) = In(pc, Told, On(b))
  BY <1>0, <1>2, <1>4, Zenon DEF In
<1>10. /\ endpoints' = endpoints /\ gossiped' = gossiped
       /\ UNCHANGED <<lbs, registered>>
  BY Zenon DEF Unlock
<1>11. /\ endpoints[b] = Cardinality(In(pc, Counted, On(b)))
       /\ gossiped[b] = Cardinality(In(pc, Told, On(b)))
  BY <1>0, Zenon DEF IInv
<1>12. QED
  BY <1>2, <1>3, <1>5, <1>6, <1>7, <1>8, <1>9, <1>10, <1>11, HandlerIInv, Zenon

\* The load balancer is found: it has the connection itself.
LEMMA RemoveConnIInv == \A c \in Conns : IInv /\ RemoveConn(c) => IInv'
<1> SUFFICES ASSUME NEW c \in Conns, IInv, RemoveConn(c) PROVE IInv'
  OBVIOUS
<1> DEFINE b == EndpointID[c]
<1> USE OnConns
<1>0. TypeOK /\ pc[c] = "open"
  BY Zenon DEF RemoveConn, IInv, Goto
<1>m. /\ "open" \notin Busy \cup Counting /\ "open" \in Balanced
      /\ "open" \in Counted /\ "open" \in Told /\ "open" \in Metered
      /\ "remove" \in Busy /\ "remove" \notin Counting /\ "remove" \notin Balanced
      /\ "remove" \in Counted /\ "remove" \in Told /\ "remove" \in Metered
      /\ "remove" \in Handler
  BY DEF Handler, Busy, Counting, Adding, Removing, Balanced,
     Counted, Told, Metered
<1>1. /\ lbs \in [Endpoints -> LoadBalancer] /\ b \in Endpoints
      /\ pc \in [Conns -> Handler]
  BY <1>0, Zenon DEF TypeOK, LoadBalancer
<1>2. /\ lbs[b] \in LoadBalancer /\ Holds(lbs[b], In(pc, Balanced, On(b)))
      /\ In(pc, Balanced, On(b)) \in SUBSET Conns /\ c \in In(pc, Balanced, On(b))
  BY <1>0, <1>1, <1>m, Zenon DEF IInv, In
<1> DEFINE lb == RemoveUpstream(lbs[b], c)
<1>3. /\ lb \in LoadBalancer /\ lbs[b].exists
      /\ Holds(lb, In(pc, Balanced, On(b)) \ {c})
  BY <1>2, RemoveHolds
<1>4. /\ pc' = [pc EXCEPT ![c] = "remove"] /\ mu = {} /\ mu' = {c}
      /\ lbs' = [lbs EXCEPT ![b] = lb]
      /\ registered' = registered - IF ~lb.exists THEN 1 ELSE 0
      /\ UNCHANGED <<clusterMu, gossip, endpoints, remote, listeners, gossiped,
                     connected, selected>>
  BY <1>3 DEF RemoveConn, Goto
<1> HIDE DEF lb
<1>5. IsFiniteSet(Known') /\ registered' = Cardinality(Known') /\ registered' \in Nat
  <2>1. IsFiniteSet(Known) /\ registered = Cardinality(Known) /\ b \in Known
    BY <1>1, <1>3, Zenon DEF IInv, Known
  <2>2. CASE lb.exists
    <3>1. Known' = Known
      BY <1>1, <1>3, <1>4, <2>2 DEF Known
    <3>2. QED
      BY <1>4, <2>1, <2>2, <3>1, FS_CardinalityType
  <2>3. CASE ~lb.exists
    <3>1. Known' = Known \ {b}
      BY <1>1, <1>4, <2>3 DEF Known
    <3>2. IsFiniteSet(Known') /\ Cardinality(Known') = Cardinality(Known) - 1
      BY <2>1, <3>1, FS_RemoveElement, Zenon
    <3>3. QED
      BY <1>4, <2>1, <2>3, <3>2, FS_CardinalityType
  <2>4. QED
    BY <2>2, <2>3
<1>6. TypeOK'
  <2>1. lbs' \in [Endpoints -> LoadBalancer]
    BY <1>1, <1>3, <1>4
  <2>2. pc' \in [Conns -> Handler]
    BY <1>1, <1>m, <1>4
  <2>3. QED
    BY <1>0, <1>4, <1>5, <2>1, <2>2, Zenon DEF TypeOK, LoadBalancer
<1>7. Locked'
  <2>1. In(pc', Busy, Conns) = In(pc, Busy, Conns) \cup {c}
    BY <1>0, <1>1, <1>m, <1>4 DEF In
  <2>2. In(pc', Counting, Conns) = In(pc, Counting, Conns)
    BY <1>0, <1>1, <1>m, <1>4, SMTT(30) DEF In
  <2>3. QED
    BY <1>4, <2>1, <2>2, Zenon DEF Locked, IInv
<1>8. ASSUME NEW e \in Endpoints
      PROVE  /\ Holds(lbs'[e], In(pc', Balanced, On(e)))
             /\ endpoints'[e] = Cardinality(In(pc', Counted, On(e)))
             /\ gossiped'[e] = Cardinality(In(pc', Told, On(e)))
  <2>1. In(pc', Counted, On(e)) = In(pc, Counted, On(e))
    BY <1>0, <1>1, <1>m, <1>4 DEF In, On
  <2>2. In(pc', Told, On(e)) = In(pc, Told, On(e))
    BY <1>0, <1>1, <1>m, <1>4 DEF In, On
  <2>3. CASE e = b
    <3>1. In(pc', Balanced, On(e)) = In(pc, Balanced, On(e)) \ {c}
      BY <1>0, <1>1, <1>m, <1>4, <2>3 DEF In, On
    <3>2. QED
      BY <1>1, <1>3, <1>4, <2>1, <2>2, <2>3, <3>1, Zenon DEF IInv
  <2>4. CASE e # b
    <3>1. In(pc', Balanced, On(e)) = In(pc, Balanced, On(e))
      BY <1>0, <1>1, <1>m, <1>4, <2>4 DEF In, On
    <3>2. QED
      BY <1>1, <1>4, <2>1, <2>2, <2>4, <3>1, Zenon DEF IInv
  <2>5. QED
    BY <2>3, <2>4
<1>9. connected' = Cardinality(In(pc', Metered, Conns))
  <2>1. In(pc', Metered, Conns) = In(pc, Metered, Conns)
    BY <1>0, <1>1, <1>m, <1>4 DEF In
  <2>2. QED
    BY <1>4, <2>1, Zenon DEF IInv
<1>10. \A d \in Conns : pc'[d] \in {"read add", "read remove"} =>
                          listeners' = endpoints'[EndpointID[d]]
  BY <1>1, <1>4, Zenon DEF IInv
<1>11. QED
  BY <1>5, <1>6, <1>7, <1>8, <1>9, <1>10, Zenon DEF IInv, On

\* Select moves nextIndex, within bounds.
LEMMA SelectLocalIInv == \A e \in Endpoints : IInv /\ SelectLocal(e) => IInv'
<1> SUFFICES ASSUME NEW e \in Endpoints, IInv, SelectLocal(e) PROVE IInv'
  OBVIOUS
<1> USE OnConns
<1> DEFINE lb == Advance(lbs[e])
<1>1. TypeOK /\ lbs \in [Endpoints -> LoadBalancer]
  BY Zenon DEF IInv, TypeOK, LoadBalancer
<1>2. /\ lbs[e] \in LoadBalancer /\ Holds(lbs[e], In(pc, Balanced, On(e)))
      /\ In(pc, Balanced, On(e)) \in SUBSET Conns /\ lbs[e].exists
  BY <1>1, Zenon DEF IInv, In, SelectLocal
<1>3. /\ lb \in LoadBalancer /\ lb.exists /\ Holds(lb, In(pc, Balanced, On(e)))
      /\ Chosen(lbs[e]) \in Conns
  BY <1>2, AdvanceHolds
<1>4. /\ lbs' = [lbs EXCEPT ![e] = lb]
      /\ selected' = [selected EXCEPT ![e] = {Chosen(lbs[e])}]
      /\ UNCHANGED <<pc, mu, clusterMu, gossip, endpoints, remote, listeners, gossiped,
                     registered, connected>>
  BY DEF SelectLocal, counts
<1> HIDE DEF lb
<1>5. TypeOK'
  <2>1. lbs' \in [Endpoints -> LoadBalancer]
    BY <1>1, <1>3, <1>4
  <2>2. selected' \in [Endpoints -> SUBSET (Conns \cup {Remote})]
    BY <1>1, <1>3, <1>4, Zenon DEF TypeOK
  <2>3. QED
    BY <1>1, <1>4, <2>1, <2>2, Zenon DEF TypeOK, LoadBalancer
<1>6. Known' = Known
  BY <1>1, <1>2, <1>3, <1>4 DEF Known
<1>7. ASSUME NEW d \in Endpoints
      PROVE  Holds(lbs'[d], In(pc, Balanced, On(d)))
  BY <1>1, <1>3, <1>4, Zenon DEF IInv
<1>8. Locked'
  BY <1>4, Zenon DEF IInv, Locked
<1>9. QED
  BY <1>4, <1>5, <1>6, <1>7, <1>8, Zenon DEF IInv, On

\* The steps that leave the handlers and their records alone.
LEMMA OtherIInv ==
    ASSUME IInv, TypeOK',
           UNCHANGED <<pc, mu, clusterMu, lbs, endpoints, listeners, gossiped,
                       registered, connected>>
    PROVE  IInv'
<1>1. Known' = Known
  BY DEF Known
<1>2. QED
  BY <1>1, Zenon DEF IInv, Locked, On

\* The inductive invariant is kept by every step.
LEMMA NextIInv == IInv /\ [Next]_vars => IInv'
<1> SUFFICES ASSUME IInv, [Next]_vars PROVE IInv'
  OBVIOUS
<1>1. TypeOK
  BY Zenon DEF IInv
<1>2. ASSUME NEW c \in Conns, AddConn(c) \/ RemoveConn(c) \/ Proceed(c)
      PROVE  IInv'
  BY SMTT(30), <1>2, AddConnIInv, RemoveConnIInv, LockClusterIInv, AddLocalEndpointIInv,
     RemoveLocalEndpointIInv, LocalEndpointListenersIInv, onLocalEndpointUpdateIInv,
     UnlockIInv DEF Proceed
<1>3. ASSUME NEW e \in Endpoints, SelectRemote(e)
      PROVE  IInv'
  <2>1. selected' \in [Endpoints -> SUBSET (Conns \cup {Remote})]
    BY <1>1, <1>3, Zenon DEF SelectRemote, TypeOK
  <2>2. TypeOK'
    BY <1>1, <1>3, <2>1, Zenon DEF SelectRemote, TypeOK, counts
  <2>3. QED
    BY <1>3, <2>2, OtherIInv DEF SelectRemote, counts
<1>4. CASE ApplyDelta
  BY <1>1, <1>4, OtherIInv DEF ApplyDelta, TypeOK, counts
<1>5. CASE LockSyncer
  BY <1>1, <1>5, OtherIInv, Zenon DEF LockSyncer, TypeOK, counts
<1>6. CASE UpdateCluster
  BY <1>1, <1>6, OtherIInv, UpstreamAssumption, Zenon
     DEF UpdateCluster, TypeOK, counts
<1>7. CASE UNCHANGED vars
  BY <1>1, <1>7, OtherIInv, Zenon DEF vars, TypeOK, counts
<1>8. QED
  BY <1>2, <1>3, <1>4, <1>5, <1>6, <1>7, SelectLocalIInv DEF Next

-----------------------------------------------------------------------------
(***************************************************************************)
(* Every step of a handler, of a request or of gossip is a step of the     *)
(* registry, or leaves it alone.                                           *)
(***************************************************************************)

\* What the registry has registered is what the load balancers hold.
LEMMA MembersBalanced ==
    IInv => \A e \in Endpoints : ToSet(lbs[e].upstreams) = In(pc, Balanced, On(e))
BY Zenon DEF IInv, Holds

\* Registry has its own instance of FiniteSets.
LEMMA SameCardinality == \A S : R!Cardinality(S) = Cardinality(S)
BY DEF R!Cardinality, Cardinality

\* While no handler holds the mutex, the registry is settled.
LEMMA IdleSettled == IInv /\ mu = {} => R!Settled
<1> SUFFICES ASSUME IInv, mu = {}, NEW e \in Endpoints
             PROVE  gossiped[e] = Cardinality(ToSet(lbs[e].upstreams))
  BY SameCardinality DEF R!Settled
<1>1. \A c \in Conns : pc[c] \in {"open", "closed"}
  BY Zenon DEF IInv, Locked, In, TypeOK, Handler, Busy, Adding, Removing
<1>2. "open" \in Balanced /\ "open" \in Told /\ "closed" \notin Balanced \cup Told
  BY DEF Adding, Balanced, Told
<1>3. In(pc, Balanced, On(e)) = In(pc, Told, On(e))
  BY <1>1, <1>2 DEF In, On
<1>4. QED
  BY <1>3, MembersBalanced, Zenon DEF IInv

\* AddConn is the registration.
LEMMA AddConnRegisters == \A c \in Conns : IInv /\ AddConn(c) => R!Register(c)
<1> SUFFICES ASSUME NEW c \in Conns, IInv, AddConn(c) PROVE R!Register(c)
  OBVIOUS
<1> DEFINE b == EndpointID[c]
           members == [e \in Endpoints |-> ToSet(lbs[e].upstreams)]
<1>1. b \in Endpoints /\ pc[c] = "closed" /\ "closed" \notin Balanced
  BY OnConns DEF AddConn, Goto, Adding, Balanced
<1>2. R!Settled
  BY IdleSettled DEF AddConn
<1>3. lbs[b] \in LoadBalancer /\ lbs \in [Endpoints -> LoadBalancer]
  BY <1>1, Zenon DEF IInv, TypeOK, LoadBalancer
<1>4. /\ In(pc, Balanced, On(b)) \in SUBSET Conns /\ c \notin In(pc, Balanced, On(b))
      /\ Holds(lbs[b], In(pc, Balanced, On(b)))
  BY <1>1, OnConns, Zenon DEF IInv, In
<1>5. /\ ToSet(lbs[b].upstreams) = In(pc, Balanced, On(b))
      /\ ToSet(Add(lbs[b], c).upstreams) = ToSet(lbs[b].upstreams) \cup {c}
  <2>1. Holds(Add(lbs[b], c), In(pc, Balanced, On(b)) \cup {c})
    BY <1>3, <1>4, AddHolds
  <2>2. QED
    BY <1>4, <2>1, Zenon DEF Holds
<1>6. members' = [members EXCEPT ![b] = @ \cup {c}]
  BY <1>1, <1>3, <1>5, Zenon DEF AddConn
<1>7. QED
  BY <1>1, <1>2, <1>4, <1>5, <1>6 DEF R!Register, AddConn

\* RemoveConn is its end.
LEMMA RemoveConnDeregisters == \A c \in Conns : IInv /\ RemoveConn(c) => R!Deregister(c)
<1> SUFFICES ASSUME NEW c \in Conns, IInv, RemoveConn(c) PROVE R!Deregister(c)
  OBVIOUS
<1> DEFINE b == EndpointID[c]
           members == [e \in Endpoints |-> ToSet(lbs[e].upstreams)]
<1>1. /\ b \in Endpoints /\ On(b) \in SUBSET Conns /\ c \in On(b)
      /\ pc[c] = "open" /\ "open" \in Balanced
  BY OnConns DEF RemoveConn, Goto, Balanced
<1>2. R!Settled
  BY IdleSettled DEF RemoveConn
<1>3. lbs[b] \in LoadBalancer /\ lbs \in [Endpoints -> LoadBalancer]
  BY <1>1, Zenon DEF IInv, TypeOK, LoadBalancer
<1>4. /\ In(pc, Balanced, On(b)) \in SUBSET Conns /\ c \in In(pc, Balanced, On(b))
      /\ Holds(lbs[b], In(pc, Balanced, On(b)))
  BY <1>1, Zenon DEF IInv, In
<1>5. /\ ToSet(lbs[b].upstreams) = In(pc, Balanced, On(b))
      /\ ToSet(RemoveUpstream(lbs[b], c).upstreams) = ToSet(lbs[b].upstreams) \ {c}
  <2>1. Holds(RemoveUpstream(lbs[b], c), In(pc, Balanced, On(b)) \ {c})
    BY <1>3, <1>4, RemoveHolds
  <2>2. QED
    BY <1>4, <2>1, Zenon DEF Holds
<1>6. members' = [members EXCEPT ![b] = @ \ {c}]
  BY <1>1, <1>3, <1>5, Zenon DEF RemoveConn
<1>7. QED
  BY <1>1, <1>2, <1>4, <1>5, <1>6, Zenon DEF R!Deregister, RemoveConn

\* Between the lock and the callback only the connection itself has moved.
LEMMA UpdateAdvertises ==
    \A c \in Conns : IInv /\ onLocalEndpointUpdate(c) => R!Advertise(EndpointID[c])
<1> SUFFICES ASSUME NEW c \in Conns, IInv, onLocalEndpointUpdate(c)
             PROVE  R!Advertise(EndpointID[c])
  OBVIOUS
<1> DEFINE b == EndpointID[c]
<1>1. b \in Endpoints /\ On(b) \in SUBSET Conns
  BY OnConns
<1>2. pc[c] \in {"read add", "read remove"}
  BY Zenon DEF onLocalEndpointUpdate, Goto
<1>3. /\ pc[c] \in Busy /\ (pc[c] \in Counted <=> pc[c] \in Balanced)
      /\ "open" \in Counted /\ "open" \in Balanced
      /\ "closed" \notin Counted \cup Balanced
  BY <1>2, Zenon DEF Busy, Adding, Removing, Counted, Balanced
<1>4. \A d \in Conns : d # c => pc[d] \in {"closed", "open"}
  BY <1>3, Alone
<1>5. In(pc, Counted, On(b)) = In(pc, Balanced, On(b))
  BY <1>1, <1>3, <1>4 DEF In
<1>6. listeners = Cardinality(ToSet(lbs[b].upstreams))
  BY <1>1, <1>2, <1>5, MembersBalanced, Zenon DEF IInv
<1>7. QED
  BY <1>1, <1>6, SameCardinality, Zenon DEF R!Advertise, onLocalEndpointUpdate

\* Select of an endpoint with upstreams chooses one of them.
LEMMA SelectLocalSelects == \A e \in Endpoints : IInv /\ SelectLocal(e) => R!Select(e)
<1> SUFFICES ASSUME NEW e \in Endpoints, IInv, SelectLocal(e) PROVE R!Select(e)
  OBVIOUS
<1> DEFINE members == [d \in Endpoints |-> ToSet(lbs[d].upstreams)]
           x == {Chosen(lbs[e])}
<1>1. R!Settled
  BY IdleSettled DEF SelectLocal
<1>2. /\ lbs[e] \in LoadBalancer /\ lbs \in [Endpoints -> LoadBalancer]
      /\ Holds(lbs[e], In(pc, Balanced, On(e))) /\ lbs[e].exists
      /\ In(pc, Balanced, On(e)) \in SUBSET Conns
  BY OnConns, Zenon DEF IInv, TypeOK, LoadBalancer, SelectLocal, In
<1>3. /\ Advance(lbs[e]).upstreams = lbs[e].upstreams
      /\ Chosen(lbs[e]) \in ToSet(lbs[e].upstreams)
  BY <1>2, AdvanceHolds DEF Holds
<1>4. members' = members
  BY <1>2, <1>3 DEF SelectLocal
<1>5. /\ x \in SUBSET members[e] /\ members[e] # {} /\ Cardinality(x) <= 1 /\ x # {}
      /\ selected' = [selected EXCEPT ![e] = x]
  <2>1. Cardinality(x) = 1
    BY FS_Singleton, SMTT(30)
  <2>2. QED
    BY <1>3, <2>1 DEF SelectLocal
<1>6. QED
  BY <1>1, <1>4, <1>5, SameCardinality, Zenon DEF R!Select, SelectLocal

\* Select of an endpoint without them may choose another node.
LEMMA SelectRemoteSelects == \A e \in Endpoints : IInv /\ SelectRemote(e) => R!Select(e)
<1> SUFFICES ASSUME NEW e \in Endpoints, IInv, SelectRemote(e) PROVE R!Select(e)
  OBVIOUS
<1> DEFINE x == {y \in {Remote} : e \in remote}
<1>1. R!Settled
  BY IdleSettled DEF SelectRemote
<1>2. ToSet(lbs[e].upstreams) = {}
  BY ToSetEmpty, Zenon DEF IInv, Holds, TypeOK, SelectRemote
<1>3. x \in SUBSET {Remote} /\ Cardinality(x) <= 1
  <2>1. x = {} \/ x = {Remote}
    OBVIOUS
  <2>2. QED
    <3>1. Cardinality({}) = 0 /\ Cardinality({Remote}) = 1
      BY FS_EmptySet, FS_Singleton
    <3>2. QED
      BY <2>1, <3>1
<1>4. selected' = [selected EXCEPT ![e] = x]
  BY DEF SelectRemote
<1>5. QED
  BY <1>1, <1>2, <1>3, <1>4, SameCardinality, Zenon DEF R!Select, SelectRemote

-----------------------------------------------------------------------------
(***************************************************************************)
(* The theorems.                                                           *)
(***************************************************************************)

\* Every record of the connections - the load balancers, the cluster state,
\* gossip and the two metrics - has exactly those whose handlers are past the
\* step of AddConn or RemoveConn of manager.go that changes it, and at most one
\* handler is between two such steps.
THEOREM Invariance == Spec => []IInv
<1>1. QED
  BY InitIInv, NextIInv, PTL DEF Spec

\* While no handler holds the manager's mutex, every connection that is open
\* is in the load balancer, the counts of the cluster state and of gossip, and
\* the metrics, and nothing else is.
THEOREM CountsAgreeHolds == Spec => []CountsAgree
<1>1. IInv => CountsAgree
  <2> SUFFICES ASSUME IInv, mu = {} PROVE CountsAgree
    BY DEF CountsAgree
  <2>1. \A c \in Conns : pc[c] \in {"open", "closed"}
    BY Zenon DEF IInv, Locked, In, TypeOK, Handler, Busy, Adding, Removing
  <2>2. /\ "open" \in Balanced /\ "open" \in Counted /\ "open" \in Told /\ "open" \in Metered
        /\ "closed" \notin Balanced \cup Counted \cup Told \cup Metered
    BY DEF Adding, Removing, Balanced, Counted, Told, Metered
  <2>3. ASSUME NEW e \in Endpoints
        PROVE  /\ In(pc, Balanced, On(e)) = Open(e)
               /\ In(pc, Counted, On(e)) = Open(e)
               /\ In(pc, Told, On(e)) = Open(e)
    BY <2>1, <2>2 DEF In, On, Open
  <2>4. In(pc, Metered, Conns) = {c \in Conns : pc[c] = "open"}
    BY <2>1, <2>2 DEF In
  <2>5. ASSUME NEW e \in Endpoints
        PROVE  /\ ToSet(lbs[e].upstreams) = Open(e)
               /\ Len(lbs[e].upstreams) = Cardinality(Open(e))
               /\ endpoints[e] = Cardinality(Open(e))
               /\ gossiped[e] = Cardinality(Open(e))
               /\ lbs[e].exists <=> lbs[e].upstreams # <<>>
               /\ lbs[e].upstreams \in Seq(Conns)
    BY <2>3, Zenon DEF IInv, Holds, TypeOK
  <2>6. Known = {e \in Endpoints : Open(e) # {}}
    <3>1. ASSUME NEW e \in Endpoints
          PROVE  lbs[e].exists <=> Open(e) # {}
      <4>1. ToSet(lbs[e].upstreams) = {} <=> lbs[e].upstreams = <<>>
        BY <2>5, ToSetEmpty
      <4>2. QED
        BY <2>5, <4>1
    <3>2. QED
      BY <3>1 DEF Known
  <2>7. QED
    BY <2>4, <2>5, <2>6, Zenon DEF CountsAgree, IInv
<1>2. QED
  BY <1>1, Invariance, PTL

\* Select of loadbalancer.go never indexes past the upstreams, whichever
\* connections have come and gone.
THEOREM NextInBoundsHolds == Spec => []NextInBounds
<1>1. IInv => NextInBounds
  BY Zenon DEF IInv, Holds, NextInBounds
<1>2. QED
  BY <1>1, Invariance, PTL

\* The manager implements the registry: however the handlers, requests and
\* gossip interleave, every count that AddConn and RemoveConn of manager.go
\* bring to gossip is that of the load balancer at that moment, the next
\* connection comes or goes only after it, and a request gets a registered
\* connection whenever there is one.
THEOREM RegistersSafely == Spec => R!Spec
<1>1. Init => R!Init
  BY DEF Init, R!Init, NoLoadBalancer, ToSet
<1>2. IInv /\ [Next]_vars => [R!Next]_(R!vars)
  <2> SUFFICES ASSUME IInv, [Next]_vars PROVE [R!Next]_(R!vars)
    OBVIOUS
  <2>1. ASSUME NEW c \in Conns, AddConn(c) \/ RemoveConn(c) PROVE R!Next
    BY <2>1, AddConnRegisters, RemoveConnDeregisters DEF R!Next
  <2>2. ASSUME NEW c \in Conns, onLocalEndpointUpdate(c) PROVE R!Next
    BY <2>2, OnConns, UpdateAdvertises DEF R!Next
  <2>3. ASSUME NEW c \in Conns, LockCluster(c) \/ AddLocalEndpoint(c)
                 \/ RemoveLocalEndpoint(c) \/ LocalEndpointListeners(c) \/ Unlock(c)
        PROVE  UNCHANGED R!vars
    BY <2>3, Zenon DEF R!vars, LockCluster, AddLocalEndpoint, RemoveLocalEndpoint,
                LocalEndpointListeners, Unlock
  <2>4. ASSUME NEW e \in Endpoints, SelectLocal(e) \/ SelectRemote(e) PROVE R!Next
    BY <2>4, SelectLocalSelects, SelectRemoteSelects DEF R!Next
  <2>5. CASE ApplyDelta \/ LockSyncer \/ UpdateCluster
    BY <2>5, Zenon DEF R!vars, ApplyDelta, LockSyncer, UpdateCluster
  <2>6. CASE UNCHANGED vars
    BY <2>6 DEF vars, R!vars
  <2>7. QED
    BY <2>1, <2>2, <2>3, <2>4, <2>5, <2>6 DEF Next, Proceed
<1>3. QED
  BY <1>1, <1>2, Invariance, PTL DEF Spec, R!Spec

=============================================================================
