------------------------- MODULE GossipStateProofs -------------------------
(***************************************************************************)
(* What the operations of GossipState preserve, proved for all node IDs,   *)
(* keys, values, versions and thresholds.                                  *)
(***************************************************************************)
EXTENDS GossipState, FiniteSetTheorems, WellFoundedInduction, TLAPS

\* A bounded set of natural numbers has the maximum that Max chooses.
LEMMA MaxOfBounded ==
    ASSUME NEW S, S \subseteq Nat, S # {},
           NEW w \in Nat, \A x \in S : x <= w
    PROVE  Max(S) \in S /\ \A x \in S : x <= Max(S)
<1> DEFINE T == {w - x : x \in S}
<1>1. T \subseteq Nat /\ T # {}
  <2>1. \A x \in S : w - x \in Nat
    OBVIOUS
  <2>2. \E x \in S : w - x \in T
    BY ZenonT(60)
  <2> QED  BY <2>1, <2>2
<1>2. PICK t \in T : \A u \in T : ~(<<u, t>> \in OpToRel(<, Nat))
  <2> HIDE DEF T
  <2> QED  BY <1>1, NatLessThanWellFounded, WFMin, ZenonT(60)
<1>3. \A u \in T : t <= u
  <2> TAKE u \in T
  <2>1. t \in Nat /\ u \in Nat
    BY <1>1
  <2>2. <<u, t>> \notin OpToRel(<, Nat)
    BY <1>2, ZenonT(60)
  <2>3. ~(u < t)
    BY <2>1, <2>2 DEF OpToRel
  <2> QED  BY <2>1, <2>3
<1>4. PICK x \in S : t = w - x
  OBVIOUS
<1>5. \A y \in S : x >= y
  <2> TAKE y \in S
  <2>1. w - y \in T
    OBVIOUS
  <2> HIDE DEF T
  <2>2. w - x <= w - y
    BY <1>3, <1>4, <2>1
  <2>3. x \in Nat /\ y \in Nat
    OBVIOUS
  <2> QED  BY <2>2, <2>3
<1>6. \E z \in S : \A y \in S : z >= y
  BY <1>5
<1>7. Max(S) \in S /\ \A y \in S : Max(S) >= y
  BY <1>6, ZenonT(60) DEF Max
<1> QED  BY <1>7

-----------------------------------------------------------------------------
(***************************************************************************)
(* Applying a delta entry.                                                 *)
(***************************************************************************)

\* The version applyDeltaEntry ends at when it accepts an entry.
LEMMA AcceptedTop ==
    ASSUME NEW st \in NodeState, NEW S \in SUBSET Entry,
           NEW w \in Nat, \A e \in S : e.version <= w,
           Accepted(st, S) # {}
    PROVE  LET A == Accepted(st, S)
               top == Max({e.version : e \in A})
           IN  /\ top \in Nat
               /\ top > st.version
               /\ top <= w
               /\ \E a \in A : a.version = top
               /\ \A a \in A : a.version <= top
<1> DEFINE A == Accepted(st, S)
           V == {e.version : e \in A}
<1>1. \A e \in A : e \in S /\ e.version \in Nat /\ e.version > st.version
  BY DEF Accepted, Entry
<1>2. V \subseteq Nat /\ V # {} /\ \A v \in V : v <= w
  <2>1. PICK a : a \in A
    OBVIOUS
  <2>2. a.version \in V
    BY <2>1
  <2> QED  BY <1>1, <2>2
<1>3. Max(V) \in V /\ \A v \in V : v <= Max(V)
  <2> HIDE DEF V
  <2> QED  BY <1>2, MaxOfBounded, ZenonT(60)
<1>4. \E a \in A : a.version = Max(V)
  BY <1>3
<1>5. \A a \in A : a.version <= Max(V)
  BY <1>3
<1> HIDE DEF A, V
<1>6. Max(V) \in Nat /\ Max(V) > st.version /\ Max(V) <= w
  BY <1>1, <1>2, <1>3, <1>4
<1> QED  BY <1>4, <1>5, <1>6, ZenonT(60) DEF A, V

\* The result of applyDeltaEntry when it accepts an entry.
LEMMA ApplyFields ==
    ASSUME NEW st \in NodeState, NEW S \in SUBSET Entry,
           NEW w \in Nat, \A e \in S : e.version <= w,
           Accepted(st, S) # {}
    PROVE  LET A == Accepted(st, S)
           IN  /\ Apply(st, S) \in NodeState
               /\ Apply(st, S).known = st.known
               /\ Apply(st, S).version = Max({e.version : e \in A})
               /\ Apply(st, S).entries = Merge(st.entries, A)
               /\ Apply(st, S).left =
                    (st.left \/ \E e \in A : e.key = leftKey)
               /\ Apply(st, S).unreachable = st.unreachable
               /\ Apply(st, S).expiry =
                    (st.expiry \/ \E e \in A : e.key = leftKey)
<1> DEFINE A == Accepted(st, S)
           top == Max({e.version : e \in A})
           leaves == \E e \in A : e.key = leftKey
<1>1. top \in Nat
  BY AcceptedTop
<1>2. Merge(st.entries, A) \in SUBSET Entry
  BY DEF Merge, Accepted, NodeState
<1>3. PICK l \in BOOLEAN, x \in BOOLEAN :
          l = (st.left \/ leaves) /\ x = (st.expiry \/ leaves)
  BY ZenonT(60)
<1> DEFINE r == Apply(st, S)
           M == Merge(st.entries, A)
<1>4. r = [st EXCEPT !.version = top, !.entries = M, !.left = l, !.expiry = x]
  BY <1>3 DEF Apply
<1> HIDE DEF A, top, leaves, r, M
<1>5. M \in SUBSET Entry
  BY <1>2 DEF M
<1>6. /\ r \in NodeState
      /\ r.known = st.known
      /\ r.version = top
      /\ r.entries = M
      /\ r.left = l
      /\ r.unreachable = st.unreachable
      /\ r.expiry = x
  BY <1>1, <1>4, <1>5, ZenonT(60) DEF NodeState
<1> QED  BY <1>3, <1>6 DEF A, top, leaves, r, M

\* applyDeltaEntry raises the version, keeps left, and never forgets a node.
LEMMA ApplyForward ==
    ASSUME NEW st \in NodeState, NEW S \in SUBSET Entry,
           NEW w \in Nat, \A e \in S : e.version <= w
    PROVE  /\ Apply(st, S) \in NodeState
           /\ Apply(st, S).known = st.known
           /\ st.version <= Apply(st, S).version
           /\ st.left => Apply(st, S).left
<1>1. CASE Accepted(st, S) = {}
  BY <1>1 DEF Apply, NodeState
<1>2. CASE Accepted(st, S) # {}
  <2>1. st.version \in Nat
    BY DEF NodeState
  <2>2. Apply(st, S).version \in Nat /\ Apply(st, S).version > st.version
    BY <1>2, AcceptedTop, ApplyFields, ZenonT(60)
  <2>3. st.left => Apply(st, S).left
    BY <1>2, ApplyFields, ZenonT(60)
  <2>4. Apply(st, S) \in NodeState /\ Apply(st, S).known = st.known
    BY <1>2, ApplyFields, Zenon
  <2> QED  BY <2>1, <2>2, <2>3, <2>4
<1> QED  BY <1>1, <1>2

\* No compact entry of a delta removes an entry the owner still has.
LEMMA CurrentNotCompacted ==
    ASSUME NEW own \in NodeState, OwnerOK(own),
           NEW b \in Nat, NEW S \in SUBSET Entry, DeltaOK(b, S, own),
           \A s \in S : Genuine(s, own),
           NEW A \in SUBSET S, NEW f \in own.entries
    PROVE  ~Compacted(f, A)
<1> SUFFICES ASSUME NEW c \in A, c.key = compactKey, f.version <= c.value
             PROVE  FALSE
  BY DEF Compacted
<1>1. c \in Entry /\ f \in Entry /\ own.entries \subseteq Entry
  BY DEF NodeState
<1>2. c.value < c.version
  BY DEF Genuine
<1>3. CASE c \in own.entries
  BY <1>1, <1>3 DEF OwnerOK, Entry, NoValue
<1>4. ASSUME NEW g \in own.entries, Replaces(g, c)
      PROVE  FALSE
  <2>1. g \in Entry /\ g.key = compactKey /\ g.value >= c.version
    BY <1>1, <1>4 DEF Replaces
  <2>2. f.version > g.value
    BY <2>1 DEF OwnerOK
  <2> QED  BY <1>1, <1>2, <2>1, <2>2 DEF Entry, NoValue
<1> QED  BY <1>3, <1>4 DEF DeltaOK

\* No entry of a delta overwrites a current entry below it.
LEMMA CurrentNotOverwritten ==
    ASSUME NEW own \in NodeState, OwnerOK(own),
           NEW b \in Nat, NEW S \in SUBSET Entry, DeltaOK(b, S, own),
           NEW a \in S, NEW f \in own.entries, f.version < a.version
    PROVE  a.key # f.key
<1> SUFFICES ASSUME a.key = f.key
             PROVE  FALSE
  OBVIOUS
<1>1. a \in Entry /\ f \in Entry /\ own.entries \subseteq Entry
  BY DEF NodeState
<1>2. CASE a \in own.entries
  BY <1>1, <1>2 DEF OwnerOK, Entry
<1>3. ASSUME NEW g \in own.entries, Replaces(g, a), a.version < g.version
      PROVE  FALSE
  <2>1. g \in Entry
    BY <1>1
  <2>2. CASE g.key = f.key
    BY <1>1, <1>3, <2>1, <2>2 DEF OwnerOK, Entry
  <2>3. CASE g.key = compactKey /\ g.value >= a.version
    <3>1. f.version > g.value
      BY <2>3 DEF OwnerOK
    <3> QED  BY <1>1, <2>1, <2>3, <3>1 DEF Entry, NoValue
  <2> QED  BY <1>3, <2>2, <2>3 DEF Replaces
<1> QED  BY <1>2, <1>3 DEF DeltaOK

(***************************************************************************)
(* Applying a delta computed for a version the receiver has reached leaves *)
(* an honest view: it has every entry of the owner up to its new version.  *)
(***************************************************************************)
LEMMA ApplyViewOK ==
    ASSUME NEW own \in NodeState, OwnerOK(own),
           NEW st \in NodeState, ViewOK(st.version, st.entries, own),
           NEW b \in Nat, NEW S \in SUBSET Entry, DeltaOK(b, S, own),
           \A s \in S : Genuine(s, own),
           b <= st.version
    PROVE  ViewOK(Apply(st, S).version, Apply(st, S).entries, own)
<1> DEFINE A == Accepted(st, S)
           F == own.entries
           v == st.version
           top == Max({e.version : e \in A})
           M == Merge(st.entries, A)
<1>1. CASE A = {}
  BY <1>1 DEF Apply
<1>2. CASE A # {}
  <2>1. own.version \in Nat /\ \A s \in S : s.version <= own.version
    BY DEF NodeState, Genuine
  <2>2. /\ top \in Nat
        /\ top > v
        /\ \E a \in A : a.version = top
        /\ \A a \in A : a.version <= top
    BY <1>2, <2>1, AcceptedTop, ZenonT(60)
  <2>3. /\ Apply(st, S).version = top
        /\ Apply(st, S).entries = M
    BY <1>2, <2>1, ApplyFields, Zenon
  <2>4. /\ v \in Nat
        /\ \A e \in st.entries : e.version \in Nat /\ e.version <= v
        /\ \A f \in F : f.version \in Nat
        /\ \A s \in S : s.version \in Nat
        /\ A \in SUBSET S
        /\ \A a \in A : a.version > v
    BY DEF NodeState, Entry, ViewOK, Accepted
  <2>5. \A s \in S : s.version > v => s \in A
    BY DEF Accepted
  <2> HIDE DEF A, top
  <2>6. ASSUME NEW f \in F, v < f.version, f.version <= top
        PROVE  f \in A
    <3>1. PICK a \in A : a.version = top
      BY <2>2
    <3>2. b < f.version
      BY <2>4, <2>6
    <3>3. f \in S
      BY <2>4, <2>6, <3>1, <3>2 DEF DeltaOK
    <3> QED  BY <2>5, <2>6, <3>3
  <2>7. ASSUME NEW f \in F, f.version <= top
        PROVE  f \in M
    <3>1. ~Compacted(f, A)
      BY <2>4, CurrentNotCompacted
    <3>2. CASE f.version > v
      BY <2>4, <2>6, <2>7, <3>1, <3>2 DEF Merge
    <3>3. CASE f.version <= v
      <4>1. f \in st.entries
        BY <3>3 DEF ViewOK
      <4>2. \A a \in A : a.key # f.key
        BY <2>4, <3>3, CurrentNotOverwritten
      <4> QED  BY <3>1, <4>1, <4>2 DEF Merge
    <3> QED  BY <2>4, <3>2, <3>3
  <2>8. ASSUME NEW e \in M
        PROVE  /\ e.version <= top
               /\ \/ e \in F
                  \/ \E g \in F : Replaces(g, e) /\ g.version > top
    <3>1. CASE e \in A
      <4>1. e.version <= top
        BY <2>2, <3>1
      <4>2. PICK a \in A : a.version = top
        BY <2>2
      <4> QED  BY <2>4, <3>1, <4>1, <4>2 DEF DeltaOK
    <3>2. CASE e \in st.entries /\ \A a \in A : a.key # e.key
      <4>1. e.version <= top
        BY <2>2, <2>4, <3>2
      <4>2. ASSUME NEW g \in F, Replaces(g, e), g.version > v
            PROVE  g.version > top
        <5>1. CASE g.version <= top
          <6>1. g \in A
            BY <2>6, <4>2, <5>1
          <6>2. ~Compacted(e, A)
            BY DEF Merge
          <6> QED  BY <3>2, <4>2, <6>1, <6>2 DEF Replaces, Compacted
        <5> QED  BY <2>2, <2>4, <5>1
      <4> QED  BY <3>2, <4>1, <4>2 DEF ViewOK
    <3> QED  BY <3>1, <3>2 DEF Merge
  <2> QED  BY <2>3, <2>7, <2>8 DEF ViewOK
<1> QED  BY <1>1, <1>2

\* The entries that a delta leaves are the receiver's own or the delta's.
LEMMA ApplyEntries ==
    ASSUME NEW st \in NodeState, NEW S \in SUBSET Entry,
           NEW w \in Nat, \A e \in S : e.version <= w,
           IsFiniteSet(st.entries), IsFiniteSet(S)
    PROVE  /\ IsFiniteSet(Apply(st, S).entries)
           /\ Apply(st, S).entries \subseteq st.entries \cup S
<1>1. CASE Accepted(st, S) = {}
  BY <1>1 DEF Apply
<1>2. CASE Accepted(st, S) # {}
  <2>1. Apply(st, S).entries = Merge(st.entries, Accepted(st, S))
    BY <1>2, ApplyFields, Zenon
  <2>2. Apply(st, S).entries \subseteq st.entries \cup S
    BY <2>1 DEF Merge, Accepted
  <2>3. IsFiniteSet(st.entries \cup S)
    BY FS_Union, ZenonT(60)
  <2> QED  BY <2>2, <2>3, FS_Subset
<1> QED  BY <1>1, <1>2

\* Applying a delta entry keeps everything the invariant says of a view.
LEMMA ApplyStateOK ==
    ASSUME NEW own \in NodeState, OwnerOK(own), NEW fresh \in BOOLEAN,
           NEW st \in NodeState, StateOK(st, own, fresh), st.known,
           NEW x, x.base \in Nat, x.entries \in SUBSET Entry,
           DeltaEntryOK(x, st, own, fresh)
    PROVE  /\ Apply(st, x.entries) \in NodeState
           /\ StateOK(Apply(st, x.entries), own, fresh)
<1> DEFINE S == x.entries
           r == Apply(st, S)
<1>1. S \in SUBSET Entry /\ x.base \in Nat
  OBVIOUS
<1>2. \A e \in S : Genuine(e, own)
  BY DEF DeltaEntryOK
<1>3. own.version \in Nat /\ \A e \in S : e.version <= own.version
  BY <1>2 DEF Genuine, NodeState
<1>4. r \in NodeState /\ r.known
  BY <1>1, <1>3, ApplyForward
<1>5. r.entries \subseteq st.entries \cup S /\ IsFiniteSet(r.entries)
  BY <1>1, <1>3, ApplyEntries DEF StateOK, DeltaEntryOK
<1>6. \A e \in r.entries : Genuine(e, own)
  BY <1>2, <1>5 DEF StateOK
<1>7. /\ r.version <= own.version
      /\ r.left => own.left
      /\ (\E e \in r.entries : e.key = leftKey) => r.left
  <2>1. CASE Accepted(st, S) = {}
    BY <2>1 DEF Apply, StateOK
  <2>2. CASE Accepted(st, S) # {}
    <3>1. r.version <= own.version
      BY <1>1, <1>3, <2>2, AcceptedTop, ApplyFields, ZenonT(60)
    <3>2. r.left = (st.left \/ \E e \in Accepted(st, S) : e.key = leftKey)
      BY <1>1, <1>3, <2>2, ApplyFields, Zenon
    <3>3. r.entries = Merge(st.entries, Accepted(st, S))
      BY <1>1, <1>3, <2>2, ApplyFields, Zenon
    <3>4. r.left => own.left
      BY <1>2, <3>2, ZenonT(60) DEF StateOK, Genuine, Accepted
    <3>5. (\E e \in r.entries : e.key = leftKey) => r.left
      BY <3>2, <3>3, ZenonT(60) DEF StateOK, Merge
    <3> QED  BY <3>1, <3>4, <3>5
  <2> QED  BY <2>1, <2>2
<1>8. fresh => ViewOK(r.version, r.entries, own)
  BY <1>1, <1>2, ApplyViewOK DEF StateOK, DeltaEntryOK
<1> QED  BY <1>4, <1>5, <1>6, <1>7, <1>8 DEF StateOK

-----------------------------------------------------------------------------
(***************************************************************************)
(* Computing a delta entry.                                                *)
(***************************************************************************)

\* A node that is discovered from a digest is at version 0.
LEMMA NewNodeOK ==
    ASSUME NEW own \in NodeState, OwnerOK(own), NEW fresh \in BOOLEAN
    PROVE  /\ NewNode \in NodeState
           /\ Unknown \in NodeState
           /\ NewNode.known
           /\ NewNode.version = 0
           /\ StateOK(NewNode, own, fresh)
           /\ StateOK(Unknown, own, fresh)
<1>2. own.version \in Nat /\ own.entries \subseteq Entry
  BY DEF NodeState
<1>3. ViewOK(0, {}, own)
  BY <1>2 DEF ViewOK, OwnerOK, Entry
<1>4. IsFiniteSet({})
  BY FS_EmptySet
<1> QED  BY <1>2, <1>3, <1>4 DEF StateOK, NewNode, Unknown, Blank, NodeState

\* What deltaEntry sends has no gap above the version it was asked for.
LEMMA NewerDeltaOK ==
    ASSUME NEW own \in NodeState, NEW st \in NodeState, NEW b \in Nat,
           ViewOK(st.version, st.entries, own)
    PROVE  DeltaOK(b, Newer(st, b), own)
<1>1. /\ st.version \in Nat
      /\ \A e \in st.entries : e.version \in Nat
      /\ \A f \in own.entries : f.version \in Nat
  BY DEF NodeState, Entry
<1> QED  BY <1>1 DEF DeltaOK, ViewOK, Newer

\* Cutting a delta entry off after any version leaves no gap either.
LEMMA PrefixDeltaOK ==
    ASSUME NEW own \in NodeState, NEW b \in Nat, NEW S \in SUBSET Entry,
           DeltaOK(b, S, own), NEW cut \in Nat
    PROVE  DeltaOK(b, {e \in S : e.version <= cut}, own)
<1>1. /\ \A e \in S : e.version \in Nat
      /\ \A f \in own.entries : f.version \in Nat
  BY DEF NodeState, Entry
<1> QED  BY <1>1 DEF DeltaOK

-----------------------------------------------------------------------------
(***************************************************************************)
(* The owner's own operations.  Evolves says what they may do to the       *)
(* owner's entries for the views and the deltas of the others to stay      *)
(* honest: new entries have new versions, and an entry that disappears is  *)
(* replaced by one with a new version, which also replaces whatever the    *)
(* lost entry had replaced.                                                *)
(***************************************************************************)
Evolves(old, new) ==
    /\ old.version <= new.version
    /\ old.left => new.left
    /\ \A f \in new.entries : f \in old.entries \/ f.version > old.version
    /\ \A e \in old.entries :
          \/ e \in new.entries
          \/ \E h \in new.entries : Replaces(h, e) /\ h.version > old.version
    /\ \A g \in old.entries, e \in Entry :
          \/ g \in new.entries
          \/ ~Replaces(g, e)
          \/ e.version > old.version
          \/ \E h \in new.entries : Replaces(h, e) /\ h.version > old.version

\* A view of the owner stays honest when the owner evolves.
LEMMA EvolvesStateOK ==
    ASSUME NEW old \in NodeState, NEW new \in NodeState, Evolves(old, new),
           NEW fresh \in BOOLEAN,
           NEW st \in NodeState, StateOK(st, old, fresh)
    PROVE  StateOK(st, new, fresh)
<1>1. /\ old.version \in Nat /\ new.version \in Nat /\ st.version \in Nat
      /\ old.version <= new.version /\ st.version <= old.version
      /\ \A e \in st.entries : e \in Entry /\ e.version \in Nat
      /\ \A e \in old.entries : e.version \in Nat
      /\ \A e \in new.entries : e.version \in Nat
  BY DEF NodeState, Entry, Evolves, StateOK
<1>2. \A e \in st.entries : Genuine(e, new)
  BY <1>1 DEF StateOK, Genuine, Evolves
<1>3. ASSUME fresh
      PROVE  ViewOK(st.version, st.entries, new)
  <2>1. ViewOK(st.version, st.entries, old)
    BY <1>3 DEF StateOK
  <2>2. \A f \in new.entries : f.version <= st.version => f \in st.entries
    BY <1>1, <2>1 DEF ViewOK, Evolves
  <2>3. ASSUME NEW e \in st.entries
        PROVE  /\ e.version <= st.version
               /\ \/ e \in new.entries
                  \/ \E h \in new.entries :
                        Replaces(h, e) /\ h.version > st.version
    <3>1. e.version <= st.version
      BY <2>1 DEF ViewOK
    <3>2. CASE e \in old.entries
      BY <1>1, <3>1, <3>2 DEF Evolves
    <3>3. ASSUME NEW g \in old.entries, Replaces(g, e), g.version > st.version
          PROVE  \E h \in new.entries :
                    Replaces(h, e) /\ h.version > st.version
      <4>1. CASE g \in new.entries
        BY <3>3, <4>1
      <4>2. CASE g \notin new.entries
        <5>1. e \in Entry /\ ~(e.version > old.version)
          BY <1>1, <3>1
        <5>2. PICK h \in new.entries :
                 Replaces(h, e) /\ h.version > old.version
          BY <3>3, <4>2, <5>1 DEF Evolves
        <5> QED  BY <1>1, <5>2
      <4> QED  BY <4>1, <4>2
    <3> QED  BY <2>1, <3>1, <3>2, <3>3 DEF ViewOK
  <2> QED  BY <2>2, <2>3 DEF ViewOK
<1>4. st.version <= new.version
  BY <1>1
<1>5. st.left => new.left
  BY DEF StateOK, Evolves
<1> QED  BY <1>2, <1>3, <1>4, <1>5 DEF StateOK

\* A delta in flight has no gap after the owner has evolved either.
LEMMA EvolvesDeltaEntryOK ==
    ASSUME NEW old \in NodeState, NEW new \in NodeState, Evolves(old, new),
           NEW fresh \in BOOLEAN, NEW st \in NodeState,
           NEW x, x.base \in Nat, x.entries \in SUBSET Entry,
           DeltaEntryOK(x, st, old, fresh)
    PROVE  DeltaEntryOK(x, st, new, fresh)
<1>1. /\ old.version \in Nat /\ new.version \in Nat /\ x.base \in Nat
      /\ old.version <= new.version
      /\ \A e \in x.entries :
            e \in Entry /\ e.version \in Nat /\ e.version <= old.version
      /\ \A e \in old.entries : e.version \in Nat
      /\ \A e \in new.entries : e.version \in Nat
  BY DEF NodeState, Entry, Evolves, DeltaEntryOK, Genuine
<1>2. \A e \in x.entries : Genuine(e, new)
  BY <1>1 DEF DeltaEntryOK, Genuine, Evolves
<1>3. ASSUME fresh
      PROVE  DeltaOK(x.base, x.entries, new)
  <2>1. DeltaOK(x.base, x.entries, old)
    BY <1>3 DEF DeltaEntryOK
  <2>2. ASSUME NEW s \in x.entries, NEW f \in new.entries,
               x.base < f.version, f.version <= s.version
        PROVE  f \in x.entries
    <3>1. f \in old.entries
      BY <1>1, <2>2 DEF Evolves
    <3> QED  BY <2>1, <2>2, <3>1 DEF DeltaOK
  <2>3. ASSUME NEW e \in x.entries
        PROVE  \/ e \in new.entries
               \/ \E h \in new.entries :
                     /\ Replaces(h, e)
                     /\ \A s \in x.entries : s.version < h.version
    <3>1. ASSUME NEW h \in new.entries, h.version > old.version
          PROVE  \A s \in x.entries : s.version < h.version
      BY <1>1, <3>1
    <3>2. CASE e \in old.entries
      BY <3>1, <3>2 DEF Evolves
    <3>3. ASSUME NEW g \in old.entries, Replaces(g, e),
                 \A s \in x.entries : s.version < g.version
          PROVE  \E h \in new.entries :
                     /\ Replaces(h, e)
                     /\ \A s \in x.entries : s.version < h.version
      <4>1. CASE g \in new.entries
        BY <3>3, <4>1
      <4>2. CASE g \notin new.entries
        <5>1. e \in Entry /\ ~(e.version > old.version)
          BY <1>1
        <5>2. PICK h \in new.entries :
                 Replaces(h, e) /\ h.version > old.version
          BY <3>3, <4>2, <5>1 DEF Evolves
        <5> QED  BY <3>1, <5>2
      <4> QED  BY <4>1, <4>2
    <3> QED  BY <2>1, <3>2, <3>3 DEF DeltaOK
  <2> QED  BY <2>2, <2>3 DEF DeltaOK
<1> QED  BY <1>2, <1>3 DEF DeltaEntryOK

\* The owner's state is an honest view of itself.
LEMMA OwnerStateOK ==
    ASSUME NEW own \in NodeState, OwnerOK(own), NEW fresh \in BOOLEAN
    PROVE  StateOK(own, own, fresh)
<1>1. own.version \in Nat /\ own.entries \subseteq Entry
  BY DEF NodeState
<1>2. \A e \in own.entries : Genuine(e, own)
  BY <1>1 DEF Genuine, OwnerOK
<1>3. ViewOK(own.version, own.entries, own)
  BY <1>1 DEF ViewOK, OwnerOK
<1> QED  BY <1>1, <1>2, <1>3 DEF StateOK, OwnerOK

\* Writing one key, which is all UpsertLocal, DeleteLocal and LeaveLocal do.
LEMMA WriteOK ==
    ASSUME NEW own \in NodeState, OwnerOK(own), NEW new \in NodeState,
           NEW e \in Entry, e.version = own.version + 1,
           e.key # compactKey, e.key = leftKey => ~e.deleted,
           new.known,
           new.version = own.version + 1,
           new.entries = {x \in own.entries : x.key # e.key} \cup {e},
           new.left <=> own.left \/ e.key = leftKey
    PROVE  OwnerOK(new) /\ Evolves(own, new)
<1>1. /\ own.version \in Nat
      /\ own.entries \subseteq Entry
      /\ \A x \in own.entries : x.version \in Nat /\ x.value \in Int
  BY DEF NodeState, Entry, NoValue
<1>2. IsFiniteSet(new.entries)
  <2>1. IsFiniteSet({x \in own.entries : x.key # e.key})
    BY FS_Subset DEF OwnerOK
  <2> QED  BY <2>1, FS_AddElement
<1>3. \A x \in new.entries : x.version \in 1 .. new.version
  BY <1>1 DEF OwnerOK
<1>4. /\ \A x, y \in new.entries : x.key = y.key => x = y
      /\ \A x, y \in new.entries : x.version = y.version => x = y
  BY <1>1 DEF OwnerOK
<1>5. \A c \in new.entries : c.key = compactKey =>
         /\ c.value < c.version
         /\ \A x \in new.entries : x.version > c.value
  <2> SUFFICES ASSUME NEW c \in new.entries, c.key = compactKey
               PROVE  /\ c.value < c.version
                      /\ \A x \in new.entries : x.version > c.value
    OBVIOUS
  <2>1. c \in own.entries
    OBVIOUS
  <2>2. /\ c.value < c.version /\ c.version <= own.version
        /\ \A x \in own.entries : x.version > c.value
    BY <1>1, <2>1 DEF OwnerOK
  <2>3. e.version > c.value
    BY <1>1, <2>1, <2>2
  <2> QED  BY <2>2, <2>3
<1>6. new.left <=> \E x \in new.entries : x.key = leftKey
  <2>1. own.left <=> \E x \in own.entries : x.key = leftKey
    BY DEF OwnerOK
  <2> QED  BY <2>1
<1>7. \A x \in new.entries : x.key = leftKey => ~x.deleted
  BY DEF OwnerOK
<1>8. \E x \in new.entries : x.version = new.version
  OBVIOUS
<1>9. OwnerOK(new)
  BY <1>2, <1>3, <1>4, <1>5, <1>6, <1>7, <1>8 DEF OwnerOK
<1>10. e \in new.entries /\ e.version > own.version
  BY <1>1
<1>11. ASSUME NEW x \in own.entries, x \notin new.entries
       PROVE  Replaces(e, x)
  BY <1>1, <1>11 DEF OwnerOK, Replaces
<1>12. ASSUME NEW g \in own.entries, NEW x \in Entry, Replaces(g, x),
              g \notin new.entries, ~(x.version > own.version)
       PROVE  Replaces(e, x)
  <2>1. g.key = e.key
    BY <1>12
  <2>2. x.key = e.key
    BY <1>12, <2>1 DEF Replaces
  <2>3. x.version < e.version
    BY <1>1, <1>12 DEF Entry
  <2> QED  BY <2>2, <2>3 DEF Replaces
<1>13. own.version <= new.version
  BY <1>1
<1>14. \A f \in new.entries : f \in own.entries \/ f.version > own.version
  BY <1>1
<1>15. Evolves(own, new)
  BY <1>10, <1>11, <1>12, <1>13, <1>14 DEF Evolves
<1> QED  BY <1>9, <1>15

\* Doing nothing.
LEMMA SameOK ==
    ASSUME NEW own \in NodeState, OwnerOK(own)
    PROVE  Evolves(own, own)
  BY DEF Evolves, NodeState

\* The entries once e is written for key k.
Written(own, k, e) == {x \in own.entries : x.key # k} \cup {e}

\* The fields of the state with one key written.
LEMMA PutFields ==
    ASSUME NEW own \in NodeState, NEW k \in Keys \cup {leftKey},
           NEW v \in Nat \cup {NoValue}, NEW del \in BOOLEAN
    PROVE  LET e == NewEntry(k, v, own.version + 1, del)
               new == Put(own, k, v, del)
           IN  /\ e \in Entry
               /\ e.version = own.version + 1
               /\ e.key = k
               /\ e.deleted = del
               /\ new \in NodeState
               /\ new.known = own.known
               /\ new.version = own.version + 1
               /\ new.entries = Written(own, k, e)
               /\ new.left = own.left
<1> DEFINE e == NewEntry(k, v, own.version + 1, del)
           E == {x \in own.entries : x.key # k} \cup {e}
           w == own.version + 1
           new == Put(own, k, v, del)
<1>1. /\ e \in Entry
      /\ e.version = own.version + 1
      /\ e.key = k
      /\ e.deleted = del
  BY DEF NewEntry, Entry, NodeState
<1>2. new = [own EXCEPT !.version = w, !.entries = E]
  BY DEF Put
<1> HIDE DEF e
<1>3. E \in SUBSET Entry /\ w \in Nat
  BY <1>1 DEF NodeState
<1> HIDE DEF E, w, new
<1>4. /\ new \in NodeState
      /\ new.known = own.known
      /\ new.version = w
      /\ new.entries = E
      /\ new.left = own.left
  BY <1>2, <1>3, ZenonT(60) DEF NodeState
<1> QED  BY <1>1, <1>4 DEF e, E, w, new, Written

\* Writing an application key.
LEMMA PutOK ==
    ASSUME NEW own \in NodeState, OwnerOK(own), NEW k \in Keys,
           NEW v \in Nat \cup {NoValue}, NEW del \in BOOLEAN
    PROVE  /\ Put(own, k, v, del) \in NodeState
           /\ OwnerOK(Put(own, k, v, del))
           /\ Evolves(own, Put(own, k, v, del))
<1> DEFINE e == NewEntry(k, v, own.version + 1, del)
           new == Put(own, k, v, del)
<1>1. k # compactKey /\ k # leftKey /\ k \in Keys \cup {leftKey}
  BY StateAssumption
<1>2. /\ e \in Entry
      /\ e.version = own.version + 1
      /\ e.key = k
      /\ new \in NodeState
      /\ new.known = own.known
      /\ new.version = own.version + 1
      /\ new.entries = Written(own, k, e)
      /\ new.left = own.left
  BY <1>1, PutFields
<1>3. own.known
  BY DEF OwnerOK
<1> HIDE DEF e, new
<1>4. OwnerOK(new) /\ Evolves(own, new)
  BY <1>1, <1>2, <1>3, WriteOK, ZenonT(60) DEF Written
<1> QED  BY <1>2, <1>4 DEF new

\* UpsertLocal keeps the owner's state well-formed and only adds to it.
LEMMA UpsertLocalOK ==
    ASSUME NEW own \in NodeState, OwnerOK(own), NEW k \in Keys, NEW v \in Values
    PROVE  /\ UpsertLocal(own, k, v) \in NodeState
           /\ OwnerOK(UpsertLocal(own, k, v))
           /\ Evolves(own, UpsertLocal(own, k, v))
<1>1. v \in Nat \cup {NoValue}
  BY StateAssumption
<1> QED  BY <1>1, SameOK, PutOK, ZenonT(60) DEF UpsertLocal

\* DeleteLocal: a tombstone is an entry like any other.
LEMMA DeleteLocalOK ==
    ASSUME NEW own \in NodeState, OwnerOK(own), NEW k \in Keys
    PROVE  /\ DeleteLocal(own, k) \in NodeState
           /\ OwnerOK(DeleteLocal(own, k))
           /\ Evolves(own, DeleteLocal(own, k))
  BY SameOK, PutOK, ZenonT(60) DEF DeleteLocal

\* LeaveLocal: the left entry and the left flag come together.
LEMMA LeaveLocalOK ==
    ASSUME NEW own \in NodeState, OwnerOK(own)
    PROVE  /\ LeaveLocal(own) \in NodeState
           /\ OwnerOK(LeaveLocal(own))
           /\ Evolves(own, LeaveLocal(own))
<1>1. CASE own.left
  BY <1>1, SameOK DEF LeaveLocal
<1>2. CASE ~own.left
  <2>0. PICK k \in Keys \cup {leftKey}, v \in Nat \cup {NoValue},
             del \in BOOLEAN : k = leftKey /\ v = NoValue /\ del = FALSE
    BY ZenonT(60)
  <2> DEFINE e == NewEntry(k, v, own.version + 1, del)
             p == Put(own, k, v, del)
             new == [p EXCEPT !.left = TRUE]
  <2>1. /\ e \in Entry
        /\ e.version = own.version + 1
        /\ e.key = k
        /\ e.deleted = del
        /\ p \in NodeState
        /\ p.known = own.known
        /\ p.version = own.version + 1
        /\ p.entries = Written(own, k, e)
    BY PutFields
  <2>2. LeaveLocal(own) = new
    BY <1>2, <2>0, ZenonT(60) DEF LeaveLocal
  <2> HIDE DEF e, p
  <2>3. /\ new \in NodeState
        /\ new.known = p.known
        /\ new.version = p.version
        /\ new.entries = p.entries
        /\ new.left
    BY <2>1, ZenonT(60) DEF NodeState
  <2>4. own.known /\ leftKey # compactKey
    BY DEF OwnerOK, leftKey, compactKey
  <2> HIDE DEF new
  <2>5. OwnerOK(new) /\ Evolves(own, new)
    BY <2>0, <2>1, <2>3, <2>4, WriteOK, ZenonT(60) DEF Written
  <2> QED  BY <2>2, <2>3, <2>5
<1> QED  BY <1>1, <1>2

\* CompactLocal moves the entries it keeps, unchanged, to new versions.
LEMMA ReversionOK ==
    ASSUME NEW st \in NodeState, IsFiniteSet(st.entries),
           NEW e \in Retained(st)
    PROVE  /\ Cardinality(Retained(st)) \in Nat
           /\ Reversion(st, e) \in Entry
           /\ Reversion(st, e).key = e.key
           /\ Reversion(st, e).value = e.value
           /\ Reversion(st, e).deleted = FALSE
           /\ Reversion(st, e).version > st.version
           /\ Reversion(st, e).version <= st.version + Cardinality(Retained(st))
<1> DEFINE R == Retained(st)
           B == {x \in R : x.version <= e.version}
           r == Rank(st, e)
<1>1. st.version \in Nat /\ e \in Entry /\ ~e.deleted
  BY DEF Retained, NodeState
<1>2. IsFiniteSet(R)
  BY FS_Subset DEF Retained
<1>3. IsFiniteSet(B) /\ Cardinality(B) <= Cardinality(R)
  BY <1>2, FS_Subset
<1>4. e \in B
  BY <1>1 DEF Entry
<1>5. Cardinality(B) \in Nat /\ Cardinality(R) \in Nat /\ Cardinality(B) # 0
  BY <1>2, <1>3, <1>4, FS_CardinalityType, FS_EmptySet, ZenonT(60)
<1>6. r = Cardinality(B)
  BY DEF Rank
<1> HIDE DEF r, B, R
<1>7. r \in Nat /\ r > 0 /\ r <= Cardinality(R)
  BY <1>3, <1>5, <1>6
<1> DEFINE w == st.version + r
<1>8. w \in Nat /\ w > st.version /\ w <= st.version + Cardinality(R)
  BY <1>1, <1>5, <1>7
<1>9. Reversion(st, e) = [e EXCEPT !.version = w]
  BY DEF Reversion, r
<1> HIDE DEF w
<1>10. /\ Reversion(st, e) \in Entry
       /\ Reversion(st, e).key = e.key
       /\ Reversion(st, e).value = e.value
       /\ Reversion(st, e).deleted = e.deleted
       /\ Reversion(st, e).version = w
  BY <1>1, <1>8, <1>9 DEF Entry
<1>11. e.deleted = FALSE
  BY <1>1 DEF Entry
<1> QED  BY <1>5, <1>8, <1>10, <1>11 DEF R

\* The new versions are as distinct as the old ones.
LEMMA RankDistinct ==
    ASSUME NEW st \in NodeState, IsFiniteSet(st.entries),
           NEW e \in Retained(st), NEW f \in Retained(st),
           e.version < f.version
    PROVE  Reversion(st, e).version # Reversion(st, f).version
<1> DEFINE R == Retained(st)
           B(x) == {y \in R : y.version <= x.version}
<1>1. /\ st.version \in Nat
      /\ e \in Entry /\ f \in Entry
      /\ \A x \in R : x.version \in Nat
  BY DEF Retained, NodeState, Entry
<1>2. IsFiniteSet(R) /\ B(f) \in SUBSET R /\ B(e) \in SUBSET R
  BY FS_Subset DEF Retained
<1>3. IsFiniteSet(B(f)) /\ IsFiniteSet(B(e))
  BY <1>2, FS_Subset
<1>4. B(e) \in SUBSET B(f) /\ f \in B(f) /\ f \notin B(e)
  BY <1>1
<1>5. Cardinality(B(e)) \in Nat /\ Cardinality(B(f)) \in Nat
  BY <1>3, FS_CardinalityType
<1>6. Cardinality(B(e)) # Cardinality(B(f))
  <2> HIDE DEF B
  <2> QED  BY <1>3, <1>4, FS_Subset
<1>7. Rank(st, e) = Cardinality(B(e)) /\ Rank(st, f) = Cardinality(B(f))
  BY DEF Rank
<1> HIDE DEF B, R
<1>8. /\ Reversion(st, e).version = st.version + Rank(st, e)
      /\ Reversion(st, f).version = st.version + Rank(st, f)
  BY <1>1 DEF Reversion, Entry
<1> QED  BY <1>1, <1>5, <1>6, <1>7, <1>8

\* The version CompactLocal compacts up to is the version of the node.
LEMMA CompactVersion ==
    ASSUME NEW own \in NodeState, OwnerOK(own), own.entries # {}
    PROVE  Max({e.version : e \in own.entries}) = own.version
<1> DEFINE V == {e.version : e \in own.entries}
<1>1. /\ own.version \in Nat
      /\ \A e \in own.entries : e.version \in Nat /\ e.version >= 1
      /\ \A e \in own.entries : e.version <= own.version
  BY DEF OwnerOK, NodeState
<1>2. own.version \in V
  <2>1. own.version > 0
    BY <1>1
  <2> QED  BY <2>1 DEF OwnerOK
<1>3. V \subseteq Nat /\ \A v \in V : v <= own.version
  BY <1>1
<1> HIDE DEF V
<1>4. Max(V) \in V /\ \A v \in V : v <= Max(V)
  BY <1>1, <1>2, <1>3, MaxOfBounded, ZenonT(60)
<1>5. Max(V) = own.version
  <2>1. Max(V) \in Nat /\ Max(V) <= own.version /\ own.version <= Max(V)
    BY <1>2, <1>3, <1>4, ZenonT(60)
  <2> QED  BY <1>1, <2>1
<1> QED  BY <1>5 DEF V

\* The fields of the state after a compaction.
LEMMA CompactFields ==
    ASSUME NEW own \in NodeState, OwnerOK(own),
           ~(Cardinality({e \in own.entries : e.deleted}) < CompactThreshold)
    PROVE  LET new == CompactLocal(own)
               top == own.version + Cardinality(Retained(own)) + 1
               c == NewEntry(compactKey, own.version, top, FALSE)
           IN  /\ own.entries # {}
               /\ top \in Nat
               /\ top > own.version
               /\ c \in Entry
               /\ c.key = compactKey
               /\ c.value = own.version
               /\ c.version = top
               /\ new \in NodeState
               /\ new.known
               /\ new.version = top
               /\ new.left = own.left
               /\ new.entries =
                    {Reversion(own, e) : e \in Retained(own)} \cup {c}
<1> DEFINE new == CompactLocal(own)
           top == own.version + Cardinality(Retained(own)) + 1
           c == NewEntry(compactKey, own.version, top, FALSE)
           E == {Reversion(own, e) : e \in Retained(own)} \cup {c}
<1>1. own.entries # {}
  <2>1. SUFFICES ASSUME own.entries = {} PROVE FALSE
    OBVIOUS
  <2>2. {e \in own.entries : e.deleted} = {}
    BY <2>1
  <2>3. Cardinality({e \in own.entries : e.deleted}) = 0
    BY <2>2, FS_EmptySet
  <2> QED  BY <2>3, StateAssumption
<1>2. IsFiniteSet(own.entries) /\ own.version \in Nat /\ own.known
  BY DEF OwnerOK, NodeState
<1>3. Cardinality(Retained(own)) \in Nat
  BY <1>2, FS_Subset, FS_CardinalityType DEF Retained
<1>4. top \in Nat /\ top > own.version
  BY <1>2, <1>3
<1>5. new = [own EXCEPT !.version = top, !.entries = E]
  BY <1>1, CompactVersion, ZenonT(60) DEF CompactLocal
<1> HIDE DEF top
<1>6. /\ c \in Entry
      /\ c.key = compactKey
      /\ c.value = own.version
      /\ c.version = top
  BY <1>2, <1>4 DEF NewEntry, Entry
<1> HIDE DEF c
<1>7. E \in SUBSET Entry
  BY <1>2, <1>6, ReversionOK, ZenonT(60)
<1> HIDE DEF E, new
<1>8. /\ new \in NodeState
      /\ new.known = own.known
      /\ new.version = top
      /\ new.left = own.left
      /\ new.entries = E
  BY <1>4, <1>5, <1>7, ZenonT(60) DEF NodeState
<1> QED  BY <1>1, <1>2, <1>4, <1>6, <1>8, ZenonT(60) DEF E, c, top, new

\* A compaction loses nothing: whatever it drops, the compact entry replaces.
LEMMA CompactLocalOK ==
    ASSUME NEW own \in NodeState, OwnerOK(own)
    PROVE  /\ CompactLocal(own) \in NodeState
           /\ OwnerOK(CompactLocal(own))
           /\ Evolves(own, CompactLocal(own))
<1>1. CASE Cardinality({e \in own.entries : e.deleted}) < CompactThreshold
  BY <1>1, SameOK DEF CompactLocal
<1>2. CASE ~(Cardinality({e \in own.entries : e.deleted}) < CompactThreshold)
  <2> DEFINE new == CompactLocal(own)
             top == own.version + Cardinality(Retained(own)) + 1
             c == NewEntry(compactKey, own.version, top, FALSE)
             R == Retained(own)
             K == {Reversion(own, e) : e \in R}
  <2>1. /\ top \in Nat
        /\ top > own.version
        /\ c \in Entry
        /\ c.key = compactKey
        /\ c.value = own.version
        /\ c.version = top
        /\ new \in NodeState
        /\ new.known
        /\ new.version = top
        /\ new.left = own.left
        /\ new.entries = K \cup {c}
    BY <1>2, CompactFields, Zenon
  <2>2. own.version \in Nat /\ IsFiniteSet(own.entries)
    BY DEF NodeState, OwnerOK
  <2>3. ASSUME NEW e \in R
        PROVE  /\ Reversion(own, e) \in Entry
               /\ Reversion(own, e).key = e.key
               /\ ~Reversion(own, e).deleted
               /\ Reversion(own, e).version \in Nat
               /\ Reversion(own, e).version > own.version
               /\ Reversion(own, e).version < top
    <3>1. /\ Cardinality(R) \in Nat
          /\ Reversion(own, e) \in Entry
          /\ Reversion(own, e).key = e.key
          /\ Reversion(own, e).deleted = FALSE
          /\ Reversion(own, e).version > own.version
          /\ Reversion(own, e).version <= own.version + Cardinality(R)
      BY <2>2, ReversionOK, ZenonT(60)
    <3>2. Reversion(own, e).version \in Nat
      BY <3>1 DEF Entry
    <3> QED  BY <2>2, <3>1, <3>2
  <2>4. \A e \in R : e \in own.entries /\ e.key # compactKey
    BY DEF Retained
  <2>5. \A e \in own.entries : e.key = leftKey => e \in R
    BY DEF Retained, OwnerOK, leftKey, compactKey
  <2>6. IsFiniteSet(K)
    <3> DEFINE f == [e \in R |-> Reversion(own, e)]
    <3>1. f \in Surjection(R, K)
      BY DEF Surjection
    <3>2. IsFiniteSet(R)
      BY <2>2, FS_Subset DEF Retained
    <3> QED  BY <3>1, <3>2, FS_Surjection
  <2>7. IsFiniteSet(K \cup {c})
    BY <2>6, FS_AddElement, ZenonT(60)
  <2>7a. \A x, y \in K : x.version = y.version => x = y
    <3> SUFFICES ASSUME NEW e \in R, NEW f \in R,
                        Reversion(own, e).version = Reversion(own, f).version
                 PROVE  Reversion(own, e) = Reversion(own, f)
      OBVIOUS
    <3>1. e.version \in Nat /\ f.version \in Nat
      BY DEF Retained, NodeState, Entry
    <3>2. ~(e.version < f.version) /\ ~(f.version < e.version)
      BY <2>2, RankDistinct, ZenonT(60)
    <3>3. e.version = f.version
      BY <3>1, <3>2
    <3>4. e = f
      BY <2>4, <3>3 DEF OwnerOK
    <3> QED  BY <3>4
  <2> HIDE DEF new, top, c, R
  <2>8. \A x, y \in K : x.key = y.key => x = y
    BY <2>3, <2>4 DEF OwnerOK
  <2>9. \A x \in K : /\ x.key # compactKey
                     /\ x.version \in Nat
                     /\ x.version > own.version
                     /\ x.version < top
                     /\ ~x.deleted
    BY <2>3, <2>4
  <2>10. (\E x \in K : x.key = leftKey) <=> own.left
    <3>1. own.left <=> \E e \in own.entries : e.key = leftKey
      BY DEF OwnerOK
    <3> QED  BY <2>3, <2>4, <2>5, <3>1
  <2>11. leftKey # compactKey
    BY DEF leftKey, compactKey
  <2> HIDE DEF K
  <2>12. /\ \A x \in new.entries : x.version \in 1 .. new.version
         /\ \A x \in new.entries : x.version > own.version
    BY <2>1, <2>2, <2>9
  <2>13. OwnerOK(new)
    <3>1. /\ \A x, y \in new.entries : x.key = y.key => x = y
          /\ \A x, y \in new.entries : x.version = y.version => x = y
      BY <2>1, <2>8, <2>9, <2>7a
    <3>2. \A x \in new.entries : x.key = compactKey =>
             /\ x.value < x.version
             /\ \A y \in new.entries : y.version > x.value
      BY <2>1, <2>9, <2>12
    <3>3. new.left <=> \E x \in new.entries : x.key = leftKey
      BY <2>1, <2>10, <2>11
    <3>4. \A x \in new.entries : x.key = leftKey => ~x.deleted
      BY <2>1, <2>9, <2>11
    <3>5. \E x \in new.entries : x.version = new.version
      BY <2>1
    <3> QED  BY <2>1, <2>7, <2>12, <3>1, <3>2, <3>3, <3>4, <3>5, SMTT(60) DEF OwnerOK
  <2>14. ASSUME NEW x \in Entry, ~(x.version > own.version)
         PROVE  Replaces(c, x)
    BY <2>1, <2>2, <2>14 DEF Replaces, Entry
  <2>15. \A e \in own.entries : e \in Entry /\ ~(e.version > own.version)
    BY DEF OwnerOK, NodeState, Entry
  <2>16. c \in new.entries /\ c.version > own.version
    BY <2>1
  <2>17. Evolves(own, new)
    BY <2>1, <2>2, <2>12, <2>14, <2>15, <2>16 DEF Evolves
  <2> QED  BY <2>1, <2>13, <2>17 DEF new
<1> QED  BY <1>1, <1>2

=============================================================================
