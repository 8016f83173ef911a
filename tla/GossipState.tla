---------------------------- MODULE GossipState ----------------------------
(***************************************************************************)
(* The versioned key-value state one gossip node keeps about each node of  *)
(* the cluster, and the operations of pkg/gossip/state.go on it.           *)
(*                                                                         *)
(* A nodeState is a record.  Its Entries map is the set of its entries, at *)
(* most one for a key.  A value is an integer: n >= 0 is the decimal text  *)
(* of n (a listener count, a compact version, an address), NoValue is the  *)
(* empty string.  Entry.Internal is left out: it is set exactly on the     *)
(* entries of leftKey and compactKey.  A set of entries stands for the     *)
(* slice sorted by version that deltaEntry builds, versions being unique.  *)
(***************************************************************************)
EXTENDS Integers, FiniteSets, FiniteSetsExt

CONSTANTS
    Nodes,              \* node IDs
    Keys,               \* application keys
    Values,             \* application values
    CompactThreshold    \* compactThreshold of gossip.go

NoValue == -1

leftKey == "_internal:left"

compactKey == "_internal:compact"

(***************************************************************************)
(* The application writes neither of the internal keys; CompactLocal       *)
(* indexes the last entry, which exists because at least one is deleted.   *)
(***************************************************************************)
ASSUME StateAssumption ==
    /\ leftKey \notin Keys
    /\ compactKey \notin Keys
    /\ Values \subseteq Nat \cup {NoValue}
    /\ CompactThreshold \in Nat \ {0}

Entry ==
    [key : Keys \cup {leftKey, compactKey},
     value : Nat \cup {NoValue},
     version : Nat,
     deleted : BOOLEAN]

NodeState ==
    [known : BOOLEAN,           \* whether the nodes map has the node
     version : Nat,
     entries : SUBSET Entry,
     left : BOOLEAN,
     unreachable : BOOLEAN,
     expiry : BOOLEAN]          \* whether Expiry is set

\* A state without entries: version 0, neither left nor unreachable.
Blank(known) ==
    [known |-> known, version |-> 0, entries |-> {},
     left |-> FALSE, unreachable |-> FALSE, expiry |-> FALSE]

Unknown == Blank(FALSE)

NewNode == Blank(TRUE)

NewEntry(k, v, ver, del) ==
    [key |-> k, value |-> v, version |-> ver, deleted |-> del]

-----------------------------------------------------------------------------
(***************************************************************************)
(* Operations on the local node's own state.                               *)
(***************************************************************************)

\* state.Version++ ; state.Entries[e.Key] = e
Put(st, k, v, del) ==
    [st EXCEPT !.version = st.version + 1,
               !.entries = {x \in st.entries : x.key # k}
                             \cup {NewEntry(k, v, st.version + 1, del)}]

UpsertLocal(st, k, v) ==
    IF \E e \in st.entries : e.key = k /\ e.value = v
    THEN st
    ELSE Put(st, k, v, FALSE)

DeleteLocal(st, k) ==
    IF \E e \in st.entries : e.key = k /\ ~e.deleted
    THEN Put(st, k, NoValue, TRUE)
    ELSE st

LeaveLocal(st) ==
    IF st.left
    THEN st
    ELSE [Put(st, leftKey, NoValue, FALSE) EXCEPT !.left = TRUE]

\* The entries a compaction keeps: neither deleted nor an older compact entry.
Retained(st) == {e \in st.entries : ~e.deleted /\ e.key # compactKey}

\* The place of e among the retained entries, in version order.
Rank(st, e) == Cardinality({x \in Retained(st) : x.version <= e.version})

\* Mutant: a retained entry keeps its version.
ReversionKept(st, e) == e

Reversion(st, e) == [e EXCEPT !.version = st.version + Rank(st, e)]

CompactLocal(st) ==
    IF Cardinality({e \in st.entries : e.deleted}) < CompactThreshold
    THEN st
    ELSE LET top == st.version + Cardinality(Retained(st)) + 1
             compactVersion == Max({e.version : e \in st.entries})
         IN  [st EXCEPT
                !.version = top,
                !.entries = {Reversion(st, e) : e \in Retained(st)}
                    \cup {NewEntry(compactKey, compactVersion, top, FALSE)}]

-----------------------------------------------------------------------------
(***************************************************************************)
(* Digests and deltas.  ns is the nodes map of one node.  The field base   *)
(* of a delta entry is the fromVersion it was computed for: it is not on   *)
(* the wire and no operation reads it; the invariants do.                  *)
(***************************************************************************)

DigestEntry == [id : Nodes, version : Nat, left : BOOLEAN]

DeltaEntries == [id : Nodes, base : Nat, entries : SUBSET Entry]

Known(ns) == {n \in Nodes : ns[n].known}

Digest(ns) ==
    {[id |-> n, version |-> ns[n].version, left |-> ns[n].left] :
        n \in Known(ns)}

\* Mutant: takes fromVersion for the first version the receiver is missing.
NewerSkipsOne(st, fromVersion) ==
    {e \in st.entries : e.version > fromVersion + 1}

\* The entries of deltaEntry: everything newer than fromVersion.
Newer(st, fromVersion) == {e \in st.entries : e.version > fromVersion}

DeltaEntry(ns, n, fromVersion) ==
    [id |-> n, base |-> fromVersion, entries |-> Newer(ns[n], fromVersion)]

Delta(ns, digest, fullDigest) ==
    LET digestNodes == {d.id : d \in digest}
        missing == {DeltaEntry(ns, d.id, d.version) :
                      d \in {x \in digest : ns[x.id].known}}
    IN  {x \in missing : x.entries # {}}
          \cup (IF fullDigest
                THEN {DeltaEntry(ns, n, 0) : n \in Known(ns) \ digestNodes}
                ELSE {})

LocalDelta(ns, local) == {DeltaEntry(ns, local, 0)}

\* Mutant: a discovered node starts at the version in the digest.
ApplyDigestTrusting(ns, digest) ==
    [n \in Nodes |->
        IF ~ns[n].known /\ \E d \in digest : d.id = n /\ ~d.left
        THEN [NewNode EXCEPT !.version =
                (CHOOSE d \in digest : d.id = n).version]
        ELSE ns[n]]

ApplyDigest(ns, digest) ==
    [n \in Nodes |->
        IF ~ns[n].known /\ \E d \in digest : d.id = n /\ ~d.left
        THEN NewNode
        ELSE ns[n]]

-----------------------------------------------------------------------------
(***************************************************************************)
(* applyDeltaEntry walks the entries in version order.  Apply is what the  *)
(* walk computes, in closed form; module Routing takes the walk one entry  *)
(* at a time and checks that it ends in Apply.                             *)
(***************************************************************************)

\* Mutant: entries that are not newer than the state are applied again.
AcceptedAny(st, entries) == entries

Accepted(st, entries) == {e \in entries : e.version > st.version}

\* Mutant: the compact version itself is not compacted.
CompactedBelow(e, accepted) ==
    \E c \in accepted : c.key = compactKey /\ e.version < c.value

\* Whether one of the accepted entries compacts entry e away.
Compacted(e, accepted) ==
    \E c \in accepted : c.key = compactKey /\ e.version <= c.value

Merge(old, accepted) ==
    {e \in {x \in old : \A a \in accepted : a.key # x.key} \cup accepted :
        ~Compacted(e, accepted)}

Apply(st, entries) ==
    LET accepted == Accepted(st, entries)
        leaves == \E e \in accepted : e.key = leftKey
    IN  IF accepted = {}
        THEN st
        ELSE [st EXCEPT
                !.version = Max({e.version : e \in accepted}),
                !.entries = Merge(st.entries, accepted),
                !.left = @ \/ leaves,
                !.expiry = @ \/ leaves]

ApplyDeltaEntry(st, entries) ==
    Apply(IF st.known THEN st ELSE NewNode, entries)

ApplyDelta(ns, local, delta) ==
    [n \in Nodes |->
        IF n # local /\ \E x \in delta : x.id = n
        THEN ApplyDeltaEntry(ns[n], (CHOOSE x \in delta : x.id = n).entries)
        ELSE ns[n]]

-----------------------------------------------------------------------------
(***************************************************************************)
(* Liveness and expiry of a remote node's state.                           *)
(***************************************************************************)

UpdateLiveness(st, suspected) ==
    IF ~st.known \/ st.left \/ st.unreachable = suspected
    THEN st
    ELSE [st EXCEPT !.unreachable = suspected, !.expiry = suspected]

LiveNodes(ns, local) ==
    {n \in Known(ns) \ {local} : ~ns[n].unreachable /\ ~ns[n].left}

UnreachableNodes(ns, local) ==
    {n \in Known(ns) \ {local} : ns[n].unreachable}

-----------------------------------------------------------------------------
(***************************************************************************)
(* What the protocol keeps true of these states; own is always the state   *)
(* the owner keeps about itself.  Invariants of module Gossip use these.   *)
(***************************************************************************)

\* Entry g has taken the place of entry e, or has compacted it away.
Replaces(g, e) ==
    \/ g.key # compactKey /\ g.key = e.key /\ g.version > e.version
    \/ g.key = compactKey /\ g.value >= e.version

OwnerOK(own) ==
    /\ own.known
    /\ IsFiniteSet(own.entries)
    /\ \A e \in own.entries : e.version \in 1 .. own.version
    /\ \A e, f \in own.entries : e.key = f.key => e = f
    /\ \A e, f \in own.entries : e.version = f.version => e = f
    /\ own.version > 0 => \E e \in own.entries : e.version = own.version
    /\ \A c \in own.entries : c.key = compactKey =>
          /\ c.value < c.version
          /\ \A e \in own.entries : e.version > c.value
    /\ own.left <=> \E e \in own.entries : e.key = leftKey
    /\ \A e \in own.entries : e.key = leftKey => ~e.deleted

\* Entry e has come from the owner.
Genuine(e, own) ==
    /\ e.version \in 1 .. own.version
    /\ e.key = compactKey => e.value < e.version
    /\ e.key = leftKey => own.left

\* What a node at the given version of the owner holds.
ViewOK(version, entries, own) ==
    /\ \A f \in own.entries : f.version <= version => f \in entries
    /\ \A e \in entries :
          /\ e.version <= version
          /\ \/ e \in own.entries
             \/ \E g \in own.entries : Replaces(g, e) /\ g.version > version

\* What a delta computed for the version base holds.
DeltaOK(base, entries, own) ==
    /\ \A s \in entries, f \in own.entries :
          base < f.version /\ f.version <= s.version => f \in entries
    /\ \A e \in entries :
          \/ e \in own.entries
          \/ \E g \in own.entries :
                /\ Replaces(g, e)
                /\ \A s \in entries : s.version < g.version

\* fresh: no node has removed the owner's state yet.
StateOK(st, own, fresh) ==
    /\ st.known \/ st = Unknown
    /\ st.version <= own.version
    /\ st.left => own.left
    /\ IsFiniteSet(st.entries)
    /\ \A e \in st.entries : Genuine(e, own)
    /\ (\E e \in st.entries : e.key = leftKey) => st.left
    /\ fresh => ViewOK(st.version, st.entries, own)

\* st is what the receiver of delta entry x knows about the owner.
DeltaEntryOK(x, st, own, fresh) ==
    /\ IsFiniteSet(x.entries)
    /\ \A e \in x.entries : Genuine(e, own)
    /\ fresh => x.base <= st.version /\ DeltaOK(x.base, x.entries, own)

=============================================================================
