---------------------------- MODULE ProxyProofs ----------------------------
(***************************************************************************)
(* Proofs about Proxy for any nodes, upstreams and requests: a request is  *)
(* forwarded at most once, and refused only for a reason.                  *)
(***************************************************************************)
EXTENDS Proxy, TLAPS

-----------------------------------------------------------------------------
(***************************************************************************)
(* The inductive invariant.                                                *)
(***************************************************************************)

Pcs == {"none", "select", "dial", "wait", "open", "done"}

Statuses == {"", "200", "400", "502", "504", "lost", "closed", "abandoned", "cut"}

HandlerType ==
    [pc : Pcs, node : Nodes \cup {None}, tcp : BOOLEAN, forwarded : BOOLEAN,
     to : Nodes \cup Conns \cup {None}, status : Statuses,
     copies : SUBSET Ends, blocked : SUBSET Ends]

TypeOK ==
    /\ up \subseteq Nodes
    /\ node \in [Conns -> Nodes \cup {None}]
    /\ alive \subseteq Conns
    /\ routes \in [Nodes -> SUBSET Nodes]
    /\ hops \in [Requests -> [Hops -> HandlerType]]
    /\ settled \in [Requests -> BOOLEAN]

\* What was selected is still there, and nothing has been refused or lost.
Good(i, h) ==
    /\ h.to \in Conns => node[h.to] # None
    /\ h.to \in Nodes => HasUpstream(h.to)
    /\ i = 2 /\ h.pc # "none" => HasUpstream(h.node)
    /\ h.status \notin {"502", "lost"}

\* The first handler of a request may forward it, to another node, and the
\* second may not; there is no third.
Placed(r, i) ==
    LET h == hops[r][i]
    IN  /\ h.pc # "none" => h.node \in Nodes /\ i <= 2 /\ (h.forwarded <=> i = 2)
        /\ h.pc # "none" /\ i = 2 => hops[r][1].pc # "none" /\ hops[r][1].node # h.node
        /\ h.pc = "none" => h = NoHandler
        /\ h.to \in Nodes => i = 1 /\ h.to # h.node

IInv ==
    /\ TypeOK
    /\ \A n \in Nodes : n \notin routes[n]
    /\ \A r \in Requests, i \in Hops : Placed(r, i)
    /\ \A r \in Requests : settled[r] => Settled
    /\ \A r \in Requests, i \in Hops : settled[r] => Good(i, hops[r][i])

\* There is room for a second handler.
LEMMA TwoHops == 1 \in Hops /\ 2 \in Hops /\ Hops \subseteq Nat \ {0}
BY ProxyAssumption DEF Hops

\* A handler that has not begun.
LEMMA NoHandlerIs ==
    /\ NoHandler \in HandlerType
    /\ NoHandler.node = None /\ NoHandler.to = None
    /\ NoHandler.pc = "none" /\ NoHandler.status = "" /\ NoHandler.blocked = {}
    /\ None \notin Conns /\ None \notin Nodes
BY ProxyAssumption DEF NoHandler, HandlerType, Pcs, Statuses

\* Ending a handler keeps where it is and what it has selected.
LEMMA EndedIs ==
    ASSUME NEW h \in HandlerType, NEW status \in Statuses
    PROVE  /\ Ended(h, status) \in HandlerType
           /\ Ended(h, status).pc = "done" /\ Ended(h, status).status = status
           /\ Ended(h, status).node = h.node /\ Ended(h, status).to = h.to
           /\ Ended(h, status).forwarded = h.forwarded
BY DEF Ended, HandlerType, Pcs

\* Before the first request nothing is there.
LEMMA InitIInv == Init => IInv
<1> SUFFICES ASSUME Init PROVE IInv
  OBVIOUS
<1>1. TypeOK
  BY NoHandlerIs DEF Init, TypeOK
<1>2. \A r \in Requests, i \in Hops : Placed(r, i)
  BY NoHandlerIs DEF Init, Placed
<1>3. QED
  BY <1>1, <1>2 DEF Init, IInv

-----------------------------------------------------------------------------
(***************************************************************************)
(* The environment.                                                        *)
(***************************************************************************)

\* The handlers stay, and so does what is registered, unless the routes were
\* or are wrong.
LEMMA EnvironmentIInv ==
    ASSUME IInv, TypeOK', Track, hops' = hops,
           \A n \in Nodes : n \notin routes'[n],
           Settled /\ Settled' => \A c \in Conns : node[c] # None => node'[c] = node[c]
    PROVE  IInv'
<1>1. TypeOK
  BY DEF IInv
<1>2. \A r \in Requests, i \in Hops : Placed(r, i)'
  BY DEF IInv, Placed
<1>3. \A r \in Requests : settled'[r] => Settled' /\ (hops[r][1].pc = "none" \/ settled[r])
  BY DEF Track
<1>4. ASSUME NEW r \in Requests, NEW i \in Hops, settled'[r]
      PROVE  Good(i, hops[r][i])'
  <2> DEFINE h == hops[r][i]
  <2>1. h \in HandlerType /\ hops[r][1] \in HandlerType /\ Placed(r, i) /\ Placed(r, 1)
    BY <1>1, TwoHops DEF IInv, TypeOK
  <2>2. CASE hops[r][1].pc = "none"
    <3>1. h.pc = "none"
      BY <2>1, <2>2, TwoHops DEF Placed
    <3>2. h = NoHandler
      BY <2>1, <3>1 DEF Placed
    <3>3. QED
      BY <3>2, NoHandlerIs DEF Good
  <2>3. CASE settled[r]
    <3>1. Good(i, h) /\ Settled /\ Settled'
      BY <1>3, <1>4, <2>3 DEF IInv
    <3>2. \A c \in Conns : node[c] # None => node'[c] = node[c]
      BY <3>1
    <3>3. \A n \in Nodes : HasUpstream(n) => HasUpstream(n)'
      BY <3>2, ProxyAssumption DEF HasUpstream, Local
    <3>4. h.pc # "none" => h.node \in Nodes
      BY <2>1 DEF Placed
    <3>5. QED
      BY <3>1, <3>2, <3>3, <3>4, ProxyAssumption DEF Good
  <2>4. QED
    BY <1>3, <1>4, <2>2, <2>3
<1>5. QED
  BY <1>2, <1>3, <1>4 DEF IInv

\* Whatever changes the routes or the upstreams, but for a crash.
LEMMA RoutesIInv ==
    ASSUME IInv,
           \/ \E c \in Conns, n \in Nodes : Connect(c, n)
           \/ \E c \in Conns : SessionLost(c) \/ RemoveConn(c)
           \/ \E n, m \in Nodes : SyncRoute(n, m) \/ DropRoute(n, m)
    PROVE  IInv'
<1>1. TypeOK /\ (\A x \in Nodes : x \notin routes[x])
  BY DEF IInv
<1>2. settled' \in [Requests -> BOOLEAN] /\ Track /\ hops' = hops
  BY DEF Connect, SessionLost, RemoveConn, SyncRoute, DropRoute, Track, Settled
<1>3. ASSUME NEW c \in Conns, NEW n \in Nodes, Connect(c, n) PROVE IInv'
  <2>1. node' = [node EXCEPT ![c] = n] /\ node[c] = None
    BY <1>3 DEF Connect
  <2>2. TypeOK'
    BY <1>1, <1>2, <1>3 DEF TypeOK, Connect
  <2>3. QED
    BY <1>1, <1>2, <1>3, <2>1, <2>2, EnvironmentIInv DEF Connect, TypeOK
<1>4. ASSUME NEW c \in Conns, SessionLost(c) PROVE IInv'
  <2>1. TypeOK'
    BY <1>1, <1>2, <1>4 DEF TypeOK, SessionLost
  <2>2. QED
    BY <1>1, <1>2, <1>4, <2>1, EnvironmentIInv DEF SessionLost
<1>5. ASSUME NEW c \in Conns, RemoveConn(c) PROVE IInv'
  <2>1. TypeOK'
    BY <1>1, <1>2, <1>5 DEF TypeOK, RemoveConn
  <2>2. ~Settled
    BY <1>5 DEF RemoveConn, Settled
  <2>3. QED
    BY <1>1, <1>2, <1>5, <2>1, <2>2, EnvironmentIInv DEF RemoveConn
<1>6. ASSUME NEW n \in Nodes, NEW m \in Nodes, SyncRoute(n, m) \/ DropRoute(n, m)
      PROVE  IInv'
  <2>1. TypeOK'
    BY <1>1, <1>2, <1>6 DEF TypeOK, SyncRoute, DropRoute
  <2>2. \A x \in Nodes : x \notin routes'[x]
    BY <1>1, <1>6 DEF TypeOK, SyncRoute, DropRoute
  <2>3. node' = node
    BY <1>6 DEF SyncRoute, DropRoute
  <2>4. QED
    BY <1>2, <2>1, <2>2, <2>3, EnvironmentIInv
<1>7. QED
  BY <1>3, <1>4, <1>5, <1>6

\* After a crash no request counts as undisturbed any more.
LEMMA CrashIInv == \A n \in Nodes : IInv /\ Crash(n) => IInv'
<1> SUFFICES ASSUME NEW n \in Nodes, IInv, Crash(n) PROVE IInv'
  OBVIOUS
<1>1. TypeOK
  BY DEF IInv
<1>2. \A r \in Requests : ~settled'[r]
  BY DEF Crash, Track, Settled
<1>3. ASSUME NEW r \in Requests, NEW i \in Hops
      PROVE  /\ hops'[r][i] \in HandlerType
             /\ hops'[r][i].node = hops[r][i].node
             /\ hops'[r][i].forwarded = hops[r][i].forwarded
             /\ hops'[r][i].to = hops[r][i].to
             /\ hops[r][i].pc = "none" => hops'[r][i] = hops[r][i]
             /\ hops[r][i].pc # "none" => hops'[r][i].pc # "none"
  <2> DEFINE h == hops[r][i]
  <2>1. h \in HandlerType /\ Placed(r, i)
    BY <1>1 DEF TypeOK, IInv
  <2>2. CASE h.node = n /\ h.pc # "done"
    <3>1. /\ hops'[r][i] = Ended(h, "lost")
          /\ "lost" \in Statuses
      BY <2>2 DEF Crash, Statuses
    <3>2. h.pc # "none"
      BY <2>1, <2>2, NoHandlerIs DEF Placed
    <3>3. QED
      BY <2>1, <3>1, <3>2, EndedIs
  <2>3. CASE ~(h.node = n /\ h.pc # "done")
    <3>1. hops'[r][i] = h
      BY <2>3 DEF Crash
    <3>2. QED
      BY <2>1, <3>1
  <2>4. QED
    BY <2>2, <2>3
<1>4. TypeOK'
  <2>1. hops' \in [Requests -> [Hops -> HandlerType]]
    BY <1>3 DEF Crash
  <2>2. settled' \in [Requests -> BOOLEAN]
    BY DEF Crash, Track, Settled
  <2>3. QED
    BY <1>1, <2>1, <2>2 DEF TypeOK, Crash
<1>5. ASSUME NEW r \in Requests, NEW i \in Hops
      PROVE  Placed(r, i)'
  <2>1. Placed(r, i) /\ Placed(r, 1)
    BY TwoHops DEF IInv
  <2>2. QED
    BY <1>3, <2>1, TwoHops DEF Placed
<1>6. QED
  BY <1>2, <1>4, <1>5 DEF IInv, Crash

-----------------------------------------------------------------------------
(***************************************************************************)
(* The handlers.                                                           *)
(***************************************************************************)

\* A step of handler i of request r, after which it is h.
LEMMA SetIInv ==
    ASSUME IInv, NEW r \in Requests, NEW i \in Hops, NEW h \in HandlerType, Set(r, i, h),
           hops[r][i].pc # "none", h.pc # "none",
           h.node = hops[r][i].node, h.forwarded = hops[r][i].forwarded,
           h.to \in Nodes => i = 1 /\ h.to # h.node,
           settled[r] => Good(i, h)
    PROVE  IInv'
<1>1. TypeOK
  BY DEF IInv
<1>2. /\ hops' = [hops EXCEPT ![r][i] = h]
      /\ UNCHANGED <<up, node, alive, routes>> /\ Track
  BY DEF Set, env
<1>3. hops'[r][i] = h /\ \A q \in Requests, j \in Hops : q # r \/ j # i => hops'[q][j] = hops[q][j]
  BY <1>1, <1>2 DEF TypeOK
<1>4. TypeOK'
  <2>1. hops' \in [Requests -> [Hops -> HandlerType]]
    BY <1>1, <1>2 DEF TypeOK
  <2>2. settled' \in [Requests -> BOOLEAN]
    BY <1>2 DEF Track, Settled
  <2>3. QED
    BY <1>1, <1>2, <2>1, <2>2 DEF TypeOK
<1>5. Settled' = Settled /\ \A n \in Nodes : HasUpstream(n)' = HasUpstream(n)
  BY <1>2 DEF Settled, HasUpstream, Local
<1>6. ASSUME NEW q \in Requests, NEW j \in Hops
      PROVE  Placed(q, j)'
  <2>1. Placed(q, j) /\ Placed(r, i)
    BY DEF IInv
  <2>2. CASE q = r /\ j = i
    BY <1>3, <2>1, <2>2, TwoHops DEF Placed
  <2>3. CASE q # r \/ j # i
    BY <1>3, <2>1, <2>3, TwoHops DEF Placed
  <2>4. QED
    BY <2>2, <2>3
<1>7. \A q \in Requests : settled'[q] => Settled' /\ (hops[q][1].pc = "none" \/ settled[q])
  BY <1>2 DEF Track
<1>8. ASSUME NEW q \in Requests, NEW j \in Hops, settled'[q]
      PROVE  Good(j, hops[q][j])'
  <2>1. Placed(q, j) /\ Placed(r, i)
    BY DEF IInv
  <2>2. CASE hops[q][1].pc = "none"
    <3>1. q # r
      BY <2>1, <2>2, TwoHops DEF Placed
    <3>2. hops[q][j] = NoHandler
      BY <2>1, <2>2, TwoHops DEF Placed
    <3>3. hops'[q][j] = NoHandler
      BY <1>3, <3>1, <3>2
    <3>4. QED
      BY <3>3, NoHandlerIs DEF Good
  <2>3. CASE settled[q]
    <3>1. Good(j, hops'[q][j])
      BY <1>3, <2>3 DEF IInv
    <3>2. node' = node
      BY <1>2
    <3>3. hops'[q][j].pc # "none" => hops'[q][j].node \in Nodes
      BY <1>6 DEF Placed
    <3>4. QED
      BY <1>5, <3>1, <3>2, <3>3 DEF Good
  <2>4. QED
    BY <1>7, <1>8, <2>2, <2>3
<1>9. QED
  BY <1>2, <1>4, <1>5, <1>6, <1>7, <1>8 DEF IInv

\* A handler that goes on with the same upstream.
LEMMA MoveIInv ==
    ASSUME IInv, NEW r \in Requests, NEW i \in Hops, NEW h \in HandlerType, Set(r, i, h),
           hops[r][i].pc # "none", h.pc # "none",
           h.node = hops[r][i].node, h.forwarded = hops[r][i].forwarded,
           h.to = hops[r][i].to,
           settled[r] => h.status \notin {"502", "lost"}
    PROVE  IInv'
<1>1. Placed(r, i) /\ (settled[r] => Good(i, hops[r][i]))
  BY DEF IInv
<1>2. settled[r] => Good(i, h)
  BY <1>1 DEF Good
<1>3. h.to \in Nodes => i = 1 /\ h.to # h.node
  BY <1>1 DEF Placed
<1>4. QED
  BY <1>2, <1>3, SetIInv

\* A handler that ends.
LEMMA EndIInv ==
    ASSUME IInv, NEW r \in Requests, NEW i \in Hops, NEW status \in Statuses,
           hops[r][i].pc # "none", End(r, i, status),
           settled[r] => status \notin {"502", "lost"}
    PROVE  IInv'
<1> DEFINE h == Ended(hops[r][i], status)
<1>1. hops[r][i] \in HandlerType
  BY DEF IInv, TypeOK
<1>2. /\ h \in HandlerType /\ h.pc = "done" /\ h.node = hops[r][i].node
      /\ h.forwarded = hops[r][i].forwarded /\ h.to = hops[r][i].to /\ h.status = status
  BY <1>1, EndedIs
<1>3. Set(r, i, h)
  BY DEF End
<1> HIDE DEF h
<1>4. QED
  BY <1>2, <1>3, MoveIInv

\* A new request has no upstream yet.
LEMMA ArriveIInv == \A r \in Requests, n \in Nodes : IInv /\ Arrive(r, n) => IInv'
<1> SUFFICES ASSUME NEW r \in Requests, NEW n \in Nodes, IInv, Arrive(r, n) PROVE IInv'
  OBVIOUS
<1>1. PICK tcp \in BOOLEAN : Set(r, 1, Handler(n, tcp, FALSE))
  BY DEF Arrive
<1> DEFINE h == Handler(n, tcp, FALSE)
<1>2. /\ h \in HandlerType /\ h.pc = "select" /\ h.node = n /\ h.to = None
      /\ h.forwarded = FALSE /\ h.status = ""
  BY DEF Handler, HandlerType, Pcs, Statuses
<1> HIDE DEF h
<1>3. /\ TypeOK /\ hops[r][1].pc = "none"
      /\ hops' = [hops EXCEPT ![r][1] = h]
      /\ UNCHANGED <<up, node, alive, routes>> /\ Track
  BY <1>1 DEF IInv, Arrive, At, Set, env, h
<1>4. /\ hops'[r][1] = h
      /\ \A q \in Requests, j \in Hops : q # r \/ j # 1 => hops'[q][j] = hops[q][j]
  BY <1>3, TwoHops DEF TypeOK
<1>5. \A j \in Hops : hops[r][j] = NoHandler
  BY <1>3, TwoHops DEF IInv, Placed
<1>6. TypeOK'
  <2>1. hops' \in [Requests -> [Hops -> HandlerType]]
    BY <1>2, <1>3 DEF TypeOK
  <2>2. settled' \in [Requests -> BOOLEAN]
    BY <1>3 DEF Track, Settled
  <2>3. QED
    BY <1>3, <2>1, <2>2 DEF TypeOK
<1>7. ASSUME NEW q \in Requests, NEW j \in Hops
      PROVE  Placed(q, j)'
  <2>1. Placed(q, j)
    BY DEF IInv
  <2>2. CASE q = r
    <3>1. CASE j = 1
      <4>1. hops'[q][j] = h /\ ~h.forwarded /\ h.to \notin Nodes /\ h.pc # "none"
        BY <1>2, <1>4, <2>2, <3>1, NoHandlerIs
      <4>2. j <= 2 /\ j # 2
        BY <3>1
      <4>3. QED
        BY <1>2, <4>1, <4>2 DEF Placed
    <3>2. CASE j # 1
      <4>1. hops'[q][j] = NoHandler
        BY <1>4, <1>5, <2>2, <3>2
      <4>2. QED
        BY <4>1, NoHandlerIs DEF Placed
    <3>3. QED
      BY <3>1, <3>2
  <2>3. CASE q # r
    BY <1>4, <2>1, <2>3, TwoHops DEF Placed
  <2>4. QED
    BY <2>2, <2>3
<1>8. Settled' = Settled /\ \A n1 \in Nodes : HasUpstream(n1)' = HasUpstream(n1)
  BY <1>3 DEF Settled, HasUpstream, Local
<1>9. \A q \in Requests : settled'[q] => Settled' /\ (hops[q][1].pc = "none" \/ settled[q])
  BY <1>3 DEF Track
<1>10. ASSUME NEW q \in Requests, NEW j \in Hops, settled'[q]
       PROVE  Good(j, hops[q][j])'
  <2>1. hops'[q][j] = h \/ hops'[q][j] = NoHandler \/ hops'[q][j] = hops[q][j]
    BY <1>4, <1>5
  <2>2. CASE hops'[q][j] = h
    <3>1. j # 2
      BY <1>2, <1>7, <2>2 DEF Placed
    <3>2. QED
      BY <1>2, <2>2, <3>1, NoHandlerIs DEF Good
  <2>3. CASE hops'[q][j] = NoHandler
    BY <2>3, NoHandlerIs DEF Good
  <2>4. CASE hops'[q][j] = hops[q][j] /\ hops'[q][j] # NoHandler
    <3>1. settled[q]
      BY <1>9, <1>10, <2>4, TwoHops DEF IInv, Placed
    <3>2. Good(j, hops'[q][j]) /\ node' = node
      BY <1>3, <2>4, <3>1 DEF IInv
    <3>3. hops'[q][j].pc # "none" => hops'[q][j].node \in Nodes
      BY <1>7 DEF Placed
    <3>4. QED
      BY <1>8, <3>2, <3>3 DEF Good
  <2>5. QED
    BY <2>1, <2>2, <2>3, <2>4
<1>11. QED
  BY <1>3, <1>6, <1>7, <1>8, <1>9, <1>10 DEF IInv

\* Select refuses only a request to an endpoint that has no upstream, or none
\* where the request was forwarded to.
LEMMA SelectIInv == \A r \in Requests, i \in Hops : IInv /\ Select(r, i) => IInv'
<1> SUFFICES ASSUME NEW r \in Requests, NEW i \in Hops, IInv, Select(r, i) PROVE IInv'
  OBVIOUS
<1> DEFINE h == hops[r][i]
<1>1. TypeOK /\ h \in HandlerType /\ Placed(r, i) /\ h.pc = "select"
  BY DEF IInv, TypeOK, Select, At
<1>2. h.node \in Nodes /\ i <= 2 /\ (h.forwarded <=> i = 2) /\ i \in Nat \ {0}
  BY <1>1, TwoHops DEF Placed
<1>3. CASE Selectable(h) = {}
  <2>1. ~HasUpstream(h.node) /\ (h.forwarded \/ routes[h.node] = {})
    BY <1>3 DEF Selectable, HasUpstream
  <2>2. ~settled[r]
    <3> SUFFICES ASSUME settled[r] PROVE FALSE
      OBVIOUS
    <3>1. Settled /\ Good(i, h)
      BY DEF IInv
    <3>2. ~h.forwarded
      BY <1>1, <1>2, <2>1, <3>1 DEF Good
    <3>3. PICK c \in Conns : node[c] # None
      BY <3>1 DEF Settled
    <3>4. node[c] \in Nodes /\ HasUpstream(node[c])
      BY <1>1, <3>3 DEF TypeOK, HasUpstream, Local
    <3>5. node[c] # h.node
      BY <2>1, <3>4
    <3>6. node[c] \in routes[h.node]
      BY <1>2, <3>1, <3>4, <3>5 DEF Settled
    <3>7. QED
      BY <2>1, <3>2, <3>6
  <2>3. End(r, i, "502")
    BY <1>3 DEF Select
  <2>4. "502" \in Statuses
    BY DEF Statuses
  <2>5. QED
    BY <1>1, <2>2, <2>3, <2>4, EndIInv
<1>4. CASE Selectable(h) # {}
  <2>1. PICK u \in Selectable(h) : Set(r, i, [h EXCEPT !.pc = "dial", !.to = u])
    BY <1>4 DEF Select
  <2> DEFINE g == [h EXCEPT !.pc = "dial", !.to = u]
  <2>2. \/ u \in Conns /\ node[u] = h.node
        \/ u \in routes[h.node] /\ ~h.forwarded
    BY <2>1 DEF Selectable, HasUpstream, Local
  <2>3. /\ u \in Conns => u \notin Nodes /\ node[u] # None
        /\ u \in Nodes => i = 1 /\ u # h.node /\ u \in routes[h.node]
        /\ u \in Nodes \cup Conns
    <3>1. routes[h.node] \subseteq Nodes \ {h.node} /\ Nodes \cap Conns = {}
      BY <1>1, <1>2, ProxyAssumption DEF TypeOK, IInv
    <3>2. h.node # None /\ (~h.forwarded => i = 1)
      <4>1. i = 1 \/ i = 2
        BY <1>2
      <4>2. QED
        BY <1>2, <4>1, NoHandlerIs
    <3>3. QED
      BY <2>2, <3>1, <3>2
  <2>4. /\ g \in HandlerType /\ g.pc = "dial" /\ g.node = h.node
        /\ g.forwarded = h.forwarded /\ g.to = u /\ g.status = h.status
    BY <1>1, <2>3 DEF HandlerType, Pcs
  <2>5. Set(r, i, g)
    BY <2>1
  <2> HIDE DEF g
  <2>6. settled[r] => Good(i, g)
    <3> SUFFICES ASSUME settled[r] PROVE Good(i, g)
      OBVIOUS
    <3>1. Settled /\ Good(i, h)
      BY DEF IInv
    <3>2. u \in Nodes => HasUpstream(u)
      BY <1>2, <2>3, <3>1 DEF Settled
    <3>3. QED
      BY <1>1, <2>3, <2>4, <3>1, <3>2 DEF Good
  <2>7. QED
    BY <1>1, <2>3, <2>4, <2>5, <2>6, SetIInv
<1>5. QED
  BY <1>3, <1>4

\* The second handler is on the node that the first has selected.
LEMMA DialNodeIInv == \A r \in Requests, i \in Hops : IInv /\ DialNode(r, i) => IInv'
<1> SUFFICES ASSUME NEW r \in Requests, NEW i \in Hops, IInv, DialNode(r, i) PROVE IInv'
  OBVIOUS
<1> DEFINE h == hops[r][i]
           g == [h EXCEPT !.pc = "wait"]
           k == Handler(h.to, h.tcp, TRUE)
<1>1. TypeOK /\ h \in HandlerType /\ Placed(r, i) /\ h.pc = "dial" /\ h.to \in Nodes
  BY DEF IInv, TypeOK, DialNode, At
<1>2. i = 1 /\ h.to # h.node /\ h.node \in Nodes /\ ~h.forwarded
  BY <1>1 DEF Placed
<1>3. CASE h.to \notin up
  <2>1. End(r, i, "502")
    BY <1>3 DEF DialNode
  <2>2. ~settled[r]
    BY <1>1, <1>3 DEF IInv, Settled
  <2>3. "502" \in Statuses
    BY DEF Statuses
  <2>4. QED
    BY <1>1, <2>1, <2>2, <2>3, EndIInv
<1>4. CASE h.to \in up
  <2>1. /\ g \in HandlerType /\ g.pc = "wait" /\ g.node = h.node /\ g.to = h.to
        /\ g.forwarded = h.forwarded /\ g.status = h.status
    BY <1>1 DEF HandlerType, Pcs
  <2>2. /\ k \in HandlerType /\ k.pc = "select" /\ k.node = h.to /\ k.to = None
        /\ k.forwarded = TRUE /\ k.status = ""
    BY <1>1 DEF Handler, HandlerType, Pcs, Statuses
  <2>3. /\ hops' = [hops EXCEPT ![r][i].pc = "wait", ![r][i + 1] = k]
        /\ UNCHANGED <<up, node, alive, routes>> /\ Track
    BY <1>4 DEF DialNode, env
  <2>4. /\ hops'[r][1] = g /\ hops'[r][2] = k
        /\ \A q \in Requests, j \in Hops :
             q # r \/ j \notin {1, 2} => hops'[q][j] = hops[q][j]
        /\ hops' \in [Requests -> [Hops -> HandlerType]]
    <3> DEFINE f == [[hops[r] EXCEPT ![i] = g] EXCEPT ![i + 1] = k]
    <3>1. hops[r] \in [Hops -> HandlerType] /\ i + 1 = 2 /\ i = 1 /\ {i, i + 1} \subseteq Hops
      BY <1>1, <1>2, TwoHops DEF TypeOK
    <3>2. hops' = [hops EXCEPT ![r] = f]
      BY <1>1, <2>3, <3>1 DEF TypeOK
    <3>3. f \in [Hops -> HandlerType]
      BY <2>1, <2>2, <3>1
    <3>4. f[1] = g /\ f[2] = k /\ \A j \in Hops : j \notin {1, 2} => f[j] = hops[r][j]
      <4>1. i # i + 1
        BY <3>1
      <4>2. f[i] = g /\ f[i + 1] = k
        BY <3>1, <4>1
      <4>3. \A j \in Hops : j # i /\ j # i + 1 => f[j] = hops[r][j]
        BY <3>1
      <4> HIDE DEF f, g, k
      <4>4. QED
        BY <3>1, <4>2, <4>3
    <3> HIDE DEF f
    <3>5. QED
      BY <1>1, <3>2, <3>3, <3>4 DEF TypeOK
  <2> HIDE DEF g, k
  <2>5. TypeOK'
    <3>1. settled' \in [Requests -> BOOLEAN]
      BY <2>3 DEF Track, Settled
    <3>2. QED
      BY <1>1, <2>3, <2>4, <3>1 DEF TypeOK
  <2>6. ASSUME NEW q \in Requests, NEW j \in Hops
        PROVE  Placed(q, j)'
    <3>1. Placed(q, j)
      BY DEF IInv
    <3>2. CASE q = r /\ j = 1
      BY <1>1, <1>2, <2>1, <2>4, <3>2 DEF Placed
    <3>3. CASE q = r /\ j = 2
      <4>1. /\ hops'[q][j] = k /\ k.forwarded /\ k.to \notin Nodes /\ k.pc # "none"
            /\ hops'[q][1].pc # "none" /\ hops'[q][1].node # k.node
        BY <1>2, <2>1, <2>2, <2>4, <3>3, NoHandlerIs
      <4>2. j <= 2 /\ j = 2
        BY <3>3
      <4>3. QED
        BY <1>1, <2>2, <4>1, <4>2 DEF Placed
    <3>4. CASE q # r \/ j \notin {1, 2}
      BY <2>4, <3>1, <3>4, TwoHops DEF Placed
    <3>5. QED
      BY <3>2, <3>3, <3>4
  <2>7. Settled' = Settled /\ \A n \in Nodes : HasUpstream(n)' = HasUpstream(n)
    BY <2>3 DEF Settled, HasUpstream, Local
  <2>8. \A q \in Requests : settled'[q] => Settled' /\ (hops[q][1].pc = "none" \/ settled[q])
    BY <2>3 DEF Track
  <2>9. ASSUME NEW q \in Requests, NEW j \in Hops, settled'[q]
        PROVE  Good(j, hops[q][j])'
    <3>1. CASE hops[q][1].pc = "none"
      <4>1. q # r
        BY <1>1, <1>2, <3>1
      <4>2. hops[q][j] = NoHandler
        BY <3>1, TwoHops DEF IInv, Placed
      <4>3. hops'[q][j] = NoHandler
        BY <2>4, <4>1, <4>2
      <4>4. QED
        BY <4>3, NoHandlerIs DEF Good
    <3>2. CASE settled[q]
      <4>1. Good(j, hops'[q][j])
        <5>1. Good(j, hops[q][j]) /\ Good(1, hops[q][1])
          BY <3>2, TwoHops DEF IInv
        <5>2. CASE q = r /\ j = 1
          BY <1>2, <2>1, <2>4, <5>1, <5>2 DEF Good
        <5>3. CASE q = r /\ j = 2
          BY <1>1, <1>2, <2>2, <2>4, <5>1, <5>3, NoHandlerIs DEF Good
        <5>4. CASE q # r \/ j \notin {1, 2}
          BY <2>4, <5>1, <5>4
        <5>5. QED
          BY <5>2, <5>3, <5>4
      <4>2. hops'[q][j].pc # "none" => hops'[q][j].node \in Nodes
        BY <2>6 DEF Placed
      <4>3. node' = node
        BY <2>3
      <4>4. QED
        BY <2>7, <4>1, <4>2, <4>3 DEF Good
    <3>3. QED
      BY <2>8, <2>9, <3>1, <3>2
  <2>10. QED
    BY <2>3, <2>5, <2>6, <2>7, <2>8, <2>9 DEF IInv
<1>5. QED
  BY <1>3, <1>4

\* The other steps of a handler end it, or change only how far it is, and end
\* it with 502 only if the upstream or the other node was lost or has refused.
LEMMA OtherIInv ==
    ASSUME NEW r \in Requests, NEW i \in Hops, IInv,
           \/ DialConn(r, i) \/ Respond(r, i) \/ UpstreamLost(r, i) \/ Relay(r, i)
           \/ Timeout(r, i) \/ Abandoned(r, i)
           \/ \E e \in Ends : Write(r, i, e) \/ Written(r, i, e) \/ CopyEnds(r, i, e)
    PROVE  IInv'
<1> DEFINE h == hops[r][i]
<1>1. TypeOK /\ h \in HandlerType /\ Placed(r, i)
  BY DEF IInv, TypeOK
<1>2. settled[r] => Settled /\ Good(i, h)
  BY DEF IInv
<1>3. settled[r] => (h.to \in Conns => h.to \in alive)
  BY <1>2 DEF Settled, Good
<1>4. /\ {"wait", "open", "done"} \subseteq Pcs \ {"none"}
      /\ {"200", "400", "502", "504", "closed", "abandoned", "cut"} \subseteq Statuses
  BY DEF Pcs, Statuses
<1>5. h.status \in Statuses /\ (settled[r] => h.status \notin {"502", "lost"})
  BY <1>1, <1>2 DEF HandlerType, Good
<1>6. h.pc # "none"
  <2>1. CASE \E e \in Ends : Written(r, i, e)
    <3>1. h.blocked # {}
      BY <2>1 DEF Written
    <3>2. h # NoHandler
      BY <3>1, NoHandlerIs
    <3>3. QED
      BY <1>1, <3>2 DEF Placed
  <2>2. CASE ~\E e \in Ends : Written(r, i, e)
    BY <2>2 DEF DialConn, Respond, UpstreamLost, Relay, Timeout, Abandoned, Write,
                CopyEnds, At
  <2>3. QED
    BY <2>1, <2>2
<1>7. ASSUME NEW to \in {"wait", "open"}, NEW status \in {h.status, "cut"},
             NEW copies \in SUBSET Ends, NEW blocked \in SUBSET Ends,
             Set(r, i, [h EXCEPT !.pc = to, !.status = status, !.copies = copies,
                                 !.blocked = blocked])
      PROVE  IInv'
  <2> DEFINE g == [h EXCEPT !.pc = to, !.status = status, !.copies = copies,
                            !.blocked = blocked]
  <2>1. /\ g \in HandlerType /\ g.pc = to /\ g.node = h.node /\ g.status = status
        /\ g.forwarded = h.forwarded /\ g.to = h.to
    BY <1>1, <1>4, <1>5 DEF HandlerType
  <2>2. Set(r, i, g)
    BY <1>7
  <2> HIDE DEF g
  <2>3. QED
    BY <1>5, <1>6, <2>1, <2>2, MoveIInv
<1>8. Open(r, i) => IInv'
  <2> SUFFICES ASSUME Open(r, i) PROVE IInv'
    OBVIOUS
  <2>1. [h EXCEPT !.pc = "open", !.copies = Ends]
          = [h EXCEPT !.pc = "open", !.status = h.status, !.copies = Ends,
                      !.blocked = h.blocked]
    BY <1>1 DEF HandlerType
  <2>2. h.blocked \in SUBSET Ends
    BY <1>1 DEF HandlerType
  <2>3. QED
    BY <1>7, <2>1, <2>2 DEF Open
<1>9. CASE DialConn(r, i)
  <2>1. CASE h.to \notin alive
    BY <1>3, <1>4, <1>6, <1>9, <2>1, EndIInv DEF DialConn
  <2>2. CASE h.to \in alive /\ h.tcp
    BY <1>4, <1>6, <1>8, <1>9, <2>2, EndIInv DEF DialConn
  <2>3. CASE h.to \in alive /\ ~h.tcp
    <3>1. Set(r, i, [h EXCEPT !.pc = "wait"])
      BY <1>9, <2>3 DEF DialConn
    <3>2. /\ [h EXCEPT !.pc = "wait"]
               = [h EXCEPT !.pc = "wait", !.status = h.status, !.copies = h.copies,
                           !.blocked = h.blocked]
          /\ h.copies \in SUBSET Ends /\ h.blocked \in SUBSET Ends
      BY <1>1 DEF HandlerType
    <3>3. QED
      BY <1>7, <3>1, <3>2
  <2>4. QED
    BY <2>1, <2>2, <2>3
<1>10. CASE Respond(r, i)
  BY <1>4, <1>6, <1>10, EndIInv DEF Respond
<1>11. CASE UpstreamLost(r, i)
  <2>1. ~settled[r] /\ End(r, i, "502")
    BY <1>3, <1>11 DEF UpstreamLost
  <2>2. QED
    BY <1>4, <1>6, <2>1, EndIInv
<1>12. CASE Relay(r, i)
  <2>1. i = 1
    BY <1>1, <1>12 DEF Relay, Placed
  <2> DEFINE k == hops[r][2]
  <2>2. settled[r] => k.status \notin {"502", "lost"}
    BY TwoHops DEF IInv, Good
  <2>3. \/ Open(r, i)
        \/ k.status \in {"200", "400", "502", "504"} /\ End(r, i, k.status)
        \/ k.status = "lost" /\ End(r, i, "502")
    BY <1>12, <2>1 DEF Relay
  <2>4. CASE k.status \in {"200", "400", "502", "504"} /\ End(r, i, k.status)
    BY <1>4, <1>6, <2>2, <2>4, EndIInv
  <2>5. CASE k.status = "lost" /\ End(r, i, "502")
    BY <1>4, <1>6, <2>2, <2>5, EndIInv
  <2>6. QED
    BY <1>8, <2>3, <2>4, <2>5
<1>13. ASSUME NEW status \in {"504", "abandoned", "closed", "cut"}, End(r, i, status)
       PROVE  IInv'
  BY <1>4, <1>6, <1>13, EndIInv
<1>14. CASE Timeout(r, i)
  <2>1. CASE End(r, i, "504")
    BY <1>13, <2>1
  <2>2. CASE At(r, i, "open") /\ Set(r, i, [h EXCEPT !.status = "cut"])
    <3>1. /\ [h EXCEPT !.status = "cut"]
               = [h EXCEPT !.pc = "open", !.status = "cut", !.copies = h.copies,
                           !.blocked = h.blocked]
          /\ h.copies \in SUBSET Ends /\ h.blocked \in SUBSET Ends
      BY <1>1, <2>2 DEF HandlerType, At
    <3>2. QED
      BY <1>7, <2>2, <3>1
  <2>3. QED
    BY <1>14, <2>1, <2>2 DEF Timeout
<1>15. CASE Abandoned(r, i)
  BY <1>13, <1>15 DEF Abandoned
<1>16. ASSUME NEW e \in Ends, Write(r, i, e) \/ Written(r, i, e) PROVE IInv'
  <2>1. PICK blocked \in SUBSET Ends : Set(r, i, [h EXCEPT !.blocked = blocked])
    BY <1>1, <1>16 DEF Write, Written, HandlerType
  <2> DEFINE g == [h EXCEPT !.blocked = blocked]
  <2>2. /\ g \in HandlerType /\ g.pc = h.pc /\ g.node = h.node /\ g.status = h.status
        /\ g.forwarded = h.forwarded /\ g.to = h.to
    BY <1>1 DEF HandlerType
  <2>3. Set(r, i, g)
    BY <2>1
  <2> HIDE DEF g
  <2>4. QED
    BY <1>5, <1>6, <2>2, <2>3, MoveIInv
<1>17. ASSUME NEW e \in Ends, CopyEnds(r, i, e) PROVE IInv'
  <2>1. CASE h.to \in Nodes \/ h.copies = {e}
    BY <1>13, <1>17, <2>1 DEF CopyEnds
  <2>2. CASE ~(h.to \in Nodes \/ h.copies = {e})
    <3>1. /\ Set(r, i, [h EXCEPT !.copies = @ \ {e}, !.blocked = @ \ {e}])
          /\ h.pc = "open"
      BY <1>17, <2>2 DEF CopyEnds, At
    <3>2. /\ [h EXCEPT !.copies = @ \ {e}, !.blocked = @ \ {e}]
               = [h EXCEPT !.pc = "open", !.status = h.status,
                           !.copies = h.copies \ {e}, !.blocked = h.blocked \ {e}]
          /\ h.copies \ {e} \in SUBSET Ends /\ h.blocked \ {e} \in SUBSET Ends
      BY <1>1, <3>1 DEF HandlerType
    <3>3. QED
      BY <1>7, <3>1, <3>2
  <2>3. QED
    BY <2>1, <2>2
<1>18. QED
  BY <1>9, <1>10, <1>11, <1>12, <1>14, <1>15, <1>16, <1>17

\* The inductive invariant is kept by every step.
LEMMA NextIInv == IInv /\ [Next]_vars => IInv'
<1> SUFFICES ASSUME IInv, [Next]_vars PROVE IInv'
  OBVIOUS
<1>2. CASE Environment
  BY <1>2, RoutesIInv, CrashIInv DEF Environment
<1>3. CASE \E r \in Requests, n \in Nodes : Arrive(r, n)
  BY <1>3, ArriveIInv
<1>4. CASE \E r \in Requests, i \in Hops : Handle(r, i)
  BY <1>4, SelectIInv, DialNodeIInv, OtherIInv DEF Handle, Step
<1>5. CASE UNCHANGED vars
  <2>1. TypeOK'
    BY <1>5 DEF IInv, TypeOK, vars
  <2>2. Settled' = Settled
    BY <1>5 DEF vars, Settled, HasUpstream, Local
  <2>3. QED
    BY <1>5, <2>1, <2>2 DEF IInv, vars, Placed, Good, HasUpstream, Local
<1>6. QED
  BY <1>2, <1>3, <1>4, <1>5 DEF Next

-----------------------------------------------------------------------------
(***************************************************************************)
(* The theorems.                                                           *)
(***************************************************************************)

\* The first handler of a request is not marked as forwarded, the second is,
\* there is no third, and as long as nothing is disturbed what they have
\* selected is there (server/proxy).
THEOREM Invariance == Spec => []IInv
<1>1. QED
  BY InitIInv, NextIInv, PTL DEF Spec

\* "We don't allow multiple hops" (server/proxy/httpproxy.go:78): in a cluster of
\* any size, with any stale routes, no request visits more than two nodes.
THEOREM OneHopHolds == Spec => []OneHop
<1>1. IInv => OneHop
  <2> SUFFICES ASSUME IInv, NEW r \in Requests, NEW i \in Hops, ~At(r, i, "none")
               PROVE  i <= 2 /\ \A j \in 1 .. i - 1 : hops[r][j].node # hops[r][i].node
    BY DEF OneHop
  <2>1. Placed(r, i) /\ hops[r][i].pc # "none" /\ i \in Nat \ {0}
    BY TwoHops DEF IInv, At
  <2>2. i <= 2 /\ (i = 2 => hops[r][1].node # hops[r][i].node)
    BY <2>1 DEF Placed
  <2>3. \A j \in 1 .. i - 1 : i = 2 /\ j = 1
    BY <2>1, <2>2
  <2>4. QED
    BY <2>2, <2>3
<1>2. QED
  BY <1>1, Invariance, PTL

\* The proxies refuse a request with 502 only if, since it arrived, a route was
\* wrong, or a node, a session or an upstream was lost: no path through Select
\* and Dial of several nodes loses a request that could be served.
THEOREM RefusedForCauseHolds == Spec => []RefusedForCause
<1>1. IInv => RefusedForCause
  BY DEF IInv, Good, RefusedForCause
<1>2. QED
  BY <1>1, Invariance, PTL

=============================================================================
