-------------------------- MODULE PeerRoutesProofs --------------------------
(***************************************************************************)
(* What peer_network keeps at each end, for every set of routes and every  *)
(* number of connections and failures.                                     *)
(***************************************************************************)
EXTENDS PeerRoutes, FiniteSetTheorems, WellFoundedInduction, TLAPS

LinkType == [End -> [Route -> Conn \cup {None}]]

\* A connection is at its own route, works or has failed, and a callback that
\* is to run is of one that has failed.
Shapes ==
  /\ link \in LinkType
  /\ \A e \in End, r \in Route : link[e][r] # None => link[e][r][1] = r
  /\ dialled \subseteq Conn
  /\ ready \in [End -> SUBSET Conn] /\ failed \in [End -> SUBSET Conn]
  /\ callbacks \in [End -> SUBSET Conn]
  /\ \A e \in End : ready[e] \cap failed[e] = {} /\ callbacks[e] \subseteq failed[e]
  /\ session \in [End -> [Route -> Nat]]
  /\ selected \in [End -> Route \cup {None}] /\ selecting \in [End -> Route \cup {None}]

(***************************************************************************)
(* A set of numbers has a smallest one.                                    *)
(***************************************************************************)
LEMMA SmallestNumber ==
  ASSUME NEW S \in SUBSET Nat, S # {}
  PROVE  \E x \in S : \A y \in S : x <= y
<1>1. PICK x \in S : \A y \in S : ~(<<y, x>> \in OpToRel(<, Nat))
  BY NatLessThanWellFounded, WFMin, Zenon
<1>2. \A y \in S : x <= y
  <2> SUFFICES ASSUME NEW y \in S, y < x PROVE FALSE
    OBVIOUS
  <2>1. <<y, x>> \in OpToRel(<, Nat)
    BY DEF OpToRel
  <2> QED BY <1>1, <2>1
<1> QED BY <1>2

(***************************************************************************)
(* There is a number that is not in use: next_session_ never repeats one.  *)
(***************************************************************************)
LEMMA FreshIsNew ==
  ASSUME NEW used, IsFiniteSet(used)
  PROVE  Fresh(used) \in Nat \ {0} /\ Fresh(used) \notin used
<1> DEFINE k == Cardinality(used) + 1
           S == (1..k) \ used
<1>1. k \in Nat /\ k > Cardinality(used) /\ Cardinality(used) \in Nat
  BY FS_CardinalityType
<1>2. S # {}
  <2> SUFFICES ASSUME S = {} PROVE FALSE
    OBVIOUS
  <2>1. (1..k) \in SUBSET used
    OBVIOUS
  <2> HIDE DEF k
  <2>2. Cardinality(1..k) = k
    BY <1>1, FS_Interval
  <2>3. Cardinality(1..k) <= Cardinality(used)
    BY <2>1, FS_Subset
  <2> QED BY <1>1, <2>2, <2>3
<1> HIDE DEF k
<1>3. PICK n \in S : \A m \in S : n <= m
  <2>1. S \in SUBSET Nat
    BY <1>1
  <2> QED BY <1>2, <2>1, SmallestNumber
<1>4. n \in 1..k /\ n \notin used /\ \A m \in 1..(n - 1) : m \in used
  <2>1. ASSUME NEW m \in 1..(n - 1), m \notin used PROVE FALSE
    <3>1. n \in Nat /\ m \in Nat /\ m <= n - 1 /\ m \in 1..k
      BY <1>1, <1>3, <2>1
    <3> QED BY <1>3, <2>1, <3>1
  <2> QED BY <1>3, <2>1
<1>5. Fresh(used) \in 1..k /\ Fresh(used) \notin used
  BY <1>4 DEF Fresh, k
<1> QED BY <1>1, <1>5

(***************************************************************************)
(* attach() at some of the ends.                                           *)
(***************************************************************************)
LEMMA AttachShapes ==
  ASSUME Shapes, NEW c \in Conn, c[1] \in Route, NEW es \in SUBSET End, Attach(c, es), dialled' \subseteq Conn
  PROVE  Shapes'
<1> DEFINE At(e) == IF e \in es THEN {link[e][c[1]]} \ {None} ELSE {}
<1>1. /\ link' = [e \in End |-> IF e \in es THEN [link[e] EXCEPT ![c[1]] = c] ELSE link[e]]
      /\ session' = [e \in End |-> IF e \in es THEN [session[e] EXCEPT ![c[1]] = 0] ELSE session[e]]
      /\ ready' = [e \in End |-> ready[e] \ At(e)]
      /\ callbacks' = [e \in End |-> callbacks[e] \cup (At(e) \ failed[e])]
      /\ failed' = [e \in End |-> failed[e] \cup At(e)]
      /\ UNCHANGED <<selected, selecting>>
  BY DEF Attach
<1>2. \A e \in End : At(e) \subseteq Conn
  BY DEF Shapes, LinkType
<1> HIDE DEF At
<1>3. link' \in LinkType /\ \A e \in End, r \in Route : link'[e][r] # None => link'[e][r][1] = r
  <2>1. ASSUME NEW e \in End
        PROVE  link'[e] \in [Route -> Conn \cup {None}]
               /\ \A r \in Route : link'[e][r] # None => link'[e][r][1] = r
    <3>1. link[e] \in [Route -> Conn \cup {None}] /\ \A r \in Route : link[e][r] # None => link[e][r][1] = r
      BY DEF Shapes, LinkType
    <3>2. link'[e] = IF e \in es THEN [link[e] EXCEPT ![c[1]] = c] ELSE link[e]
      BY <1>1
    <3> QED BY <3>1, <3>2
  <2> QED BY <1>1, <2>1 DEF LinkType
<1>4. session' \in [End -> [Route -> Nat]]
  BY <1>1 DEF Shapes
<1>5. ready' \in [End -> SUBSET Conn] /\ failed' \in [End -> SUBSET Conn] /\ callbacks' \in [End -> SUBSET Conn]
  BY <1>1, <1>2 DEF Shapes
<1>6. \A e \in End : ready'[e] \cap failed'[e] = {} /\ callbacks'[e] \subseteq failed'[e]
  BY <1>1 DEF Shapes
<1> QED BY <1>1, <1>3, <1>4, <1>5, <1>6 DEF Shapes

(***************************************************************************)
(* fail() of a route's connection.                                         *)
(***************************************************************************)
LEMMA FailShapes ==
  ASSUME Shapes, NEW e \in End, NEW r \in Route, link[e][r] \in Conn, FailLink(e, r),
         UNCHANGED routes
  PROVE  Shapes'
<1> DEFINE c == link[e][r]
<1>1. /\ ready' = [ready EXCEPT ![e] = @ \ {c}] /\ failed' = [failed EXCEPT ![e] = @ \cup {c}]
      /\ callbacks' = [callbacks EXCEPT ![e] = @ \cup {c}] /\ dialled' = dialled \ {c}
      /\ UNCHANGED <<link, session, selected, selecting>> /\ c \in Conn
  BY DEF FailLink, routes
<1> HIDE DEF c
<1>2. ready' \in [End -> SUBSET Conn] /\ failed' \in [End -> SUBSET Conn] /\ callbacks' \in [End -> SUBSET Conn]
  BY <1>1 DEF Shapes
<1>3. \A d \in End : ready'[d] \cap failed'[d] = {} /\ callbacks'[d] \subseteq failed'[d]
  BY <1>1 DEF Shapes
<1> QED BY <1>1, <1>2, <1>3 DEF Shapes

(***************************************************************************)
(* A step that only moves frames.                                          *)
(***************************************************************************)
LEMMA FrameShapes ==
  ASSUME Shapes, UNCHANGED <<links, routes>>
  PROVE  Shapes'
BY DEF Shapes, links, routes

(***************************************************************************)
(* A route becomes the selected one and gets a session of its own.         *)
(***************************************************************************)
LEMMA ActivateShapes ==
  ASSUME Shapes, NEW e \in End, NEW r \in Route, Activate(e, r), UNCHANGED links
  PROVE  Shapes'
<1> DEFINE R == {session[e][x] : x \in Route}
           n == Fresh(R \cup {peer[e].session})
<1>1. n \in Nat
  <2>1. session[e] \in Surjection(Route, R)
    BY DEF Shapes, Surjection
  <2>2. IsFiniteSet(R)
    <3> HIDE DEF R
    <3> QED BY <2>1, FS_Surjection, RoutesAssumption
  <2> HIDE DEF R
  <2>3. IsFiniteSet(R \cup {peer[e].session})
    BY <2>2, FS_AddElement
  <2> QED BY <2>3, FreshIsNew
<1>2. /\ selected' = [selected EXCEPT ![e] = r] /\ selecting' = [selecting EXCEPT ![e] = None]
      /\ session' = [session EXCEPT ![e][r] = n]
  BY DEF Activate
<1> HIDE DEF n
<1>3. session' \in [End -> [Route -> Nat]]
  BY <1>1, <1>2 DEF Shapes
<1>4. UNCHANGED <<link, dialled, ready, failed, callbacks>>
  BY DEF links
<1> QED BY <1>2, <1>3, <1>4 DEF Shapes

(***************************************************************************)
(* A connection that nothing refers to is one of its route.                *)
(***************************************************************************)
LEMMA LowestSpare ==
  ASSUME NEW e \in End, NEW r \in Route, Spare(e, r) # {}
  PROVE  Lowest(Spare(e, r)) \in Spare(e, r) /\ Lowest(Spare(e, r)) \in Conn
         /\ Lowest(Spare(e, r))[1] = r
<1> DEFINE S == Spare(e, r)
           N == {c[3] : c \in S}
<1>1. \A c \in S : c \in Conn /\ c[1] = r
  BY DEF Spare
<1>2. \A c \in Conn : c[3] \in Nat
  BY RoutesAssumption DEF Conn
<1> HIDE DEF S
<1>3. N \in SUBSET Nat /\ N # {}
  BY <1>1, <1>2 DEF S
<1>4. PICK x \in N : \A y \in N : x <= y
  BY <1>3, SmallestNumber
<1>5. \E c \in S : \A d \in S : c[3] <= d[3]
  BY <1>4
<1>6. Lowest(S) \in S
  BY <1>5 DEF Lowest
<1> QED BY <1>1, <1>6 DEF S

\* A connection is on one of the routes.
LEMMA RouteOf ==
  \A c \in Conn : c[1] \in Route
BY RoutesAssumption DEF Conn

\* At first there are no connections.
LEMMA InitShapes ==
  Init => Shapes
<1> SUFFICES ASSUME Init PROVE Shapes
  OBVIOUS
<1>1. link \in LinkType
  BY DEF Init, LinkType
<1> QED BY <1>1 DEF Init, Shapes

(***************************************************************************)
(* Steps that change connections.                                          *)
(***************************************************************************)
LEMMA ConnectionShapes ==
  ASSUME Shapes, NEW e \in End, NEW r \in Route,
         JoinRelay(r) \/ Dial(e, r) \/ Handshake(e, r) \/ Fault(e, r) \/ PeerClosed(e, r)
  PROVE  Shapes'
<1>1. CASE JoinRelay(r)
  <2>1. Spare("lo", r) # {} /\ Attach(Lowest(Spare("lo", r)), End) /\ dialled' = dialled
    BY <1>1 DEF JoinRelay
  <2>2. Lowest(Spare("lo", r)) \in Conn /\ Lowest(Spare("lo", r))[1] \in Route
    BY <2>1, LowestSpare DEF End
  <2>3. dialled' \subseteq Conn
    BY <2>1 DEF Shapes
  <2> QED BY <2>1, <2>2, <2>3, AttachShapes
<1>2. CASE Dial(e, r)
  <2> DEFINE c == Lowest(Spare(e, r))
  <2>1. Spare(e, r) # {} /\ Attach(c, {e}) /\ dialled' = dialled \cup {c}
    BY <1>2 DEF Dial
  <2>2. c \in Conn /\ c[1] \in Route
    BY <2>1, LowestSpare
  <2> HIDE DEF c
  <2>3. dialled' \subseteq Conn
    BY <2>1, <2>2 DEF Shapes
  <2> QED BY <2>1, <2>2, <2>3, AttachShapes
<1>3. CASE Handshake(e, r)
  <2> DEFINE c == link[e][r]
  <2>1. /\ c # None /\ c \notin failed[e] /\ ready' = [ready EXCEPT ![e] = @ \cup {c}]
        /\ UNCHANGED <<link, dialled, failed, callbacks, session, selected, selecting>>
    BY <1>3 DEF Handshake, routes
  <2>2. c \in Conn
    BY <2>1 DEF Shapes, LinkType
  <2> HIDE DEF c
  <2>3. ready' \in [End -> SUBSET Conn]
    BY <2>1, <2>2 DEF Shapes
  <2>4. \A d \in End : ready'[d] \cap failed'[d] = {}
    BY <2>1 DEF Shapes
  <2> QED BY <2>1, <2>3, <2>4 DEF Shapes
<1>4. CASE Fault(e, r)
  <2>1. link[e][r] \in Conn
    BY <1>4 DEF Fault, Shapes, LinkType
  <2> QED BY <1>4, <2>1, FailShapes DEF Fault
<1>5. CASE PeerClosed(e, r)
  <2>1. link[e][r] \in Conn
    BY <1>5 DEF PeerClosed, Shapes, LinkType
  <2> QED BY <1>5, <2>1, FailShapes DEF PeerClosed
<1> QED BY <1>1, <1>2, <1>3, <1>4, <1>5

(***************************************************************************)
(* The listener's answer and the callback of a closed connection.          *)
(***************************************************************************)
LEMMA CallbackShapes ==
  ASSUME Shapes, NEW e \in End, NEW c \in Conn, Accept(e, c) \/ RefuseDial(e, c) \/ Closed(e, c)
  PROVE  Shapes'
<1>1. CASE Accept(e, c)
  <2>1. Attach(c, {e}) /\ dialled' \subseteq Conn /\ c[1] \in Route
    BY <1>1, RouteOf DEF Accept, Shapes
  <2> QED BY <2>1, AttachShapes
<1>2. CASE RefuseDial(e, c)
  BY <1>2 DEF RefuseDial, Shapes, routes
<1>3. CASE Closed(e, c)
  <2> DEFINE r == c[1]
             mine == link[e][r] = c
  <2>1. /\ callbacks' = [callbacks EXCEPT ![e] = @ \ {c}] /\ failed' = [failed EXCEPT ![e] = @ \ {c}]
        /\ link' = [link EXCEPT ![e][r] = IF mine THEN None ELSE @]
        /\ selected' = [selected EXCEPT ![e] = IF mine /\ @ = r THEN None ELSE @]
        /\ selecting' = [selecting EXCEPT ![e] = IF mine /\ @ = r THEN None ELSE @]
        /\ UNCHANGED <<dialled, ready, session>>
    BY <1>3 DEF Closed
  <2>2. r \in Route
    BY RouteOf
  <2> HIDE DEF r, mine
  <2>3. link' \in LinkType /\ \A d \in End, x \in Route : link'[d][x] # None => link'[d][x][1] = x
    BY <2>1, <2>2 DEF Shapes, LinkType
  <2>4. selected' \in [End -> Route \cup {None}] /\ selecting' \in [End -> Route \cup {None}]
    BY <2>1 DEF Shapes
  <2>5. callbacks' \in [End -> SUBSET Conn] /\ failed' \in [End -> SUBSET Conn]
    BY <2>1 DEF Shapes
  <2>6. \A d \in End : ready'[d] \cap failed'[d] = {} /\ callbacks'[d] \subseteq failed'[d]
    BY <2>1 DEF Shapes
  <2> QED BY <2>1, <2>3, <2>4, <2>5, <2>6 DEF Shapes
<1> QED BY <1>1, <1>2, <1>3

(***************************************************************************)
(* Steps that read or send frames.                                         *)
(***************************************************************************)
LEMMA IncomingLink ==
  ASSUME Shapes, NEW e \in End, NEW r \in Route, NEW types, Incoming(e, r, types)
  PROVE  link[e][r] \in Conn
BY DEF Incoming, Established, Shapes

\* Any frame is read, or lo asks for a route.
LEMMA ReceiveShapes ==
  ASSUME Shapes, NEW e \in End, NEW r \in Route, SelectRoute(r) \/ Receive(e, r)
  PROVE  Shapes'
<1>1. CASE SelectRoute(r)
  BY <1>1 DEF SelectRoute, Shapes, links, End
<1>2. CASE ReceiveAsk(r)
  BY <1>2 DEF ReceiveAsk, Shapes, links, End
<1>3. CASE ReceiveGo(r)
  BY <1>3, ActivateShapes DEF ReceiveGo, End
<1>4. CASE ReceiveAgree(r)
  BY <1>4, ActivateShapes DEF ReceiveAgree, End
<1>5. CASE Unexpected(e, r)
  BY <1>5, IncomingLink, FailShapes DEF Unexpected
<1>6. CASE ReceiveData(e, r)
  <2>1. Incoming(e, r, {"announce", "exchange"}) /\ UNCHANGED routes
        /\ (UNCHANGED links \/ FailLink(e, r))
    BY <1>6 DEF ReceiveData
  <2>2. link[e][r] \in Conn
    BY <2>1, IncomingLink
  <2> QED BY <2>1, <2>2, FailShapes, FrameShapes
<1>7. CASE DropData(e, r)
  BY <1>7, FrameShapes DEF DropData
<1> QED BY <1>1, <1>2, <1>3, <1>4, <1>5, <1>6, <1>7 DEF Receive

\* Every step keeps the shapes.
LEMMA NextShapes ==
  Shapes /\ [Next]_vars => Shapes'
<1> SUFFICES ASSUME Shapes, [Next]_vars PROVE Shapes'
  OBVIOUS
<1>1. ASSUME NEW r \in Route, JoinRelay(r) \/ SelectRoute(r) PROVE Shapes'
  BY <1>1, ConnectionShapes, ReceiveShapes DEF End
<1>2. ASSUME NEW e \in End, NEW r \in Route,
             Dial(e, r) \/ Handshake(e, r) \/ Fault(e, r) \/ PeerClosed(e, r) \/ Receive(e, r)
      PROVE  Shapes'
  BY <1>2, ConnectionShapes, ReceiveShapes
<1>3. ASSUME NEW e \in End, NEW c \in Conn, Accept(e, c) \/ RefuseDial(e, c) \/ Closed(e, c)
      PROVE  Shapes'
  BY <1>3, CallbackShapes
<1>4. ASSUME NEW e \in End, Send(e) \/ Forget(e) PROVE Shapes'
  BY <1>4, FrameShapes DEF Send, Forget
<1>5. CASE UNCHANGED vars
  BY <1>5, FrameShapes DEF vars, links, routes
<1> QED BY <1>1, <1>2, <1>3, <1>4, <1>5 DEF Next

(***************************************************************************)
(* The variables hold what peer_network declares.                          *)
(***************************************************************************)
THEOREM TypeCorrect == Spec => []TypeOK
<1>1. Shapes => TypeOK
  <2> SUFFICES ASSUME Shapes PROVE TypeOK
    OBVIOUS
  <2>1. \A e \in End, r \in Route : link[e][r] \in {None} \cup {c \in Conn : c[1] = r}
    BY DEF Shapes, LinkType
  <2> QED BY <2>1 DEF Shapes, TypeOK
<1> QED BY <1>1, InitShapes, NextShapes, PTL DEF Spec

---------------------------------------------------------------------------
(***************************************************************************)
(* How connections, sessions and the choice of a route hang together.      *)
(***************************************************************************)
\* The handshake has not completed at the end yet.
Untried(e, c) == link[e][c[1]] = c /\ c \notin ready[e] \cup failed[e]

\* A connection works only in its place and after it was answered; until then
\* its route has no session.  At lo a connection is never displaced, so that
\* the selected route has one that worked, and only another route is asked for.
Wiring ==
  /\ callbacks = failed
  /\ \A e \in End : \A c \in ready[e] : link[e][c[1]] = c
  /\ \A e \in End : dialled \cap ready[e] = {}
  /\ \A e \in End, c \in Conn : Untried(e, c) => session[e][c[1]] = 0
  /\ \A r \in Route : selected["lo"] = r => link["lo"][r] \in ready["lo"] \cup failed["lo"]
  /\ \A r \in Route : selecting["lo"] = r => selected["lo"] # r

\* At first there are no connections.
LEMMA InitWiring ==
  Init => Wiring
BY NoneAssumption, RoutesAssumption, RouteOf DEF Init, Wiring, Untried, End

\* attach() of a connection that no end has used.
LEMMA AttachWiring ==
  ASSUME Shapes, Wiring, NEW c \in Conn, NEW es \in SUBSET End, Attach(c, es),
         dialled' \subseteq dialled \cup {c}, \A e \in End : c \notin ready[e],
         "lo" \in es => link["lo"][c[1]] = None
  PROVE  Wiring'
<1> DEFINE At(e) == IF e \in es THEN {link[e][c[1]]} \ {None} ELSE {}
<1>1. /\ link' = [e \in End |-> IF e \in es THEN [link[e] EXCEPT ![c[1]] = c] ELSE link[e]]
      /\ session' = [e \in End |-> IF e \in es THEN [session[e] EXCEPT ![c[1]] = 0] ELSE session[e]]
      /\ ready' = [e \in End |-> ready[e] \ At(e)]
      /\ callbacks' = [e \in End |-> callbacks[e] \cup (At(e) \ failed[e])]
      /\ failed' = [e \in End |-> failed[e] \cup At(e)]
      /\ UNCHANGED <<selected, selecting>>
  BY DEF Attach
<1>2. \A e \in End : \A x \in Conn : x \in At(e) <=> e \in es /\ link[e][c[1]] = x
  BY NoneAssumption
<1>3. c[1] \in Route /\ \A x \in Conn : x[1] \in Route
  BY RouteOf
<1>4. \A e \in End : At(e) \subseteq Conn
  BY <1>3 DEF Shapes, LinkType
<1> HIDE DEF At
<1>5. callbacks' = failed'
  BY <1>1 DEF Wiring
<1>6. \A e \in End, x \in Conn : link'[e][x[1]] = IF e \in es /\ x[1] = c[1] THEN c ELSE link[e][x[1]]
  BY <1>1, <1>3 DEF Shapes, LinkType
<1>7. ASSUME NEW e \in End, NEW x \in ready'[e] PROVE link'[e][x[1]] = x
  <2>1. x \in ready[e] /\ x \notin At(e) /\ x \in Conn
    BY <1>1, <1>7 DEF Shapes
  <2>2. link[e][x[1]] = x
    BY <2>1 DEF Wiring
  <2> QED BY <1>2, <1>6, <2>1, <2>2
<1>8. \A e \in End : dialled' \cap ready'[e] = {}
  BY <1>1 DEF Wiring
<1>9. ASSUME NEW e \in End, NEW x \in Conn, Untried(e, x)' PROVE session'[e][x[1]] = 0
  <2>1. link'[e][x[1]] = x /\ x \notin ready'[e] /\ x \notin failed'[e]
    BY <1>9 DEF Untried
  <2>2. CASE e \in es /\ x[1] = c[1]
    BY <1>1, <1>3, <2>2 DEF Shapes
  <2>3. CASE ~(e \in es /\ x[1] = c[1])
    <3>1. link[e][x[1]] = x /\ session'[e][x[1]] = session[e][x[1]]
      BY <1>1, <1>3, <1>6, <2>1, <2>3 DEF Shapes
    <3>2. x \notin At(e)
      BY <1>2, <2>3, <1>3, NoneAssumption DEF Shapes
    <3>3. x \notin ready[e] \cup failed[e]
      BY <1>1, <2>1, <3>2
    <3> QED BY <3>1, <3>3 DEF Wiring, Untried
  <2> QED BY <2>2, <2>3
<1>10. ASSUME NEW r \in Route, selected'["lo"] = r
       PROVE  link'["lo"][r] \in ready'["lo"] \cup failed'["lo"]
  <2>1. "lo" \in End /\ link["lo"][r] \in ready["lo"] \cup failed["lo"] /\ link["lo"][r] \in Conn
    BY <1>1, <1>10 DEF Wiring, End, Shapes
  <2>2. link'["lo"][r] = link["lo"][r]
    BY <1>1, <2>1, NoneAssumption DEF Shapes, LinkType
  <2> QED BY <1>1, <2>1, <2>2
<1>11. \A r \in Route : selecting'["lo"] = r => selected'["lo"] # r
  BY <1>1 DEF Wiring
<1> QED BY <1>5, <1>7, <1>8, <1>9, <1>10, <1>11 DEF Wiring

\* fail() of a route's connection.
LEMMA FailWiring ==
  ASSUME Shapes, Wiring, NEW e \in End, NEW r \in Route, link[e][r] \in Conn, FailLink(e, r),
         UNCHANGED routes
  PROVE  Wiring'
<1> DEFINE c == link[e][r]
<1>1. /\ ready' = [ready EXCEPT ![e] = @ \ {c}] /\ failed' = [failed EXCEPT ![e] = @ \cup {c}]
      /\ callbacks' = [callbacks EXCEPT ![e] = @ \cup {c}] /\ dialled' = dialled \ {c}
      /\ UNCHANGED <<link, session, selected, selecting>> /\ c \in Conn
  BY DEF FailLink, routes
<1> HIDE DEF c
<1>2. \A d \in End : ready'[d] \subseteq ready[d] /\ failed[d] \subseteq failed'[d]
                     /\ ready'[d] \cup failed'[d] = ready[d] \cup failed[d] \cup (IF d = e THEN {c} ELSE {})
  BY <1>1 DEF Shapes
<1>3. callbacks' = failed'
  BY <1>1 DEF Wiring
<1>4. \A d \in End, x \in Conn : Untried(d, x)' => session'[d][x[1]] = 0
  BY <1>1, <1>2 DEF Wiring, Untried
<1>5. \A r1 \in Route : selected'["lo"] = r1 => link'["lo"][r1] \in ready'["lo"] \cup failed'["lo"]
  BY <1>1, <1>2 DEF Wiring, End
<1> QED BY <1>1, <1>2, <1>3, <1>4, <1>5 DEF Wiring

(***************************************************************************)
(* A route becomes the selected one, on a connection that works.           *)
(***************************************************************************)
LEMMA ActivateWiring ==
  ASSUME Shapes, Wiring, NEW e \in End, NEW r \in Route, Activate(e, r), Established(e, r),
         UNCHANGED links
  PROVE  Wiring'
<1> DEFINE n == Fresh({session[e][x] : x \in Route} \cup {peer[e].session})
<1>1. /\ selected' = [selected EXCEPT ![e] = r] /\ selecting' = [selecting EXCEPT ![e] = None]
      /\ session' = [session EXCEPT ![e][r] = n]
      /\ UNCHANGED <<link, dialled, ready, failed, callbacks>> /\ link[e][r] \in ready[e]
  BY DEF Activate, links, Established
<1> HIDE DEF n
<1>2. ASSUME NEW d \in End, NEW x \in Conn, Untried(d, x)' PROVE session'[d][x[1]] = 0
  <2>1. Untried(d, x) /\ x[1] \in Route
    BY <1>1, <1>2, RouteOf DEF Untried
  <2>2. ~(d = e /\ x[1] = r)
    BY <1>1, <2>1 DEF Untried
  <2> QED BY <1>1, <2>1, <2>2 DEF Wiring, Shapes
<1>3. \A r1 \in Route : selected'["lo"] = r1 => link'["lo"][r1] \in ready'["lo"] \cup failed'["lo"]
  BY <1>1 DEF Wiring, Shapes, End
<1>4. \A r1 \in Route : selecting'["lo"] = r1 => selected'["lo"] # r1
  BY <1>1, RoutesAssumption DEF Wiring, Shapes, End
<1> QED BY <1>1, <1>2, <1>3, <1>4 DEF Wiring

\* A step that only moves frames.
LEMMA FrameWiring ==
  ASSUME Wiring, UNCHANGED <<links, routes>>
  PROVE  Wiring'
BY DEF Wiring, Untried, links, routes

(***************************************************************************)
(* A connection that nothing refers to has not been used.                  *)
(***************************************************************************)
LEMMA SpareUnused ==
  ASSUME Shapes, Wiring, NEW d \in End, NEW r \in Route, Spare(d, r) # {}
  PROVE  \A e \in End : Lowest(Spare(d, r)) \notin ready[e] /\ link[e][r] # Lowest(Spare(d, r))
<1> DEFINE c == Lowest(Spare(d, r))
<1>1. c \in Spare(d, r)
  BY LowestSpare
<1> HIDE DEF c
<1>2. c[1] = r /\ c \notin UNION {{link[e][r]} \cup callbacks[e] : e \in End}
  BY <1>1 DEF Spare
<1>3. ASSUME NEW e \in End PROVE link[e][r] # c
  <2>1. {link[e][r]} \cup callbacks[e] \in {{link[x][r]} \cup callbacks[x] : x \in End}
    OBVIOUS
  <2> QED BY <1>2, <2>1
<1> QED BY <1>2, <1>3 DEF Wiring, c

\* Connections are made, authenticated and fail.
LEMMA ConnectionWiring ==
  ASSUME Shapes, Wiring, NEW e \in End, NEW r \in Route,
         JoinRelay(r) \/ Dial(e, r) \/ Handshake(e, r) \/ Fault(e, r) \/ PeerClosed(e, r)
  PROVE  Wiring'
<1>1. CASE JoinRelay(r)
  <2> DEFINE c == Lowest(Spare("lo", r))
  <2>1. Spare("lo", r) # {} /\ Attach(c, End) /\ dialled' = dialled /\ link["lo"][r] = None
    BY <1>1 DEF JoinRelay, End
  <2>2. c \in Conn /\ c[1] = r /\ \A d \in End : c \notin ready[d]
    BY <2>1, LowestSpare, SpareUnused DEF End
  <2> HIDE DEF c
  <2> QED BY <2>1, <2>2, AttachWiring
<1>2. CASE Dial(e, r)
  <2> DEFINE c == Lowest(Spare(e, r))
  <2>1. Spare(e, r) # {} /\ Attach(c, {e}) /\ dialled' = dialled \cup {c} /\ link[e][r] = None
    BY <1>2 DEF Dial
  <2>2. c \in Conn /\ c[1] = r /\ \A d \in End : c \notin ready[d]
    BY <2>1, LowestSpare, SpareUnused
  <2> HIDE DEF c
  <2> QED BY <2>1, <2>2, AttachWiring
<1>3. CASE Handshake(e, r)
  <2> DEFINE c == link[e][r]
  <2>1. /\ c # None /\ c \notin dialled /\ ready' = [ready EXCEPT ![e] = @ \cup {c}]
        /\ UNCHANGED <<link, dialled, failed, callbacks, session, selected, selecting>>
    BY <1>3 DEF Handshake, routes
  <2>2. c \in Conn /\ c[1] = r
    BY <2>1 DEF Shapes, LinkType
  <2>3. link[e][c[1]] = c
    BY <2>2
  <2> HIDE DEF c
  <2>4. \A d \in End : ready'[d] = ready[d] \cup (IF d = e THEN {c} ELSE {})
    BY <2>1 DEF Shapes
  <2>5. \A d \in End, x \in Conn : Untried(d, x)' => Untried(d, x)
    BY <2>1, <2>4 DEF Untried
  <2> QED BY <2>1, <2>3, <2>4, <2>5 DEF Wiring, End
<1>4. CASE Fault(e, r)
  <2>1. link[e][r] \in Conn
    BY <1>4 DEF Fault, Shapes, LinkType
  <2> QED BY <1>4, <2>1, FailWiring DEF Fault
<1>5. CASE PeerClosed(e, r)
  <2>1. link[e][r] \in Conn
    BY <1>5 DEF PeerClosed, Shapes, LinkType
  <2> QED BY <1>5, <2>1, FailWiring DEF PeerClosed
<1> QED BY <1>1, <1>2, <1>3, <1>4, <1>5

\* The listener's answer, and the callback of a closed connection.
LEMMA CallbackWiring ==
  ASSUME Shapes, Wiring, NEW e \in End, NEW c \in Conn,
         Accept(e, c) \/ RefuseDial(e, c) \/ Closed(e, c)
  PROVE  Wiring'
<1>1. CASE Accept(e, c)
  <2>1. Attach(c, {e}) /\ dialled' = dialled \ {c} /\ c \in dialled /\ Admits(e, c[1])
    BY <1>1 DEF Accept
  <2>2. "lo" \in {e} => link["lo"][c[1]] = None
    BY <2>1 DEF Admits
  <2>3. \A d \in End : c \notin ready[d]
    BY <2>1 DEF Wiring
  <2> QED BY <2>1, <2>2, <2>3, AttachWiring
<1>2. CASE RefuseDial(e, c)
  BY <1>2 DEF RefuseDial, Wiring, Untried, routes
<1>3. CASE Closed(e, c)
  <2> DEFINE r == c[1]
             mine == link[e][r] = c
  <2>1. /\ callbacks' = [callbacks EXCEPT ![e] = @ \ {c}] /\ failed' = [failed EXCEPT ![e] = @ \ {c}]
        /\ link' = [link EXCEPT ![e][r] = IF mine THEN None ELSE @]
        /\ selected' = [selected EXCEPT ![e] = IF mine /\ @ = r THEN None ELSE @]
        /\ selecting' = [selecting EXCEPT ![e] = IF mine /\ @ = r THEN None ELSE @]
        /\ UNCHANGED <<dialled, ready, session>> /\ c \in callbacks[e]
    BY <1>3 DEF Closed
  <2>2. r \in Route /\ c \notin ready[e]
    BY <2>1, RouteOf DEF Shapes
  <2>3. callbacks' = failed' /\ \A d \in End : failed'[d] = failed[d] \ (IF d = e THEN {c} ELSE {})
    BY <2>1 DEF Wiring, Shapes
  <2>4. \A d \in End, x \in Route :
          link'[d][x] = IF d = e /\ x = r /\ mine THEN None ELSE link[d][x]
    BY <2>1, <2>2 DEF Shapes, LinkType
  <2>5. ASSUME NEW d \in End, NEW x \in ready'[d] PROVE link'[d][x[1]] = x
    <3>1. x \in ready[d] /\ x \in Conn /\ link[d][x[1]] = x /\ x[1] \in Route
      BY <2>1, <2>5, RouteOf DEF Wiring, Shapes
    <3> QED BY <2>2, <2>4, <3>1
  <2>6. ASSUME NEW d \in End, NEW x \in Conn, Untried(d, x)' PROVE session'[d][x[1]] = 0
    <3>1. x[1] \in Route /\ link'[d][x[1]] = x /\ x \notin ready[d] /\ x \notin failed'[d]
      BY <2>1, <2>6, RouteOf DEF Untried
    <3>2. link[d][x[1]] = x /\ ~(d = e /\ x = c)
      BY <2>4, <3>1, NoneAssumption
    <3> QED BY <2>1, <2>3, <3>1, <3>2 DEF Wiring, Untried
  <2>7. ASSUME NEW x \in Route, selected'["lo"] = x
        PROVE  link'["lo"][x] \in ready'["lo"] \cup failed'["lo"]
    <3>1. "lo" \in End /\ selected["lo"] = x /\ ~(e = "lo" /\ mine /\ x = r)
      BY <2>1, <2>7, RoutesAssumption DEF Shapes, End
    <3>2. link["lo"][x] \in ready["lo"] \cup failed["lo"] /\ link'["lo"][x] = link["lo"][x]
      BY <2>4, <3>1 DEF Wiring
    <3>3. link["lo"][x] # None /\ link["lo"][x][1] = x
      BY <3>1, <3>2, NoneAssumption DEF Shapes
    <3> QED BY <2>1, <2>3, <3>1, <3>2, <3>3
  <2>8. \A x \in Route : selecting'["lo"] = x => selected'["lo"] # x
    BY <2>1, RoutesAssumption DEF Wiring, Shapes, End
  <2> QED BY <2>1, <2>3, <2>5, <2>6, <2>7, <2>8 DEF Wiring
<1> QED BY <1>1, <1>2, <1>3

\* Any frame is read, or lo asks for a route.
LEMMA ReceiveWiring ==
  ASSUME Shapes, Wiring, NEW e \in End, NEW r \in Route, SelectRoute(r) \/ Receive(e, r)
  PROVE  Wiring'
<1>1. CASE SelectRoute(r)
  <2>1. /\ selecting' = [selecting EXCEPT !["lo"] = r] /\ selected["lo"] # r
        /\ UNCHANGED <<link, dialled, ready, failed, callbacks, session, selected>>
    BY <1>1, RoutesAssumption DEF SelectRoute, Live, links
  <2>2. \A x \in Route : selecting'["lo"] = x => selected'["lo"] # x
    BY <2>1 DEF Shapes, End
  <2> QED BY <2>1, <2>2 DEF Wiring, Untried
<1>2. CASE ReceiveAsk(r)
  BY <1>2 DEF ReceiveAsk, Shapes, Wiring, Untried, links, End
<1>3. CASE ReceiveGo(r)
  BY <1>3, ActivateWiring DEF ReceiveGo, Incoming, End
<1>4. CASE ReceiveAgree(r)
  BY <1>4, ActivateWiring DEF ReceiveAgree, Incoming, End
<1>5. CASE Unexpected(e, r)
  BY <1>5, IncomingLink, FailWiring DEF Unexpected
<1>6. CASE ReceiveData(e, r)
  <2>1. Incoming(e, r, {"announce", "exchange"}) /\ UNCHANGED routes
        /\ (UNCHANGED links \/ FailLink(e, r))
    BY <1>6 DEF ReceiveData
  <2>2. link[e][r] \in Conn
    BY <2>1, IncomingLink
  <2> QED BY <2>1, <2>2, FailWiring, FrameWiring
<1>7. CASE DropData(e, r)
  BY <1>7, FrameWiring DEF DropData
<1> QED BY <1>1, <1>2, <1>3, <1>4, <1>5, <1>6, <1>7 DEF Receive

\* Every step keeps the wiring.
LEMMA NextWiring ==
  Shapes /\ Wiring /\ [Next]_vars => Wiring'
<1> SUFFICES ASSUME Shapes, Wiring, [Next]_vars PROVE Wiring'
  OBVIOUS
<1>1. ASSUME NEW r \in Route, JoinRelay(r) \/ SelectRoute(r) PROVE Wiring'
  BY <1>1, ConnectionWiring, ReceiveWiring DEF End
<1>2. ASSUME NEW e \in End, NEW r \in Route,
             Dial(e, r) \/ Handshake(e, r) \/ Fault(e, r) \/ PeerClosed(e, r) \/ Receive(e, r)
      PROVE  Wiring'
  BY <1>2, ConnectionWiring, ReceiveWiring
<1>3. ASSUME NEW e \in End, NEW c \in Conn, Accept(e, c) \/ RefuseDial(e, c) \/ Closed(e, c)
      PROVE  Wiring'
  BY <1>3, CallbackWiring
<1>4. ASSUME NEW e \in End, Send(e) \/ Forget(e) PROVE Wiring'
  BY <1>4, FrameWiring DEF Send, Forget
<1>5. CASE UNCHANGED vars
  BY <1>5, FrameWiring DEF vars, links, routes
<1> QED BY <1>1, <1>2, <1>3, <1>4, <1>5 DEF Next

=============================================================================
