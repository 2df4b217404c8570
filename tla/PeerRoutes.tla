----------------------------- MODULE PeerRoutes -----------------------------
(***************************************************************************)
(* The connections between two devices and the choice of the one that      *)
(* carries the revision exchange: peer_network at both ends, with the      *)
(* session bookkeeping of peer_replication on top.  There may be one       *)
(* connection per route (direct, or over a relay).  The member with the    *)
(* smaller identity, lo, chooses: it asks on the new route (frame 3), hi   *)
(* agrees (4), lo activates and says go (5), hi activates.  Exchange data  *)
(* (2) that arrives on a route that is not selected is dropped.            *)
(*                                                                         *)
(* A connection delivers in order until one end fails; what the other end  *)
(* has not read by then may be lost.  fail() takes effect at once, its     *)
(* closed callback runs in a later turn of the event loop.                 *)
(***************************************************************************)
EXTENDS Integers, Sequences, FiniteSets

CONSTANTS
  Route,       \* "p2p" and relay origins
  Direct,      \* routes on which both ends dial and listen; on the others a
               \* relay pairs the two ends
  None,
  MaxConns,    \* bound: connections dialled by an end that are still referred to
  MaxTroubles  \* bound: failures, timeouts and changes to a better route, together

\* The direct route and the relays that are configured.
ASSUME RoutesAssumption ==
  /\ IsFiniteSet(Route) /\ Direct \subseteq Route /\ None \notin Route
  /\ {MaxConns, MaxTroubles} \subseteq Nat

End == {"lo", "hi"}
Other(e) == IF e = "lo" THEN "hi" ELSE "lo"

\* A connection is named by its route, the end that dialled and a number; on
\* a relay the member with the smaller identity counts as the dialling end.
Conn == Direct \X End \X (1..MaxConns) \cup (Route \ Direct) \X {"lo"} \X {1}

\* The absence of a connection or of a session (a null pointer, no entry).
ASSUME NoneAssumption == None \notin Conn \cup Nat

VARIABLES
  link,       \* links_: the connection of each route at each end
  dialled,    \* connections the listener has not answered yet
  ready,      \* connections that are authenticated and not failed, per end
  failed,     \* connections that have failed, per end
  callbacks,  \* closed callbacks that have not run yet, per end
  session,    \* link::session
  selected, selecting,
  peer,       \* peers_: the exchange instance for the other end
  chan,       \* chan[e][c]: frames e sent on c that the other has not read
  exchanged,  \* history: pairs of instances of lo and hi, one of which accepted
              \* revision messages of the other
  troubles

vars == <<link, dialled, ready, failed, callbacks, session, selected, selecting,
          peer, chan, exchanged, troubles>>

links == <<link, dialled, ready, failed, callbacks>>
routes == <<session, selected, selecting>>

\* instance is a history field: which instance of the exchange this is.
NoPeer == [session |-> None, instance |-> 0, received |-> FALSE]

Init ==
  /\ link = [e \in End |-> [r \in Route |-> None]]
  /\ dialled = {}
  /\ ready = [e \in End |-> {}]
  /\ failed = [e \in End |-> {}]
  /\ callbacks = [e \in End |-> {}]
  /\ session = [e \in End |-> [r \in Route |-> 0]]
  /\ selected = [e \in End |-> None]
  /\ selecting = [e \in End |-> None]
  /\ peer = [e \in End |-> NoPeer]
  /\ chan = [e \in End |-> [c \in Conn |-> <<>>]]
  /\ exchanged = {}
  /\ troubles = 0

\* Connections, sessions and instances are numbered; a number is used again
\* when nothing refers to it any more, which keeps them finite.
Fresh(used) == CHOOSE n \in 1..(Cardinality(used) + 1) :
                 n \notin used /\ \A m \in 1..(n - 1) : m \in used

\* Instances of e named by frames that are still to be read.
InFlight(e) ==
  UNION {{m.from : m \in {chan[e][c][i] : i \in {k \in DOMAIN chan[e][c] : "from" \in DOMAIN chan[e][c][k]}}}
         : c \in Conn}

Side(e) == IF e = "lo" THEN 1 ELSE 2

\* established(): the route's connection is authenticated and not failed.
Established(e, r) == link[e][r] \in ready[e]

\* The route in use, None while its connection is not established.
Live(e) == IF selected[e] # None /\ Established(e, selected[e]) THEN selected[e] ELSE None

---------------------------------------------------------------------------
(***************************************************************************)
(* Connections.                                                            *)
(***************************************************************************)
\* A connection of the route that nothing refers to any more.
Spare(e, r) ==
  LET used == UNION {{link[d][r]} \cup callbacks[d] : d \in End} \cup dialled
  IN  {c \in Conn \ used : c[1] = r /\ c[2] = e}

Lowest(S) == CHOOSE c \in S : \A d \in S : c[3] <= d[3]

\* attach(): a connection takes the route's place at the ends in es; one that
\* is displaced is closed.
Attach(c, es) ==
  LET r == c[1]
      At(e) == IF e \in es THEN {link[e][r]} \ {None} ELSE {}
  IN  /\ link' = [e \in End |-> IF e \in es THEN [link[e] EXCEPT ![r] = c] ELSE link[e]]
      /\ session' = [e \in End |-> IF e \in es THEN [session[e] EXCEPT ![r] = 0] ELSE session[e]]
      /\ ready' = [e \in End |-> ready[e] \ At(e)]
      /\ callbacks' = [e \in End |-> callbacks[e] \cup (At(e) \ failed[e])]
      /\ failed' = [e \in End |-> failed[e] \cup At(e)]
      /\ chan' = [e \in End |-> [x \in Conn |->
                    IF x \in {c} \cup At("lo") \cup At("hi") THEN <<>> ELSE chan[e][x]]]
      /\ UNCHANGED <<selected, selecting, peer, exchanged, troubles>>

\* tick(): a direct connection is dialled.
Dial(e, r) ==
  /\ r \in Direct /\ link[e][r] = None
  /\ Spare(e, r) # {}
  /\ LET c == Lowest(Spare(e, r))
     IN  dialled' = dialled \cup {c} /\ Attach(c, {e})

\* The listener lets an incoming connection displace one that is not
\* established if that was dialled here and the other has the smaller identity.
Admits(e, r) ==
  LET old == link[e][r]
  IN  old # None => ~Established(e, r) /\ old[2] = e /\ e = "hi"

Accept(e, c) ==
  /\ c \in dialled /\ c[2] = Other(e)
  /\ Admits(e, c[1])
  /\ dialled' = dialled \ {c}
  /\ Attach(c, {e})

RefuseDial(e, c) ==
  /\ c \in dialled /\ c[2] = Other(e)
  /\ ~Admits(e, c[1])
  /\ dialled' = dialled \ {c}
  /\ UNCHANGED <<link, ready, failed, callbacks, routes, peer, chan, exchanged, troubles>>

\* dial_relay(): both ends have joined and attach.
JoinRelay(r) ==
  /\ r \in Route \ Direct
  /\ \A e \in End : link[e][r] = None
  /\ Spare("lo", r) # {}
  /\ Attach(Lowest(Spare("lo", r)), End)
  /\ UNCHANGED dialled

\* The handshake completes at one end.
Handshake(e, r) ==
  LET c == link[e][r] IN
  /\ c # None /\ link[Other(e)][r] = c /\ c \notin dialled
  /\ c \notin ready[e] \cup failed[e] \cup failed[Other(e)]
  /\ ready' = [ready EXCEPT ![e] = @ \cup {c}]
  /\ UNCHANGED <<link, dialled, failed, callbacks, routes, peer, chan, exchanged, troubles>>

\* Mutant: a failed connection still counts as established.
FailQuietly(e, r) ==
  LET c == link[e][r] IN
  /\ failed' = [failed EXCEPT ![e] = @ \cup {c}]
  /\ callbacks' = [callbacks EXCEPT ![e] = @ \cup {c}]
  /\ UNCHANGED <<link, dialled, ready, chan>>

\* fail() of the connection of a route: at once, with the callback to follow.
\* Bytes that were not written yet, and those the end will not read, are lost.
FailLink(e, r) ==
  LET c == link[e][r] IN
  /\ ready' = [ready EXCEPT ![e] = @ \ {c}]
  /\ failed' = [failed EXCEPT ![e] = @ \cup {c}]
  /\ callbacks' = [callbacks EXCEPT ![e] = @ \cup {c}]
  /\ chan' = [d \in End |-> [chan[d] EXCEPT ![c] =
                 IF d = e /\ link[Other(e)][r] = c /\ c \notin failed[Other(e)] THEN @ ELSE <<>>]]
  /\ dialled' = dialled \ {c}
  /\ UNCHANGED link

\* The network fails, or a timeout (handshake, idle, ping, exchange) expires.
Fault(e, r) ==
  /\ troubles < MaxTroubles
  /\ link[e][r] # None /\ link[e][r] \notin failed[e]
  /\ FailLink(e, r)
  /\ troubles' = troubles + 1
  /\ UNCHANGED <<routes, peer, exchanged>>

\* The end of the stream, seen after any part of what was sent.
PeerClosed(e, r) ==
  LET c == link[e][r] IN
  /\ c # None /\ c \notin failed[e] \cup dialled
  /\ c \in failed[Other(e)] \/ link[Other(e)][r] # c
  /\ FailLink(e, r)
  /\ UNCHANGED <<routes, peer, exchanged, troubles>>

\* Mutant: the negotiation is not given up with its connection.
ClosedWhileSelecting(e, c) ==
  LET r == c[1]
      mine == link[e][r] = c
  IN  /\ c \in callbacks[e]
      /\ callbacks' = [callbacks EXCEPT ![e] = @ \ {c}]
      /\ failed' = [failed EXCEPT ![e] = @ \ {c}]
      /\ link' = [link EXCEPT ![e][r] = IF mine THEN None ELSE @]
      /\ selected' = [selected EXCEPT ![e] = IF mine /\ @ = r THEN None ELSE @]
      /\ UNCHANGED <<dialled, ready, session, selecting, peer, chan, exchanged, troubles>>

\* events.closed
Closed(e, c) ==
  LET r == c[1]
      mine == link[e][r] = c
  IN  /\ c \in callbacks[e]
      /\ callbacks' = [callbacks EXCEPT ![e] = @ \ {c}]
      /\ link' = [link EXCEPT ![e][r] = IF mine THEN None ELSE @]
      /\ selected' = [selected EXCEPT ![e] = IF mine /\ @ = r THEN None ELSE @]
      /\ selecting' = [selecting EXCEPT ![e] = IF mine /\ @ = r THEN None ELSE @]
      /\ failed' = [failed EXCEPT ![e] = @ \ {c}]
      /\ UNCHANGED <<dialled, ready, session, peer, chan, exchanged, troubles>>

---------------------------------------------------------------------------
(***************************************************************************)
(* Choice of the route.                                                    *)
(***************************************************************************)
\* select_routes(): lo asks for a route when the selected one does not work,
\* or for a better one; measurements are abstracted to a choice.
SelectRoute(r) ==
  /\ selecting["lo"] = None
  /\ Established("lo", r)
  /\ IF Live("lo") = None THEN UNCHANGED troubles
     ELSE /\ r # selected["lo"]
          /\ troubles < MaxTroubles
          /\ troubles' = troubles + 1
  /\ selecting' = [selecting EXCEPT !["lo"] = r]
  /\ chan' = [chan EXCEPT !["lo"][link["lo"][r]] = Append(@, [type |-> "ask"])]
  /\ UNCHANGED <<links, session, selected, peer, exchanged>>

\* The next frame the other end sent on the route's connection.
Incoming(e, r, types) ==
  /\ Established(e, r)
  /\ chan[Other(e)][link[e][r]] # <<>>
  /\ Head(chan[Other(e)][link[e][r]]).type \in types

\* Channels after e read a frame on r and answered with frames.
Answer(e, r, frames) ==
  LET c == link[e][r]
  IN  chan' = [chan EXCEPT ![Other(e)][c] = Tail(@), ![e][c] = @ \o frames]

\* next_session_++
Activate(e, r) ==
  /\ selected' = [selected EXCEPT ![e] = r]
  /\ selecting' = [selecting EXCEPT ![e] = None]
  /\ session' = [session EXCEPT ![e][r] =
       Fresh({session[e][x] : x \in Route} \cup {peer[e].session})]

ReceiveAsk(r) ==
  /\ Incoming("hi", r, {"ask"})
  /\ selecting' = [selecting EXCEPT !["hi"] = r]
  /\ Answer("hi", r, <<[type |-> "agree"]>>)
  /\ UNCHANGED <<links, session, selected, peer, exchanged, troubles>>

ReceiveAgree(r) ==
  /\ Incoming("lo", r, {"agree"})
  /\ selecting["lo"] = r
  /\ Answer("lo", r, <<[type |-> "go"]>>)
  /\ Activate("lo", r)
  /\ UNCHANGED <<links, peer, exchanged, troubles>>

ReceiveGo(r) ==
  /\ Incoming("hi", r, {"go"})
  /\ selecting["hi"] = r
  /\ Answer("hi", r, <<>>)
  /\ Activate("hi", r)
  /\ UNCHANGED <<links, peer, exchanged, troubles>>

\* An answer on a route that is not being selected: "Unexpected peer frame".
Unexpected(e, r) ==
  /\ Incoming(e, r, IF e = "lo" THEN {"agree"} ELSE {"go"})
  /\ selecting[e] # r
  /\ FailLink(e, r)
  /\ UNCHANGED <<routes, peer, exchanged, troubles>>

---------------------------------------------------------------------------
(***************************************************************************)
(* peer_replication: one exchange instance per session.  Its first frame   *)
(* is the announcement of Vaults, and so must be the first it receives.    *)
(***************************************************************************)
InSession(e, r) == peer[e].session = session[e][r]

\* current(): the instance of the route's session, a new one if that differs.
Current(e, r) ==
  IF InSession(e, r) THEN peer[e]
  ELSE [session |-> session[e][r], received |-> FALSE,
        instance |-> Fresh({peer[e].instance} \cup InFlight(e)
                           \cup {pair[Side(e)] : pair \in exchanged})]

\* Pairs matter as long as one of the two instances can still take part.
Remember(new, pair) ==
  {q \in exchanged \cup new : \E e \in End :
     q[Side(e)] \in {peer[e].instance, pair[Side(e)]} \cup InFlight(e)}

Announcement(e, r) ==
  IF InSession(e, r) THEN <<>>
  ELSE <<[type |-> "announce", from |-> Current(e, r).instance]>>

\* tick() and pump(): a new instance announces, one that has the other's
\* announcement exchanges revisions, one message at a time.
Send(e) ==
  LET r == Live(e)
      c == link[e][r]
  IN  /\ r # None
      /\ peer' = [peer EXCEPT ![e] = Current(e, r)]
      /\ \/ /\ ~InSession(e, r)
            /\ chan' = [chan EXCEPT ![e][c] = @ \o Announcement(e, r)]
         \/ /\ InSession(e, r) /\ peer[e].received
            /\ \A i \in DOMAIN chan[e][c] : chan[e][c][i].type # "exchange"
            /\ chan' = [chan EXCEPT ![e][c] =
                          Append(@, [type |-> "exchange", from |-> peer[e].instance])]
      /\ UNCHANGED <<links, routes, exchanged, troubles>>

\* Mutant: data on the old route is delivered.
AnyRoute(e, r) == TRUE

IsSelected(e, r) == selected[e] = r

\* The first frame, and no other, announces Vaults.
Expected(instance, m) == (m.type = "announce") = ~instance.received

\* Data on the selected route goes to the instance of its session; pump()
\* follows.  A frame the instance does not expect fails the connection.
ReceiveData(e, r) ==
  LET m == Head(chan[Other(e)][link[e][r]])
      mine == Current(e, r)
      pair == IF e = "lo" THEN <<mine.instance, m.from>> ELSE <<m.from, mine.instance>>
  IN  /\ Incoming(e, r, {"announce", "exchange"})
      /\ IsSelected(e, r)
      /\ IF Expected(mine, m)
         THEN /\ peer' = [peer EXCEPT ![e] = [mine EXCEPT !.received = TRUE]]
              /\ exchanged' = Remember(IF m.type = "exchange" THEN {pair} ELSE {}, pair)
              /\ Answer(e, r, Announcement(e, r))
              /\ UNCHANGED links
         ELSE /\ peer' = [peer EXCEPT ![e] = mine]
              /\ FailLink(e, r)
              /\ exchanged' = Remember({}, pair)
      /\ UNCHANGED <<routes, troubles>>

\* Old-route bytes still in flight after a switch.
DropData(e, r) ==
  /\ Incoming(e, r, {"announce", "exchange"})
  /\ ~IsSelected(e, r)
  /\ Answer(e, r, <<>>)
  /\ UNCHANGED <<links, routes, peer, exchanged, troubles>>

\* tick() forgets a peer that has no established route.
Forget(e) ==
  /\ peer[e] # NoPeer
  /\ Live(e) = None
  /\ peer' = [peer EXCEPT ![e] = NoPeer]
  /\ UNCHANGED <<links, routes, chan, exchanged, troubles>>

Receive(e, r) ==
  \/ e = "hi" /\ (ReceiveAsk(r) \/ ReceiveGo(r))
  \/ e = "lo" /\ ReceiveAgree(r)
  \/ Unexpected(e, r) \/ ReceiveData(e, r) \/ DropData(e, r)

Next ==
  \/ \E r \in Route : JoinRelay(r) \/ SelectRoute(r)
  \/ \E e \in End, r \in Route :
       Dial(e, r) \/ Handshake(e, r) \/ Fault(e, r) \/ PeerClosed(e, r) \/ Receive(e, r)
  \/ \E e \in End, c \in Conn : Accept(e, c) \/ RefuseDial(e, c) \/ Closed(e, c)
  \/ \E e \in End : Send(e) \/ Forget(e)

Spec == Init /\ [][Next]_vars

\* Every event loop runs: what has arrived is read, callbacks and timers fire.
Fairness ==
  /\ \A r \in Route : WF_vars(JoinRelay(r))
  /\ \A e \in End, r \in Route : WF_vars(Dial(e, r))
  /\ \A e \in End, c \in Conn : WF_vars(Accept(e, c) \/ RefuseDial(e, c))
  /\ WF_vars(\E r \in Route : SelectRoute(r))
  /\ \A e \in End, r \in Route :
       WF_vars(Handshake(e, r)) /\ WF_vars(PeerClosed(e, r)) /\ WF_vars(Receive(e, r))
  /\ \A e \in End :
       WF_vars(\E c \in Conn : Closed(e, c)) /\ WF_vars(Send(e)) /\ WF_vars(Forget(e))

FairSpec == Spec /\ Fairness

---------------------------------------------------------------------------
\* The variables hold what the code declares.
TypeOK ==
  /\ \A e \in End, r \in Route : link[e][r] \in {None} \cup {c \in Conn : c[1] = r}
  /\ \A e \in End : ready[e] \subseteq Conn \ failed[e] /\ callbacks[e] \subseteq failed[e]
  /\ selected \in [End -> Route \cup {None}] /\ selecting \in [End -> Route \cup {None}]
  /\ session \in [End -> [Route -> Nat]]

(***************************************************************************)
(* Exchanges are paired: a revision_exchange accepts messages of one       *)
(* instance of the other end only, and the other way round.  Its sequence  *)
(* numbers, cursors and accepted offers start over with an instance, and   *)
(* RevisionExchange relies on both ends starting over together, whatever   *)
(* is still in flight on the old route or on a displaced connection.       *)
(***************************************************************************)
ExchangesPaired == \A a, b \in exchanged : a[1] = b[1] <=> a[2] = b[2]

(***************************************************************************)
(* When connections fail no more, both ends exchange revisions in a pair   *)
(* of sessions for ever, whatever negotiation a failure cut short.         *)
(***************************************************************************)
RoutesAgree ==
  <>[](/\ Live("lo") # None /\ Live("lo") = Live("hi")
       /\ <<peer["lo"].instance, peer["hi"].instance>> \in exchanged)
============================================================================
