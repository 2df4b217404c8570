--------------------------- MODULE PairingProofs ----------------------------
(***************************************************************************)
(* ExchangesPaired for every set of routes and every number of connections *)
(* and failures.                                                           *)
(*                                                                         *)
(* The proof follows one connection c.  What makes the pairing hold is the *)
(* order of frames on it: what the instance of hi sent before agree lo has *)
(* read when it starts a new one, which accepts no revision message before *)
(* an announcement that follows agree; and hi reads go before anything of  *)
(* that new instance.  Channel, Carried and Paired say so of every         *)
(* connection, Separate that an instance speaks on one connection only.    *)
(***************************************************************************)
EXTENDS PeerRoutesProofs

---------------------------------------------------------------------------
(***************************************************************************)
(* Frames in a channel.                                                    *)
(***************************************************************************)
Frame == [type : {"ask", "agree", "go"}] \cup [type : {"announce", "exchange"}, from : Nat]

Has(s, type) == \E k \in DOMAIN s : s[k].type = type
From(s, i) == \E k \in DOMAIN s : s[k].type \in {"announce", "exchange"} /\ s[k].from = i
Exchanges(s, i) == \E k \in DOMAIN s : s[k].type = "exchange" /\ s[k].from = i
OnlyFirst(s, type) == \A k \in DOMAIN s : s[k].type = type => k = 1
OnlyLast(s, type) == \A k \in DOMAIN s : s[k].type = type => k = Len(s)
Once(s, type) == \A j, k \in DOMAIN s : s[j].type = type /\ s[k].type = type => j = k

\* An instance that reads s accepts a revision message of i; one that has the
\* other's announcement already reads it next, any other after an announcement.
Takes(heard, s, i) ==
  IF heard THEN Len(s) >= 1 /\ s[1].type = "exchange" /\ s[1].from = i
           ELSE Len(s) >= 2 /\ s[1].type = "announce" /\ s[2].type = "exchange" /\ s[2].from = i

\* It would accept one that is sent now.
Open(heard, s) == IF heard THEN s = <<>> ELSE Len(s) = 1 /\ s[1].type = "announce"

\* The same for an instance that starts when it reads agree.
Clear(s) == \A k \in DOMAIN s :
  s[k].type = "agree" /\ k + 2 <= Len(s) => ~(s[k + 1].type = "announce" /\ s[k + 2].type = "exchange")
Poised(s) == \E k \in DOMAIN s :
  s[k].type = "agree" /\ k + 1 = Len(s) /\ s[k + 1].type = "announce"

\* A sent frame comes last.
LEMMA AppendAt ==
  ASSUME NEW s \in Seq(Frame), NEW m \in Frame
  PROVE  /\ Append(s, m) \in Seq(Frame) /\ Append(s, m) # <<>>
         /\ DOMAIN s = 1..Len(s) /\ Len(s) \in Nat
         /\ Len(Append(s, m)) = Len(s) + 1 /\ DOMAIN Append(s, m) = 1..(Len(s) + 1)
         /\ \A k \in 1..Len(s) : Append(s, m)[k] = s[k]
         /\ Append(s, m)[Len(s) + 1] = m
OBVIOUS

\* The frame that is read is the first.
LEMMA TailAt ==
  ASSUME NEW s \in Seq(Frame), s # <<>>
  PROVE  /\ Tail(s) \in Seq(Frame) /\ Head(s) \in Frame /\ Head(s) = s[1]
         /\ DOMAIN s = 1..Len(s) /\ Len(s) \in Nat /\ Len(s) >= 1
         /\ Len(Tail(s)) = Len(s) - 1 /\ DOMAIN Tail(s) = 1..(Len(s) - 1)
         /\ \A k \in 1..(Len(s) - 1) : Tail(s)[k] = s[k + 1]
OBVIOUS

\* Reading changes the channel.
LEMMA TailDiffers ==
  ASSUME NEW s \in Seq(Frame), s # <<>>
  PROVE  Tail(s) # s
<1> DEFINE a == Tail(s)
           n == Len(s)
           k == Len(a)
<1>1. k = n - 1 /\ n \in Nat
  BY TailAt
<1>2. a = s => k = n
  OBVIOUS
<1> HIDE DEF k, n, a
<1>3. a # s
  BY <1>1, <1>2
<1> QED BY <1>3 DEF a

(***************************************************************************)
(* A frame is sent.                                                        *)
(***************************************************************************)
LEMMA AppendHas ==
  ASSUME NEW s \in Seq(Frame), NEW m \in Frame
  PROVE  /\ \A t : Has(Append(s, m), t) <=> Has(s, t) \/ m.type = t
         /\ \A i : From(Append(s, m), i) <=> From(s, i) \/ (m.type \in {"announce", "exchange"} /\ m.from = i)
         /\ \A i : Exchanges(Append(s, m), i) <=> Exchanges(s, i) \/ (m.type = "exchange" /\ m.from = i)
<1> DEFINE a == Append(s, m)
           n == Len(s)
<1>1. DOMAIN s = 1..n /\ DOMAIN a = 1..(n + 1) /\ n \in Nat /\ a[n + 1] = m /\ \A k \in 1..n : a[k] = s[k]
  BY AppendAt
<1> HIDE DEF a, n
<1>2. \A k \in DOMAIN s : k \in DOMAIN a /\ a[k] = s[k]
  BY <1>1
<1>3. \A k \in DOMAIN a : k = n + 1 \/ k \in DOMAIN s
  BY <1>1
<1>4. n + 1 \in DOMAIN a
  BY <1>1
<1>5. \A t : Has(a, t) <=> Has(s, t) \/ m.type = t
  BY <1>1, <1>2, <1>3, <1>4 DEF Has
<1>6. \A i : From(a, i) <=> From(s, i) \/ (m.type \in {"announce", "exchange"} /\ m.from = i)
  BY <1>1, <1>2, <1>3, <1>4 DEF From
<1>7. \A i : Exchanges(a, i) <=> Exchanges(s, i) \/ (m.type = "exchange" /\ m.from = i)
  BY <1>1, <1>2, <1>3, <1>4 DEF Exchanges
<1> QED BY <1>5, <1>6, <1>7 DEF a

\* Frame types that come first, last or once still do.
LEMMA AppendOnce ==
  ASSUME NEW s \in Seq(Frame), NEW m \in Frame, NEW t
  PROVE  /\ OnlyFirst(s, t) /\ (s = <<>> \/ m.type # t) => OnlyFirst(Append(s, m), t)
         /\ ~Has(s, t) => OnlyLast(Append(s, m), t)
         /\ Once(s, t) /\ (m.type # t \/ ~Has(s, t)) => Once(Append(s, m), t)
<1> DEFINE a == Append(s, m)
           n == Len(s)
<1>1. /\ DOMAIN s = 1..n /\ DOMAIN a = 1..(n + 1) /\ Len(a) = n + 1 /\ n \in Nat /\ a[n + 1] = m
      /\ \A k \in 1..n : a[k] = s[k] /\ (s = <<>> => n = 0)
  BY AppendAt
<1>0. s = <<>> => n = 0
  OBVIOUS
<1> HIDE DEF a, n
<1>2. OnlyFirst(s, t) /\ (s = <<>> \/ m.type # t) => OnlyFirst(a, t)
  BY <1>0, <1>1 DEF OnlyFirst
<1>3. ~Has(s, t) => OnlyLast(a, t)
  BY <1>1 DEF Has, OnlyLast
<1>4. Once(s, t) /\ (m.type # t \/ ~Has(s, t)) => Once(a, t)
  BY <1>1 DEF Has, Once
<1> QED BY <1>2, <1>3, <1>4 DEF a

\* The reader accepts a frame that is sent only if it would have accepted one then.
LEMMA AppendTakes ==
  ASSUME NEW s \in Seq(Frame), NEW m \in Frame, NEW h \in BOOLEAN
  PROVE  /\ \A i : Takes(h, Append(s, m), i) =>
                     Takes(h, s, i) \/ (Open(h, s) /\ m.type = "exchange" /\ m.from = i)
         /\ Open(h, Append(s, m)) => ~h /\ s = <<>> /\ m.type = "announce"
<1> DEFINE a == Append(s, m)
           n == Len(s)
<1>1. /\ Len(a) = n + 1 /\ n \in Nat /\ a[n + 1] = m /\ a # <<>> /\ (n = 0 <=> s = <<>>)
      /\ \A k \in 1..n : a[k] = s[k]
  BY AppendAt
<1>0. n >= 1 => a[1] = s[1]
  BY <1>1
<1> HIDE DEF a, n
<1>2. ASSUME NEW i, Takes(h, a, i) PROVE Takes(h, s, i) \/ (Open(h, s) /\ m.type = "exchange" /\ m.from = i)
  <2>1. CASE h
    <3>1. CASE n = 0
      BY <1>1, <1>2, <2>1, <3>1 DEF Takes, Open
    <3>2. CASE n >= 1
      BY <1>0, <1>1, <1>2, <2>1, <3>2 DEF Takes, n
    <3> QED BY <1>1, <3>1, <3>2
  <2>2. CASE ~h
    <3>1. CASE n = 1
      BY <1>1, <1>2, <2>2, <3>1 DEF Takes, Open, n
    <3>2. CASE n >= 2
      BY <1>1, <1>2, <2>2, <3>2 DEF Takes, n
    <3>3. n >= 1
      BY <1>1, <1>2, <2>2 DEF Takes
    <3> QED BY <1>1, <3>1, <3>2, <3>3
  <2> QED BY <2>1, <2>2
<1>3. Open(h, a) => ~h /\ s = <<>> /\ m.type = "announce"
  BY <1>1 DEF Open
<1> QED BY <1>2, <1>3 DEF a

\* The same for a reader that starts when it reads agree.
LEMMA AppendClear ==
  ASSUME NEW s \in Seq(Frame), NEW m \in Frame
  PROVE  /\ Clear(s) /\ (m.type = "exchange" => ~Poised(s)) => Clear(Append(s, m))
         /\ Poised(Append(s, m)) => m.type = "announce" /\ Has(s, "agree")
<1> DEFINE a == Append(s, m)
           n == Len(s)
<1>1. /\ DOMAIN s = 1..n /\ DOMAIN a = 1..(n + 1) /\ Len(a) = n + 1 /\ n \in Nat /\ a[n + 1] = m
      /\ \A k \in 1..n : a[k] = s[k]
  BY AppendAt
<1> HIDE DEF a
<1>2. ASSUME Clear(s), m.type = "exchange" => ~Poised(s) PROVE Clear(a)
  <2> SUFFICES ASSUME NEW k \in DOMAIN a, a[k].type = "agree", k + 2 <= Len(a),
                      a[k + 1].type = "announce", a[k + 2].type = "exchange"
               PROVE  FALSE
    BY DEF Clear
  <2>1. k \in 1..n /\ k + 1 \in 1..n /\ k + 2 <= n + 1
    BY <1>1
  <2>2. k \in DOMAIN s /\ s[k].type = "agree" /\ s[k + 1].type = "announce"
    BY <1>1, <2>1
  <2>3. CASE k + 2 <= n
    <3>1. s[k + 2].type = "exchange"
      BY <1>1, <2>1, <2>3
    <3> QED BY <1>2, <2>2, <2>3, <3>1 DEF Clear
  <2>4. CASE k + 2 = n + 1
    <3>1. k + 1 = n /\ m.type = "exchange"
      BY <1>1, <2>1, <2>4
    <3> QED BY <1>2, <2>2, <3>1 DEF Poised
  <2> QED BY <1>1, <2>1, <2>3, <2>4
<1>3. ASSUME Poised(a) PROVE m.type = "announce" /\ Has(s, "agree")
  BY <1>1, <1>3 DEF Poised, Has
<1> QED BY <1>2, <1>3 DEF a

(***************************************************************************)
(* A frame is read.                                                        *)
(***************************************************************************)
LEMMA TailHas ==
  ASSUME NEW s \in Seq(Frame), s # <<>>
  PROVE  /\ \A t : Has(s, t) <=> Has(Tail(s), t) \/ Head(s).type = t
         /\ \A i : From(s, i) <=> From(Tail(s), i)
                     \/ (Head(s).type \in {"announce", "exchange"} /\ Head(s).from = i)
         /\ \A i : Exchanges(s, i) <=> Exchanges(Tail(s), i)
                     \/ (Head(s).type = "exchange" /\ Head(s).from = i)
<1> DEFINE a == Tail(s)
           n == Len(s)
           m == Head(s)
<1>1. /\ DOMAIN s = 1..n /\ DOMAIN a = 1..(n - 1) /\ n \in Nat /\ n >= 1 /\ s[1] = m
      /\ \A k \in 1..(n - 1) : a[k] = s[k + 1]
  BY TailAt
<1> HIDE DEF a, n, m
<1>2. \A k \in DOMAIN a : k + 1 \in DOMAIN s /\ a[k] = s[k + 1]
  BY <1>1
<1>3. \A k \in DOMAIN s : k = 1 \/ (k - 1 \in DOMAIN a /\ a[k - 1] = s[k])
  BY <1>1
<1>4. 1 \in DOMAIN s
  BY <1>1
<1>5. \A t : Has(s, t) <=> Has(a, t) \/ m.type = t
  BY <1>1, <1>2, <1>3, <1>4 DEF Has
<1>6. \A i : From(s, i) <=> From(a, i) \/ (m.type \in {"announce", "exchange"} /\ m.from = i)
  BY <1>1, <1>2, <1>3, <1>4 DEF From
<1>7. ASSUME NEW i PROVE Exchanges(s, i) <=> Exchanges(a, i) \/ (m.type = "exchange" /\ m.from = i)
  <2>1. Exchanges(s, i) => Exchanges(a, i) \/ (m.type = "exchange" /\ m.from = i)
    BY <1>1, <1>3 DEF Exchanges
  <2>2. Exchanges(a, i) => Exchanges(s, i)
    BY <1>2 DEF Exchanges
  <2>3. m.type = "exchange" /\ m.from = i => Exchanges(s, i)
    BY <1>1, <1>4 DEF Exchanges
  <2> QED BY <2>1, <2>2, <2>3
<1> QED BY <1>5, <1>6, <1>7 DEF a, m

\* Frame types that come first, last or once, after a frame is read.
LEMMA TailOnce ==
  ASSUME NEW s \in Seq(Frame), s # <<>>, NEW t
  PROVE  /\ OnlyFirst(s, t) => ~Has(Tail(s), t) /\ OnlyFirst(Tail(s), t)
         /\ OnlyLast(s, t) => OnlyLast(Tail(s), t) /\ (Head(s).type = t => Tail(s) = <<>>)
         /\ Once(s, t) => Once(Tail(s), t) /\ (Head(s).type = t => ~Has(Tail(s), t))
<1> DEFINE a == Tail(s)
           n == Len(s)
           m == Head(s)
<1>1. /\ DOMAIN s = 1..n /\ DOMAIN a = 1..(n - 1) /\ Len(a) = n - 1 /\ n \in Nat /\ n >= 1 /\ s[1] = m
      /\ \A k \in 1..(n - 1) : a[k] = s[k + 1]
  BY TailAt
<1>0. n = 1 => a = <<>>
  BY <1>1, TailAt
<1> HIDE DEF a, n, m
<1>2. \A k \in DOMAIN a : k + 1 \in DOMAIN s /\ a[k] = s[k + 1] /\ k \in Nat /\ k >= 1
  BY <1>1
<1>3. OnlyFirst(s, t) => ~Has(a, t) /\ OnlyFirst(a, t)
  BY <1>2 DEF OnlyFirst, Has
<1>4. OnlyLast(s, t) => OnlyLast(a, t) /\ (m.type = t => a = <<>>)
  BY <1>0, <1>1, <1>2 DEF OnlyLast
<1>5. Once(s, t) => Once(a, t) /\ (m.type = t => ~Has(a, t))
  BY <1>1, <1>2 DEF Once, Has
<1> QED BY <1>3, <1>4, <1>5 DEF a, m

\* An instance that has read the announcement accepts what follows it.
LEMMA TailTakes ==
  ASSUME NEW s \in Seq(Frame), s # <<>>
  PROVE  /\ \A i : Takes(TRUE, s, i) <=> Head(s).type = "exchange" /\ Head(s).from = i
         /\ \A i : Takes(FALSE, s, i) <=> Head(s).type = "announce" /\ Takes(TRUE, Tail(s), i)
         /\ Head(s).type = "announce" /\ Open(TRUE, Tail(s)) => Open(FALSE, s)
         /\ \A i : Takes(TRUE, Tail(s), i) => Has(Tail(s), "exchange")
<1> DEFINE a == Tail(s)
           n == Len(s)
<1>1. /\ DOMAIN a = 1..(n - 1) /\ Len(a) = n - 1 /\ n \in Nat /\ n >= 1 /\ s[1] = Head(s)
      /\ \A k \in 1..(n - 1) : a[k] = s[k + 1]
  BY TailAt
<1>2. n >= 2 => 1 \in 1..(n - 1) /\ a[1] = s[2]
  BY <1>1
<1> HIDE DEF a, n
<1>3. a = <<>> => n = 1
  BY <1>1
<1> QED BY <1>1, <1>2, <1>3 DEF Takes, Open, Has, a, n

\* Only a revision message is accepted.
LEMMA TakesExchanges ==
  ASSUME NEW s \in Seq(Frame), NEW h \in BOOLEAN, NEW i, Takes(h, s, i)
  PROVE  s # <<>> /\ Exchanges(s, i) /\ Has(s, "exchange")
<1>1. DOMAIN s = 1..Len(s) /\ Len(s) \in Nat /\ (s = <<>> => Len(s) = 0)
  OBVIOUS
<1> QED BY <1>1 DEF Takes, Exchanges, Has

\* What lo will accept after it has read agree.
LEMMA TailClear ==
  ASSUME NEW s \in Seq(Frame), s # <<>>
  PROVE  /\ Clear(s) => Clear(Tail(s))
         /\ Poised(Tail(s)) => Poised(s)
         /\ Head(s).type = "agree" /\ Clear(s) => \A i \in Nat : ~Takes(FALSE, Tail(s), i)
         /\ Head(s).type = "agree" /\ Open(FALSE, Tail(s)) => Poised(s)
<1> DEFINE a == Tail(s)
           n == Len(s)
<1>1. /\ a \in Seq(Frame) /\ DOMAIN s = 1..n /\ DOMAIN a = 1..(n - 1) /\ Len(a) = n - 1
      /\ n \in Nat /\ n >= 1 /\ s[1] = Head(s)
      /\ \A k \in 1..(n - 1) : a[k] = s[k + 1]
  BY TailAt
<1> HIDE DEF a, n
<1>2. \A k \in DOMAIN a : k + 1 \in DOMAIN s /\ a[k] = s[k + 1] /\ k \in Nat
  BY <1>1
<1>3. ASSUME Clear(s) PROVE Clear(a)
  <2> SUFFICES ASSUME NEW k \in DOMAIN a, a[k].type = "agree", k + 2 <= Len(a),
                      a[k + 1].type = "announce", a[k + 2].type = "exchange"
               PROVE  FALSE
    BY DEF Clear
  <2>1. k + 1 \in DOMAIN a /\ k + 2 \in DOMAIN a
    BY <1>1
  <2>2. k + 1 \in DOMAIN s /\ s[k + 1].type = "agree" /\ s[(k + 1) + 1].type = "announce"
        /\ s[(k + 1) + 2].type = "exchange" /\ (k + 1) + 2 <= n
    BY <1>1, <1>2, <2>1
  <2> QED BY <1>3, <2>2 DEF Clear, n
<1>4. ASSUME Poised(a) PROVE Poised(s)
  <2>1. PICK k \in DOMAIN a : a[k].type = "agree" /\ k + 1 = Len(a) /\ a[k + 1].type = "announce"
    BY <1>4 DEF Poised
  <2>2. k + 1 \in DOMAIN s /\ s[k + 1].type = "agree" /\ (k + 1) + 1 = n /\ s[(k + 1) + 1].type = "announce"
    BY <1>1, <1>2, <2>1
  <2> QED BY <2>2 DEF Poised, n
<1>5. 1 \in DOMAIN s /\ (Len(a) >= 1 => a[1] = s[2]) /\ (Len(a) >= 2 => a[2] = s[3])
  BY <1>1
<1>6. ASSUME Head(s).type = "agree", Clear(s), NEW i, Takes(FALSE, a, i) PROVE FALSE
  <2>1. Len(a) >= 2 /\ a[1].type = "announce" /\ a[2].type = "exchange"
    BY <1>6 DEF Takes
  <2>2. 1 \in DOMAIN s /\ s[1].type = "agree" /\ 1 + 2 <= n /\ s[1 + 1].type = "announce" /\ s[1 + 2].type = "exchange"
    BY <1>1, <1>5, <1>6, <2>1
  <2> QED BY <1>6, <2>2 DEF Clear, n
<1>7. ASSUME Head(s).type = "agree", Open(FALSE, a) PROVE Poised(s)
  <2>1. Len(a) = 1 /\ a[1].type = "announce"
    BY <1>7 DEF Open
  <2>3. n = 2
    <3>1. n \in Nat /\ n - 1 = 1
      BY <1>1, <2>1
    <3> QED BY <3>1
  <2>4. a[1] = s[2]
    BY <1>5, <2>1
  <2>2. 1 \in DOMAIN s /\ s[1].type = "agree" /\ 1 + 1 = n /\ s[1 + 1].type = "announce"
    BY <1>1, <1>7, <2>1, <2>3, <2>4
  <2> QED BY <2>2 DEF Poised, n
<1> QED BY <1>3, <1>4, <1>6, <1>7 DEF a

---------------------------------------------------------------------------
(***************************************************************************)
(* The invariant.                                                          *)
(***************************************************************************)
ToHi(c) == chan["lo"][c]
ToLo(c) == chan["hi"][c]
Lo == peer["lo"].instance
Hi == peer["hi"].instance

Uses(e, c) == link[e][c[1]] = c /\ c \in ready[e]
On(e, c) == Uses(e, c) /\ selected[e] = c[1]
Speaks(e, c) == On(e, c) /\ InSession(e, c[1])

Silent(s) == \A i \in Nat : ~From(s, i)
Going(c) == Has(ToHi(c), "go")

FrameTypes ==
  /\ chan \in [End -> [Conn -> Seq(Frame)]]
  /\ peer \in [End -> [session : Nat \cup {None}, instance : Nat, received : BOOLEAN]]
  /\ exchanged \in SUBSET (Nat \X Nat) /\ IsFiniteSet(exchanged)

\* ask, agree and go alternate: lo asks once and sends nothing more until it
\* reads agree, so that go comes first in its channel.  Before its handshake
\* an end has sent nothing.
Channel(c) ==
  /\ OnlyFirst(ToHi(c), "go") /\ OnlyLast(ToHi(c), "ask")
  /\ Uses("lo", c) /\ Has(ToHi(c), "ask") => selecting["lo"] = c[1] /\ ~Has(ToLo(c), "agree")
  /\ Uses("lo", c) /\ Has(ToLo(c), "agree") => selecting["lo"] = c[1] /\ ToHi(c) = <<>>
  /\ Uses("lo", c) => Once(ToLo(c), "agree")
  /\ Once(ToLo(c), "exchange")
  /\ Untried("hi", c) => ToLo(c) = <<>> /\ Silent(ToHi(c)) /\ ~Going(c) /\ ~On("lo", c)
  /\ Untried("lo", c) => ToHi(c) = <<>> /\ ~Has(ToLo(c), "agree")

\* All that lo has sent and hi has not read comes from one instance; when hi
\* has read go, its route has a session.
Carried(c) ==
  /\ \A i, j \in Nat : From(ToHi(c), i) /\ From(ToHi(c), j) => i = j
  /\ On("lo", c) => \A i \in Nat : From(ToHi(c), i) => InSession("lo", c[1]) /\ i = Lo
  /\ On("hi", c) /\ ~Going(c) /\ (~Silent(ToHi(c)) \/ On("lo", c)) => session["hi"][c[1]] # 0

\* The instance of lo whose messages hi may read on c.
Talks(c, j) == From(ToHi(c), j) \/ (Speaks("lo", c) /\ Lo = j)
Hears(c) == InSession("lo", c[1]) /\ peer["lo"].received
Muted(c) == Speaks("hi", c) => ~peer["hi"].received

\* While go is under way lo's instance is in no pair and accepts no revision
\* message of the instance hi had before; after that the two are each other's.
Paired(c) ==
  /\ \A j \in Nat : Going(c) /\ Talks(c, j) => \A q \in exchanged : q[1] # j
  /\ \A j \in Nat : On("hi", c) /\ ~Going(c) /\ Talks(c, j) =>
       \A q \in exchanged : IF InSession("hi", c[1]) THEN q[1] = j <=> q[2] = Hi ELSE q[1] # j
  /\ Speaks("hi", c) /\ On("lo", c) /\ ~Going(c) /\ ~InSession("lo", c[1]) =>
       \A q \in exchanged : q[2] # Hi
  /\ \A i \in Nat : On("lo", c) /\ Takes(Hears(c), ToLo(c), i) =>
       /\ ~Going(c)
       /\ On("hi", c) => InSession("hi", c[1]) /\ Hi = i
       /\ \A q \in exchanged : IF InSession("lo", c[1]) THEN q[1] = Lo <=> q[2] = i ELSE q[2] # i
  /\ On("lo", c) /\ Going(c) /\ Open(Hears(c), ToLo(c)) => Muted(c)
  /\ Uses("lo", c) => Clear(ToLo(c)) /\ (Poised(ToLo(c)) => Muted(c))

Local(c) == Channel(c) /\ Carried(c) /\ Paired(c)

\* An instance exchanges revisions on one connection only.
Separate ==
  /\ \A c, d \in Conn, i \in Nat : From(ToHi(c), i) /\ From(ToHi(d), i) => c = d
  /\ \A c, d \in Conn : Speaks("lo", c) /\ From(ToHi(d), Lo) => c = d
  /\ \A c, d \in Conn : Speaks("hi", c) /\ Exchanges(ToLo(d), Hi) => c = d
  /\ peer["hi"].session = 0 => ~peer["hi"].received /\ \A d \in Conn : ~Exchanges(ToLo(d), Hi)

Pairing == (\A c \in Conn : Local(c)) /\ Separate /\ ExchangesPaired

\* Nothing is under way in an empty channel.
LEMMA EmptyChannel ==
  /\ \A t : ~Has(<<>>, t) /\ OnlyFirst(<<>>, t) /\ OnlyLast(<<>>, t) /\ Once(<<>>, t)
  /\ \A i : ~From(<<>>, i) /\ ~Exchanges(<<>>, i)
  /\ \A h \in BOOLEAN : \A i : ~Takes(h, <<>>, i)
  /\ Silent(<<>>) /\ Clear(<<>>) /\ ~Poised(<<>>) /\ Open(TRUE, <<>>) /\ ~Open(FALSE, <<>>)
<1>1. DOMAIN <<>> = {} /\ Len(<<>>) = 0
  OBVIOUS
<1>2. \A t : ~Has(<<>>, t) /\ OnlyFirst(<<>>, t) /\ OnlyLast(<<>>, t) /\ Once(<<>>, t)
  BY <1>1 DEF Has, OnlyFirst, OnlyLast, Once
<1>3. \A i : ~From(<<>>, i) /\ ~Exchanges(<<>>, i)
  BY <1>1 DEF From, Exchanges
<1>4. \A h \in BOOLEAN : \A i : ~Takes(h, <<>>, i)
  BY <1>1 DEF Takes
<1>5. Silent(<<>>) /\ Clear(<<>>) /\ ~Poised(<<>>) /\ Open(TRUE, <<>>) /\ ~Open(FALSE, <<>>)
  BY <1>1, <1>3 DEF Silent, Clear, Poised, Open
<1> QED BY <1>2, <1>3, <1>4, <1>5

\* Without agree no instance of lo starts from what hi has sent.
LEMMA NoAgree ==
  ASSUME NEW s, ~Has(s, "agree")
  PROVE  Clear(s) /\ ~Poised(s) /\ Once(s, "agree")
BY DEF Has, Clear, Poised, Once

\* A step that neither sends nor reads on c: it may end the use of c, with the
\* loss of what was under way.
QuietAt(c) ==
  /\ \A e \in End : Uses(e, c)' => Uses(e, c)
  /\ \A e \in End : On(e, c)' =>
       On(e, c) /\ session'[e][c[1]] = session[e][c[1]] /\ peer'[e] = peer[e]
  /\ \A e \in End : Untried(e, c)' => Untried(e, c)
                                      \/ (ToHi(c)' = <<>> /\ ToLo(c)' = <<>> /\ ~Uses("lo", c)')
  /\ ToHi(c)' \in {ToHi(c), <<>>} /\ ToLo(c)' \in {ToLo(c), <<>>}
  /\ (ToHi(c)' = ToHi(c) /\ ToLo(c)' = ToLo(c)) \/ ~Uses("lo", c)' \/ ~Uses("hi", c)'
  /\ Uses("lo", c)' /\ selecting["lo"] = c[1] => selecting'["lo"] = c[1]

(***************************************************************************)
(* Such a step, which may add pairs of instances that do not use c.        *)
(***************************************************************************)
LEMMA LocalQuiet ==
  ASSUME NEW c \in Conn, Local(c), QuietAt(c), NEW P,
         exchanged' \subseteq exchanged \cup P,
         \A p \in P : /\ \A j \in Nat : Talks(c, j) => p[1] # j
                      /\ Speaks("hi", c) => p[2] # Hi
                      /\ \A i \in Nat : On("lo", c) /\ Takes(Hears(c), ToLo(c), i) => p[2] # i
                      /\ Speaks("lo", c) => p[1] # Lo
  PROVE  Local(c)'
<1>e. "lo" \in End /\ "hi" \in End
  BY DEF End
<1>1. /\ Uses("lo", c)' => Uses("lo", c)
      /\ On("lo", c)' => On("lo", c) /\ Uses("lo", c)' /\ Lo' = Lo /\ Hears(c)' = Hears(c)
                          /\ InSession("lo", c[1])' = InSession("lo", c[1])
  BY <1>e DEF Lo, Hears, InSession, On, QuietAt
<1>2. /\ On("hi", c)' => On("hi", c) /\ Uses("hi", c)' /\ Hi' = Hi /\ Muted(c)' = Muted(c)
                          /\ InSession("hi", c[1])' = InSession("hi", c[1])
                          /\ session'["hi"][c[1]] = session["hi"][c[1]]
  BY <1>e DEF Hi, InSession, Muted, Speaks, On, QuietAt
<1>3. Speaks("lo", c)' => Speaks("lo", c)
  BY <1>1 DEF Speaks
<1>4. Speaks("hi", c)' => Speaks("hi", c)
  BY <1>2 DEF Speaks
<1>5. ~On("hi", c)' => Muted(c)'
  BY DEF Muted, Speaks
<1>6. \A h : h = Hears(c) => h \in BOOLEAN
  BY DEF Hears
<1>7. Channel(c)'
  <2>1. Channel(c)
    BY DEF Local
  <2>2. ~Uses("lo", c)' => ~On("lo", c)'
    BY DEF On
  <2> QED BY <1>e, <1>1, <2>1, <2>2, EmptyChannel DEF Channel, Going, QuietAt
<1>8. Carried(c)'
  <2>1. Carried(c)
    BY DEF Local
  <2>2. /\ \A i, j \in Nat : From(ToHi(c)', i) /\ From(ToHi(c)', j) => i = j
        /\ On("lo", c)' => \A i \in Nat : From(ToHi(c)', i) => InSession("lo", c[1])' /\ i = Lo'
    BY <1>1, <2>1, EmptyChannel DEF Carried, QuietAt
  <2>3. ASSUME On("hi", c)', ~Going(c)', ~Silent(ToHi(c)') \/ On("lo", c)' PROVE session'["hi"][c[1]] # 0
    <3>1. ToHi(c)' = ToHi(c)
      BY <1>1, <1>2, <2>3, EmptyChannel DEF QuietAt
    <3> QED BY <1>1, <1>2, <2>1, <2>3, <3>1 DEF Carried, Going
  <2> QED BY <2>2, <2>3 DEF Carried
<1>9. Paired(c)'
  <2>0. Paired(c)
    BY DEF Local
  <2>1. \A j : Talks(c, j)' => Talks(c, j)
    <3>1. \A j : From(ToHi(c)', j) => From(ToHi(c), j)
      BY EmptyChannel DEF QuietAt
    <3>2. Speaks("lo", c)' => Lo' = Lo
      BY <1>1 DEF Speaks
    <3> QED BY <1>3, <3>1, <3>2 DEF Talks
  <2>2. \A j \in Nat : Going(c)' /\ Talks(c, j)' => \A q \in exchanged' : q[1] # j
    <3>1. Going(c)' => Going(c)
      BY EmptyChannel DEF Going, QuietAt
    <3> QED BY <2>0, <2>1, <3>1 DEF Paired
  <2>3. ASSUME NEW j \in Nat, On("hi", c)', ~Going(c)', Talks(c, j)', NEW q \in exchanged'
        PROVE  IF InSession("hi", c[1])' THEN q[1] = j <=> q[2] = Hi' ELSE q[1] # j
    <3>1. ToHi(c)' = ToHi(c)
      BY <1>1, <1>2, <2>3, EmptyChannel DEF Talks, Speaks, On, QuietAt
    <3>2. Talks(c, j) /\ ~Going(c) /\ On("hi", c)
      BY <1>2, <2>1, <2>3, <3>1 DEF Going
    <3>3. CASE q \in exchanged
      BY <1>2, <2>0, <2>3, <3>2, <3>3 DEF Paired
    <3>4. CASE q \in P
      BY <1>2, <2>3, <3>2, <3>4 DEF Speaks
    <3> QED BY <3>3, <3>4
  <2>4. ASSUME Speaks("hi", c)', On("lo", c)', ~Going(c)', ~InSession("lo", c[1])', NEW q \in exchanged'
        PROVE  q[2] # Hi'
    <3>1. ToHi(c)' = ToHi(c)
      BY <1>1, <1>2, <2>4 DEF Speaks, QuietAt
    <3>2. Speaks("hi", c) /\ On("lo", c) /\ ~Going(c) /\ ~InSession("lo", c[1]) /\ Hi' = Hi
      BY <1>1, <1>2, <1>4, <2>4, <3>1 DEF Going, Speaks
    <3> QED BY <2>0, <3>2 DEF Paired
  <2>5. ASSUME NEW i \in Nat, On("lo", c)', Takes(Hears(c)', ToLo(c)', i)
        PROVE  /\ ~Going(c)'
               /\ On("hi", c)' => InSession("hi", c[1])' /\ Hi' = i
               /\ \A q \in exchanged' : IF InSession("lo", c[1])' THEN q[1] = Lo' <=> q[2] = i ELSE q[2] # i
    <3>1. On("lo", c) /\ Takes(Hears(c), ToLo(c), i)
      BY <1>1, <1>6, <2>5, EmptyChannel DEF QuietAt
    <3>2. ~Going(c)'
      BY <2>0, <3>1, EmptyChannel DEF Paired, Going, QuietAt
    <3>3. On("hi", c)' => InSession("hi", c[1])' /\ Hi' = i
      BY <1>2, <2>0, <3>1 DEF Paired
    <3>4. ASSUME NEW q \in exchanged'
          PROVE  IF InSession("lo", c[1])' THEN q[1] = Lo' <=> q[2] = i ELSE q[2] # i
      <4>1. CASE q \in exchanged
        BY <1>1, <2>0, <2>5, <3>1, <4>1 DEF Paired
      <4>2. CASE q \in P
        BY <1>1, <2>5, <3>1, <4>2 DEF Speaks
      <4> QED BY <4>1, <4>2
    <3> QED BY <3>2, <3>3, <3>4
  <2>6. On("lo", c)' /\ Going(c)' /\ Open(Hears(c)', ToLo(c)') => Muted(c)'
    <3>1. CASE On("hi", c)' /\ On("lo", c)'
      BY <1>1, <1>2, <2>0, <3>1 DEF Paired, Going, QuietAt
    <3> QED BY <1>5, <3>1
  <2>7. Uses("lo", c)' => Clear(ToLo(c)') /\ (Poised(ToLo(c)') => Muted(c)')
    BY <1>1, <1>2, <1>5, <2>0, EmptyChannel DEF Paired, QuietAt
  <2> QED BY <2>2, <2>3, <2>4, <2>5, <2>6, <2>7 DEF Paired
<1> QED BY <1>7, <1>8, <1>9 DEF Local

\* Such a step that adds no pair.
LEMMA LocalKept ==
  ASSUME NEW c \in Conn, Local(c), QuietAt(c), exchanged' \subseteq exchanged
  PROVE  Local(c)'
<1> DEFINE P == {}
<1>1. exchanged' \subseteq exchanged \cup P /\ \A p \in P : FALSE
  OBVIOUS
<1> HIDE DEF P
<1> QED BY <1>1, LocalQuiet

\* Such steps keep the instances on their connections.
LEMMA QuietSeparate ==
  ASSUME Pairing, \A c \in Conn : QuietAt(c)
  PROVE  /\ \A c \in Conn : \A i : From(ToHi(c)', i) => From(ToHi(c), i)
         /\ \A c \in Conn : \A i : Exchanges(ToLo(c)', i) => Exchanges(ToLo(c), i)
         /\ \A c, d \in Conn, i \in Nat : From(ToHi(c)', i) /\ From(ToHi(d)', i) => c = d
         /\ \A c, d \in Conn : Speaks("lo", c)' /\ From(ToHi(d)', Lo') => c = d
         /\ \A c, d \in Conn : Speaks("hi", c)' /\ Exchanges(ToLo(d)', Hi') => c = d
<1>1. Separate
  BY DEF Pairing
<1>2. \A c \in Conn : \A i : From(ToHi(c)', i) => From(ToHi(c), i)
  BY EmptyChannel DEF QuietAt
<1>3. \A c \in Conn : \A i : Exchanges(ToLo(c)', i) => Exchanges(ToLo(c), i)
  BY EmptyChannel DEF QuietAt
<1>4. \A c \in Conn : Speaks("lo", c)' => Speaks("lo", c) /\ Lo' = Lo
  BY DEF QuietAt, Speaks, InSession, Lo, End
<1>5. \A c \in Conn : Speaks("hi", c)' => Speaks("hi", c) /\ Hi' = Hi
  BY DEF QuietAt, Speaks, InSession, Hi, End
<1> QED BY <1>1, <1>2, <1>3, <1>4, <1>5 DEF Separate

\* A step that is quiet on every connection keeps the whole invariant.
LEMMA PairingQuiet ==
  ASSUME Pairing, \A c \in Conn : QuietAt(c), exchanged' \subseteq exchanged,
         peer'["hi"] # peer["hi"] /\ peer'["hi"].session = 0 =>
           ~peer'["hi"].received /\ \A d \in Conn : ~Exchanges(ToLo(d), peer'["hi"].instance)
  PROVE  Pairing'
<1>1. \A c \in Conn : Local(c)'
  BY LocalKept DEF Pairing
<1>2. peer'["hi"].session = 0 => ~peer'["hi"].received /\ \A d \in Conn : ~Exchanges(ToLo(d)', Hi')
  <2>1. \A c \in Conn : \A i : Exchanges(ToLo(c)', i) => Exchanges(ToLo(c), i)
    BY QuietSeparate
  <2>2. CASE peer'["hi"] = peer["hi"]
    BY <2>1, <2>2 DEF Pairing, Separate, Hi
  <2>3. CASE peer'["hi"] # peer["hi"]
    BY <2>1, <2>3 DEF Hi
  <2> QED BY <2>2, <2>3
<1>3. Separate'
  BY <1>2, QuietSeparate DEF Separate
<1>4. ExchangesPaired'
  BY DEF Pairing, ExchangesPaired
<1> QED BY <1>1, <1>3, <1>4 DEF Pairing

(***************************************************************************)
(* attach().                                                               *)
(***************************************************************************)
LEMMA AttachPairing ==
  ASSUME Shapes, Wiring, FrameTypes, Pairing, NEW c \in Conn, NEW es \in SUBSET End, Attach(c, es),
         \A e \in End : c \notin ready[e]
  PROVE  FrameTypes' /\ Pairing'
<1> DEFINE At(e) == IF e \in es THEN {link[e][c[1]]} \ {None} ELSE {}
           Lost == {c} \cup At("lo") \cup At("hi")
<1>1. /\ link' = [e \in End |-> IF e \in es THEN [link[e] EXCEPT ![c[1]] = c] ELSE link[e]]
      /\ session' = [e \in End |-> IF e \in es THEN [session[e] EXCEPT ![c[1]] = 0] ELSE session[e]]
      /\ ready' = [e \in End |-> ready[e] \ At(e)]
      /\ failed' = [e \in End |-> failed[e] \cup At(e)]
      /\ chan' = [e \in End |-> [x \in Conn |-> IF x \in Lost THEN <<>> ELSE chan[e][x]]]
      /\ UNCHANGED <<selected, selecting, peer, exchanged>>
  BY DEF Attach
<1>2. \A e \in End : \A x \in Conn : x \in At(e) <=> e \in es /\ link[e][c[1]] = x
  BY NoneAssumption
<1>3. \A x \in Conn : x[1] \in Route
  BY RouteOf
<1>4. \A x \in Conn : x \in Lost => x = c \/ x \in At("lo") \/ x \in At("hi")
  OBVIOUS
<1>5. FrameTypes'
  <2> HIDE DEF Lost
  <2>1. chan' \in [End -> [Conn -> Seq(Frame)]]
    BY <1>1 DEF FrameTypes
  <2> QED BY <1>1, <2>1 DEF FrameTypes
<1> HIDE DEF At, Lost
<1>6. \A e \in End, x \in Conn : link'[e][x[1]] = IF e \in es /\ x[1] = c[1] THEN c ELSE link[e][x[1]]
  BY <1>1, <1>3 DEF Shapes, LinkType
<1>7. \A e \in End, x \in Conn :
        session'[e][x[1]] = IF e \in es /\ x[1] = c[1] THEN 0 ELSE session[e][x[1]]
  BY <1>1, <1>3 DEF Shapes
<1>8. \A e \in End : ready'[e] = ready[e] \ At(e) /\ failed'[e] = failed[e] \cup At(e)
  BY <1>1
<1>9. ASSUME NEW x \in Conn PROVE QuietAt(x)
  <2>1. \A e \in End : Uses(e, x)' => Uses(e, x) /\ ~(e \in es /\ x[1] = c[1]) /\ x \notin At(e)
    BY <1>6, <1>8 DEF Uses
  <2>2. \A e \in End : On(e, x)' =>
          On(e, x) /\ session'[e][x[1]] = session[e][x[1]] /\ peer'[e] = peer[e]
    BY <1>1, <1>7, <2>1 DEF On
  <2>3. ToHi(x)' = (IF x \in Lost THEN <<>> ELSE ToHi(x)) /\ ToLo(x)' = (IF x \in Lost THEN <<>> ELSE ToLo(x))
    BY <1>1 DEF ToHi, ToLo, End
  <2>4. x \in Lost => ~Uses("lo", x)' \/ ~Uses("hi", x)'
    <3>1. CASE x = c
      BY <1>8, <3>1 DEF Uses, End
    <3>2. CASE x \in At("lo") \/ x \in At("hi")
      BY <2>1, <3>2 DEF End
    <3> QED BY <1>4, <3>1, <3>2
  <2>5. ASSUME NEW e \in End, Untried(e, x)'
        PROVE  Untried(e, x) \/ (ToHi(x)' = <<>> /\ ToLo(x)' = <<>> /\ ~Uses("lo", x)')
    <3>1. CASE x = c
      <4>1. x \in Lost /\ ~Uses("lo", x)'
        BY <1>8, <3>1 DEF Uses, Lost, End
      <4> QED BY <2>3, <4>1
    <3>2. CASE x # c
      <4>1. link[e][x[1]] = x /\ ~(e \in es /\ x[1] = c[1])
        BY <1>6, <2>5, <3>2 DEF Untried
      <4>2. x \notin At(e)
        <5>1. link[e][c[1]] = x => x[1] = c[1]
          BY <1>3, NoneAssumption DEF Shapes
        <5> QED BY <1>2, <4>1, <5>1
      <4>3. x \notin ready[e] \cup failed[e]
        BY <1>8, <2>5, <4>2 DEF Untried
      <4> QED BY <4>1, <4>3 DEF Untried
    <3> QED BY <3>1, <3>2
  <2> QED BY <1>1, <2>1, <2>2, <2>3, <2>4, <2>5 DEF QuietAt
<1> QED BY <1>1, <1>5, <1>9, PairingQuiet

(***************************************************************************)
(* fail() of a route's connection, by an end that may have started an      *)
(* instance before.                                                        *)
(***************************************************************************)
LEMMA FailPairing ==
  ASSUME Shapes, Wiring, FrameTypes, Pairing, NEW e \in End, NEW r \in Route, link[e][r] \in Conn,
         FailLink(e, r), UNCHANGED routes, exchanged' \subseteq exchanged,
         peer' = peer \/ selected[e] = r, peer'[Other(e)] = peer[Other(e)],
         peer' \in [End -> [session : Nat \cup {None}, instance : Nat, received : BOOLEAN]],
         peer'["hi"] # peer["hi"] /\ peer'["hi"].session = 0 =>
           ~peer'["hi"].received /\ \A d \in Conn : ~Exchanges(ToLo(d), peer'["hi"].instance)
  PROVE  FrameTypes' /\ Pairing'
<1> DEFINE c == link[e][r]
           Kept(d, s) == IF d = e /\ link[Other(e)][r] = c /\ c \notin failed[Other(e)] THEN s ELSE <<>>
<1>1. /\ ready' = [ready EXCEPT ![e] = @ \ {c}] /\ failed' = [failed EXCEPT ![e] = @ \cup {c}]
      /\ chan' = [d \in End |-> [chan[d] EXCEPT ![c] = Kept(d, @)]]
      /\ UNCHANGED <<link, session, selected, selecting>> /\ c \in Conn
  BY DEF FailLink, routes
<1>2. c[1] = r /\ c # None
  BY NoneAssumption DEF Shapes
<1>3. \A d \in End : \A s \in Seq(Frame) : Kept(d, s) \in {s, <<>>} /\ Kept(d, s) \in Seq(Frame)
  OBVIOUS
<1> HIDE DEF Kept
<1>4. FrameTypes'
  <2>1. \A d \in End : chan[d] \in [Conn -> Seq(Frame)]
    BY DEF FrameTypes
  <2>2. \A d \in End : [chan[d] EXCEPT ![c] = Kept(d, @)] \in [Conn -> Seq(Frame)]
    BY <1>3, <2>1
  <2>3. chan' \in [End -> [Conn -> Seq(Frame)]]
    BY <1>1, <2>2
  <2>4. IsFiniteSet(exchanged') /\ exchanged' \in SUBSET (Nat \X Nat)
    BY FS_Subset DEF FrameTypes
  <2> QED BY <2>3, <2>4 DEF FrameTypes
<1>5. \A d \in End, x \in Conn : chan'[d][x] \in {chan[d][x], <<>>} /\ (x # c => chan'[d][x] = chan[d][x])
  <2>1. \A d \in End : chan[d] \in [Conn -> Seq(Frame)] /\ chan'[d] = [chan[d] EXCEPT ![c] = Kept(d, @)]
    BY <1>1 DEF FrameTypes
  <2> QED BY <1>1, <1>3, <2>1
<1> HIDE DEF c
<1>6. \A d \in End : ready'[d] \subseteq ready[d] /\ failed[d] \subseteq failed'[d]
                     /\ ready'[d] \cup failed'[d] = ready[d] \cup failed[d] \cup (IF d = e THEN {c} ELSE {})
                     /\ (d = e => c \notin ready'[d])
  BY <1>1 DEF Shapes
<1>7. ASSUME NEW x \in Conn PROVE QuietAt(x)
  <2>1. \A d \in End : Uses(d, x)' => Uses(d, x) /\ ~(d = e /\ x = c)
    BY <1>1, <1>6 DEF Uses
  <2>2. ASSUME NEW d \in End, On(d, x)'
        PROVE  On(d, x) /\ session'[d][x[1]] = session[d][x[1]] /\ peer'[d] = peer[d]
    <3>1. On(d, x) /\ ~(d = e /\ x = c)
      BY <1>1, <2>1, <2>2 DEF On
    <3>2. peer'[d] = peer[d]
      <4>1. CASE d # e
        BY <4>1 DEF Other, End
      <4>2. CASE d = e
        <5>1. x[1] # r
          BY <3>1, <4>2, <1>2 DEF On, Uses, c
        <5> QED BY <3>1, <4>2, <5>1 DEF On
      <4> QED BY <4>1, <4>2
    <3> QED BY <1>1, <3>1, <3>2
  <2>3. \A d \in End : Untried(d, x)' => Untried(d, x)
    BY <1>1, <1>6 DEF Untried
  <2>4. /\ ToHi(x)' \in {ToHi(x), <<>>} /\ ToLo(x)' \in {ToLo(x), <<>>}
        /\ x # c => ToHi(x)' = ToHi(x) /\ ToLo(x)' = ToLo(x)
    BY <1>5 DEF ToHi, ToLo, End
  <2>5. x = c => ~Uses("lo", x)' \/ ~Uses("hi", x)'
    BY <2>1 DEF End
  <2> QED BY <1>1, <2>1, <2>2, <2>3, <2>4, <2>5 DEF QuietAt
<1> QED BY <1>4, <1>7, PairingQuiet

\* A step that leaves connections, sessions and frames alone is quiet.
LEMMA NothingQuiet ==
  ASSUME NEW c \in Conn,
         UNCHANGED <<link, ready, failed, session, selected, selecting, peer, chan>>
  PROVE  QuietAt(c)
BY DEF QuietAt, On, Uses, Untried, ToHi, ToLo

(***************************************************************************)
(* The handshake completes: an end may use the connection.                 *)
(***************************************************************************)
LEMMA HandshakePairing ==
  ASSUME Shapes, Wiring, FrameTypes, Pairing, NEW e \in End, NEW r \in Route, Handshake(e, r)
  PROVE  FrameTypes' /\ Pairing'
<1>0. PICK c \in Conn : c = link[e][r] /\ c[1] = r /\ link[e][c[1]] = c
  BY DEF Handshake, Shapes, LinkType
<1>1. /\ c # None /\ c \notin ready[e] \cup failed[e]
      /\ ready' = [ready EXCEPT ![e] = @ \cup {c}]
      /\ UNCHANGED <<link, failed, session, selected, selecting, peer, chan, exchanged>>
  BY <1>0 DEF Handshake, routes
<1>2. c \in Conn /\ c[1] = r /\ link[e][c[1]] = c
  BY <1>0
<1>3. Untried(e, c)
  BY <1>1, <1>2 DEF Untried
<1>4. FrameTypes'
  BY <1>1 DEF FrameTypes
<1>5. \A d \in End : ready'[d] = ready[d] \cup (IF d = e THEN {c} ELSE {})
  BY <1>1 DEF Shapes
<1>6. \A x \in Conn : ToHi(x)' = ToHi(x) /\ ToLo(x)' = ToLo(x) /\ Lo' = Lo /\ Hi' = Hi
  BY <1>1 DEF ToHi, ToLo, Lo, Hi
<1>7. \A d \in End, x \in Conn : ~(d = e /\ x = c) =>
        /\ Uses(d, x)' = Uses(d, x) /\ On(d, x)' = On(d, x) /\ Untried(d, x)' = Untried(d, x)
        /\ Speaks(d, x)' = Speaks(d, x)
  BY <1>1, <1>5 DEF Uses, On, Untried, Speaks, InSession
<1>8. \A d \in End, x \in Conn : InSession(d, x[1])' = InSession(d, x[1]) /\ session'[d][x[1]] = session[d][x[1]]
  BY <1>1 DEF InSession
<1>9. ~Untried(e, c)'
  BY <1>5 DEF Untried
<1>10. \A x \in Conn : x # c => Local(x)'
  <2>1. ASSUME NEW x \in Conn, x # c PROVE QuietAt(x)
    BY <1>1, <1>6, <1>7, <1>8, <2>1 DEF QuietAt
  <2> QED BY <1>1, <2>1, LocalKept DEF Pairing
<1>11. Local(c) /\ Separate
  BY <1>2 DEF Pairing
<1>12. \A x \in Conn : Hears(x)' = Hears(x) /\ Going(x)' = Going(x)
  BY <1>1, <1>6 DEF Hears, InSession, Going
<1>13. CASE e = "lo"
  <2>1. ToHi(c) = <<>> /\ ~Has(ToLo(c), "agree")
    BY <1>3, <1>11, <1>13 DEF Local, Channel
  <2>2. ~On("lo", c)' /\ ~Speaks("lo", c)'
    <3>1. selected["lo"] # r
      BY <1>0, <1>1, <1>13 DEF Wiring
    <3> QED BY <1>1, <1>2, <3>1 DEF On, Speaks
  <2>3. /\ Uses("hi", c)' = Uses("hi", c) /\ On("hi", c)' = On("hi", c) /\ Speaks("hi", c)' = Speaks("hi", c)
        /\ Untried("hi", c)' = Untried("hi", c)
    BY <1>2, <1>7, <1>13 DEF End
  <2>4. Channel(c)'
    BY <1>6, <1>9, <1>11, <1>12, <1>13, <2>1, <2>2, <2>3, EmptyChannel, NoAgree DEF Local, Channel
  <2>5. Carried(c)'
    BY <1>6, <2>1, <2>2, EmptyChannel DEF Carried
  <2>6. Paired(c)'
    <3>1. \A j : ~Talks(c, j)'
      BY <1>6, <2>1, <2>2, EmptyChannel DEF Talks
    <3>2. Clear(ToLo(c)') /\ ~Poised(ToLo(c)')
      BY <1>6, <2>1, NoAgree
    <3> QED BY <2>2, <3>1, <3>2 DEF Paired
  <2>7. Separate'
    <3>1. \A x \in Conn : (Speaks("lo", x)' => Speaks("lo", x)) /\ Speaks("hi", x)' = Speaks("hi", x)
      BY <1>7, <1>13, <2>2, <2>3 DEF End
    <3> QED BY <1>1, <1>6, <1>11, <3>1 DEF Separate
  <2> QED BY <1>1, <1>4, <1>10, <2>4, <2>5, <2>6, <2>7 DEF Local, Pairing, ExchangesPaired
<1>14. CASE e = "hi"
  <2>1. ToLo(c) = <<>> /\ Silent(ToHi(c)) /\ ~Going(c) /\ ~On("lo", c)
    BY <1>3, <1>11, <1>14 DEF Local, Channel
  <2>2. session["hi"][c[1]] = 0
    BY <1>2, <1>3, <1>14 DEF Wiring
  <2>3. /\ Uses("lo", c)' = Uses("lo", c) /\ On("lo", c)' = On("lo", c) /\ Speaks("lo", c)' = Speaks("lo", c)
        /\ Untried("lo", c)' = Untried("lo", c)
    BY <1>2, <1>7, <1>14 DEF End
  <2>4. Channel(c)'
    BY <1>1, <1>6, <1>9, <1>11, <1>14, <2>3 DEF Local, Channel
  <2>5. Carried(c)'
    BY <1>6, <1>11, <2>1, <2>3 DEF Local, Carried, Silent
  <2>6. Paired(c)'
    <3>1. \A j \in Nat : ~Talks(c, j)'
      BY <1>6, <2>1, <2>3 DEF Talks, Silent, Speaks
    <3>2. Clear(ToLo(c)') /\ ~Poised(ToLo(c)')
      BY <1>6, <2>1, EmptyChannel
    <3> QED BY <2>1, <2>3, <3>1, <3>2 DEF Paired
  <2>7. Separate'
    <3>1. \A x \in Conn : Speaks("lo", x)' = Speaks("lo", x)
      BY <1>7, <1>14 DEF End
    <3>2. ASSUME NEW x \in Conn, NEW d \in Conn, Speaks("hi", x)', Exchanges(ToLo(d)', Hi') PROVE x = d
      <4>1. CASE x = c
        <5>1. peer["hi"].session = 0
          BY <1>1, <2>2, <3>2, <4>1 DEF Speaks, InSession
        <5> QED BY <1>6, <1>11, <3>2, <5>1 DEF Separate
      <4>2. CASE x # c
        BY <1>6, <1>7, <1>11, <1>14, <3>2, <4>2 DEF Separate, End
      <4> QED BY <4>1, <4>2
    <3> QED BY <1>1, <1>6, <1>11, <3>1, <3>2 DEF Separate
  <2> QED BY <1>1, <1>4, <1>10, <2>4, <2>5, <2>6, <2>7 DEF Local, Pairing, ExchangesPaired
<1> QED BY <1>13, <1>14 DEF End

\* Connections are made, authenticated and fail.
LEMMA ConnectionPairing ==
  ASSUME Shapes, Wiring, FrameTypes, Pairing, NEW e \in End, NEW r \in Route,
         JoinRelay(r) \/ Dial(e, r) \/ Handshake(e, r) \/ Fault(e, r) \/ PeerClosed(e, r)
  PROVE  FrameTypes' /\ Pairing'
<1>1. CASE JoinRelay(r)
  <2> DEFINE c == Lowest(Spare("lo", r))
  <2>1. Spare("lo", r) # {} /\ Attach(c, End)
    BY <1>1 DEF JoinRelay
  <2>2. c \in Conn /\ \A d \in End : c \notin ready[d]
    BY <2>1, LowestSpare, SpareUnused DEF End
  <2> HIDE DEF c
  <2> QED BY <2>1, <2>2, AttachPairing
<1>2. CASE Dial(e, r)
  <2> DEFINE c == Lowest(Spare(e, r))
  <2>1. Spare(e, r) # {} /\ Attach(c, {e})
    BY <1>2 DEF Dial
  <2>2. c \in Conn /\ \A d \in End : c \notin ready[d]
    BY <2>1, LowestSpare, SpareUnused
  <2> HIDE DEF c
  <2> QED BY <2>1, <2>2, AttachPairing
<1>3. CASE Handshake(e, r)
  BY <1>3, HandshakePairing
<1>4. CASE Fault(e, r)
  <2>1. link[e][r] \in Conn /\ FailLink(e, r) /\ UNCHANGED <<routes, peer, exchanged>>
    BY <1>4 DEF Fault, Shapes, LinkType
  <2> QED BY <2>1, FailPairing DEF FrameTypes
<1>5. CASE PeerClosed(e, r)
  <2>1. link[e][r] \in Conn /\ FailLink(e, r) /\ UNCHANGED <<routes, peer, exchanged>>
    BY <1>5 DEF PeerClosed, Shapes, LinkType
  <2> QED BY <2>1, FailPairing DEF FrameTypes
<1> QED BY <1>1, <1>2, <1>3, <1>4, <1>5

\* The listener's answer, and the callback of a closed connection.
LEMMA CallbackPairing ==
  ASSUME Shapes, Wiring, FrameTypes, Pairing, NEW e \in End, NEW c \in Conn,
         Accept(e, c) \/ RefuseDial(e, c) \/ Closed(e, c)
  PROVE  FrameTypes' /\ Pairing'
<1>1. CASE Accept(e, c)
  <2>1. Attach(c, {e}) /\ c \in dialled
    BY <1>1 DEF Accept
  <2>2. \A d \in End : c \notin ready[d]
    BY <2>1 DEF Wiring
  <2> QED BY <2>1, <2>2, AttachPairing
<1>2. CASE RefuseDial(e, c)
  <2>1. UNCHANGED <<link, ready, failed, session, selected, selecting, peer, chan, exchanged>>
    BY <1>2 DEF RefuseDial, routes
  <2>2. \A x \in Conn : QuietAt(x)
    BY <2>1, NothingQuiet
  <2>3. FrameTypes'
    BY <2>1 DEF FrameTypes
  <2> QED BY <2>1, <2>2, <2>3, PairingQuiet
<1>3. CASE Closed(e, c)
  <2> DEFINE r == c[1]
             mine == link[e][r] = c
  <2>1. /\ failed' = [failed EXCEPT ![e] = @ \ {c}]
        /\ link' = [link EXCEPT ![e][r] = IF mine THEN None ELSE @]
        /\ selected' = [selected EXCEPT ![e] = IF mine /\ @ = r THEN None ELSE @]
        /\ selecting' = [selecting EXCEPT ![e] = IF mine /\ @ = r THEN None ELSE @]
        /\ UNCHANGED <<ready, session, peer, chan, exchanged>>
    BY <1>3 DEF Closed
  <2>2. \A x \in Conn : x[1] \in Route
    BY RouteOf
  <2>3. \A d \in End, x \in Route : link'[d][x] = IF d = e /\ x = r /\ mine THEN None ELSE link[d][x]
    BY <2>1, <2>2 DEF Shapes, LinkType
  <2>4. \A d \in End : failed'[d] = failed[d] \ (IF d = e THEN {c} ELSE {})
    BY <2>1 DEF Shapes
  <2>5. ASSUME NEW x \in Conn PROVE QuietAt(x)
    <3>1. ASSUME NEW d \in End, link'[d][x[1]] = x
          PROVE  link[d][x[1]] = x /\ ~(d = e /\ x[1] = r /\ mine) /\ ~(d = e /\ x = c)
      BY <2>2, <2>3, <3>1, NoneAssumption
    <3>2. \A d \in End : Uses(d, x)' => Uses(d, x)
      BY <2>1, <3>1 DEF Uses
    <3>3. \A d \in End : Untried(d, x)' => Untried(d, x)
      BY <2>1, <2>4, <3>1 DEF Untried
    <3>4. \A d \in End : selected'[d] = x[1] => selected[d] = x[1]
      BY <2>1, <2>2, RoutesAssumption DEF Shapes
    <3>5. \A d \in End : On(d, x)' => On(d, x)
      BY <3>2, <3>4 DEF On
    <3>6. Uses("lo", x)' /\ selecting["lo"] = x[1] => selecting'["lo"] = x[1]
      BY <2>1, <3>1 DEF Uses, Shapes, End
    <3>7. ToHi(x)' = ToHi(x) /\ ToLo(x)' = ToLo(x)
      BY <2>1 DEF ToHi, ToLo
    <3> QED BY <2>1, <3>2, <3>3, <3>5, <3>6, <3>7 DEF QuietAt
  <2>6. FrameTypes'
    BY <2>1 DEF FrameTypes
  <2> QED BY <2>1, <2>5, <2>6, PairingQuiet
<1> QED BY <1>1, <1>2, <1>3

\* tick() forgets a peer whose route does not work.
LEMMA ForgetPairing ==
  ASSUME Shapes, Wiring, FrameTypes, Pairing, NEW e \in End, Forget(e)
  PROVE  FrameTypes' /\ Pairing'
<1>1. /\ Live(e) = None /\ peer' = [peer EXCEPT ![e] = NoPeer]
      /\ UNCHANGED <<link, ready, failed, session, selected, selecting, chan, exchanged>>
  BY DEF Forget, links, routes
<1>2. FrameTypes'
  <2>1. peer' \in [End -> [session : Nat \cup {None}, instance : Nat, received : BOOLEAN]]
    BY <1>1 DEF FrameTypes, NoPeer
  <2> QED BY <1>1, <2>1 DEF FrameTypes
<1>3. \A x \in Conn : ~On(e, x)
  <2>1. \A x \in Conn : On(e, x) => Live(e) = x[1] /\ x[1] \in Route
    BY RouteOf, RoutesAssumption DEF On, Uses, Live, Established
  <2> QED BY <1>1, <2>1, RoutesAssumption
<1>4. ASSUME NEW x \in Conn PROVE QuietAt(x)
  <2>1. \A d \in End : Uses(d, x)' = Uses(d, x) /\ Untried(d, x)' = Untried(d, x) /\ On(d, x)' = On(d, x)
    BY <1>1 DEF Uses, Untried, On
  <2>2. \A d \in End : On(d, x) => peer'[d] = peer[d]
    BY <1>1, <1>3 DEF FrameTypes
  <2>3. ToHi(x)' = ToHi(x) /\ ToLo(x)' = ToLo(x)
    BY <1>1 DEF ToHi, ToLo
  <2> QED BY <1>1, <2>1, <2>2, <2>3 DEF QuietAt
<1>5. peer'["hi"] # peer["hi"] => peer'["hi"].session # 0
  BY <1>1, NoneAssumption DEF NoPeer, FrameTypes, End
<1> QED BY <1>1, <1>2, <1>4, <1>5, PairingQuiet

---------------------------------------------------------------------------
(***************************************************************************)
(* Steps that read or send frames on a connection c.                       *)
(***************************************************************************)
\* Nothing is sent or read on other connections.
OnlyOn(c) == \A x \in Conn \ {c} : ToHi(x)' = ToHi(x) /\ ToLo(x)' = ToLo(x)

\* Frames do not change which connections an end uses.
LEMMA SameEnds ==
  ASSUME UNCHANGED <<link, ready, failed>>
  PROVE  \A d \in End, x \in Conn : Uses(d, x)' = Uses(d, x) /\ Untried(d, x)' = Untried(d, x)
BY DEF Uses, Untried

\* Nor which sessions and instances it has.
LEMMA SameSessions ==
  ASSUME UNCHANGED <<link, ready, session, selected, peer>>
  PROVE  /\ \A d \in End, x \in Conn : /\ On(d, x)' = On(d, x) /\ Speaks(d, x)' = Speaks(d, x)
                                       /\ InSession(d, x[1])' = InSession(d, x[1])
         /\ \A x \in Conn : Hears(x)' = Hears(x) /\ Muted(x)' = Muted(x)
         /\ Lo' = Lo /\ Hi' = Hi
BY DEF Uses, On, Speaks, InSession, Hears, Muted, Lo, Hi

\* An end has one selected connection.
LEMMA OneRoute ==
  ASSUME NEW e \in End, NEW c \in Conn, NEW d \in Conn, On(e, c), On(e, d)
  PROVE  c = d
BY DEF On, Uses

\* Channels hold frames.
LEMMA FrameChannels ==
  ASSUME FrameTypes, NEW c \in Conn
  PROVE  ToHi(c) \in Seq(Frame) /\ ToLo(c) \in Seq(Frame)
BY DEF FrameTypes, ToHi, ToLo, End

\* The frames of the protocol.
LEMMA FramesAre ==
  /\ [type |-> "ask"] \in Frame /\ [type |-> "agree"] \in Frame /\ [type |-> "go"] \in Frame
  /\ \A n \in Nat : /\ [type |-> "announce", from |-> n] \in Frame
                   /\ [type |-> "exchange", from |-> n] \in Frame
  /\ \A m \in Frame : m.type \in {"announce", "exchange"} => m.from \in Nat
BY DEF Frame

\* An answer of one frame, and of none.
LEMMA Appends ==
  ASSUME NEW s \in Seq(Frame), NEW m \in Frame
  PROVE  s \o <<m>> = Append(s, m) /\ s \o <<>> = s
OBVIOUS

(***************************************************************************)
(* An end reads a frame on c and answers.                                  *)
(***************************************************************************)
LEMMA AnswerEffect ==
  ASSUME FrameTypes, NEW e \in End, NEW r \in Route, NEW c \in Conn, c = link[e][r],
         NEW frames \in Seq(Frame), Answer(e, r, frames), chan[Other(e)][c] # <<>>
  PROVE  /\ chan' \in [End -> [Conn -> Seq(Frame)]] /\ OnlyOn(c)
         /\ e = "lo" => ToLo(c)' = Tail(ToLo(c)) /\ ToHi(c)' = ToHi(c) \o frames
         /\ e = "hi" => ToHi(c)' = Tail(ToHi(c)) /\ ToLo(c)' = ToLo(c) \o frames
<1> DEFINE o == Other(e)
<1>1. o \in End /\ o # e /\ (e = "lo" => o = "hi") /\ (e = "hi" => o = "lo")
  BY DEF Other, End
<1>2. chan' = [chan EXCEPT ![o][c] = Tail(@), ![e][c] = @ \o frames]
  BY DEF Answer
<1>3. chan \in [End -> [Conn -> Seq(Frame)]] /\ chan[o][c] # <<>>
  BY DEF FrameTypes
<1> HIDE DEF o
<1>4. chan[o][c] \in Seq(Frame) /\ Tail(chan[o][c]) \in Seq(Frame)
  BY <1>1, <1>3
<1>5. chan[e][c] \o frames \in Seq(Frame)
  <2>1. chan[e][c] \in Seq(Frame)
    BY <1>3
  <2> QED BY <2>1
<1>6. chan' \in [End -> [Conn -> Seq(Frame)]]
  BY <1>1, <1>2, <1>3, <1>4, <1>5
<1>7. chan'[o][c] = Tail(chan[o][c]) /\ chan'[e][c] = chan[e][c] \o frames
  BY <1>1, <1>2, <1>3
<1>8. \A d \in End, x \in Conn \ {c} : chan'[d][x] = chan[d][x]
  BY <1>1, <1>2, <1>3
<1> QED BY <1>1, <1>6, <1>7, <1>8 DEF OnlyOn, ToHi, ToLo, End

\* A frame is read on the connection of its route.
LEMMA IncomingOn ==
  ASSUME Shapes, FrameTypes, NEW e \in End, NEW r \in Route, NEW types, Incoming(e, r, types)
  PROVE  \E c \in Conn : /\ c = link[e][r] /\ c[1] = r /\ Uses(e, c) /\ chan[Other(e)][c] # <<>>
                         /\ Head(chan[Other(e)][c]).type \in types
<1>1. link[e][r] \in Conn
  BY IncomingLink
<1>2. link[e][r][1] = r
  BY <1>1, NoneAssumption DEF Shapes
<1> QED BY <1>1, <1>2 DEF Incoming, Established, Uses

(***************************************************************************)
(* lo asks for a route.                                                    *)
(***************************************************************************)
LEMMA SelectPairing ==
  ASSUME Shapes, Wiring, FrameTypes, Pairing, NEW r \in Route, SelectRoute(r)
  PROVE  FrameTypes' /\ Pairing'
<1> DEFINE m == [type |-> "ask"]
<1>0. PICK c \in Conn : c = link["lo"][r] /\ c[1] = r /\ Uses("lo", c)
  <2>1. link["lo"][r] \in Conn
    BY DEF SelectRoute, Established, Shapes, End
  <2>2. link["lo"][r][1] = r
    BY <2>1, NoneAssumption DEF Shapes, End
  <2> QED BY <2>1, <2>2 DEF SelectRoute, Established, Uses
<1>1. /\ selecting["lo"] = None /\ selected["lo"] # r
      /\ selecting' = [selecting EXCEPT !["lo"] = r]
      /\ chan' = [chan EXCEPT !["lo"][c] = Append(@, m)]
      /\ UNCHANGED <<link, ready, failed, session, selected, peer, exchanged>>
  BY <1>0, RoutesAssumption DEF SelectRoute, Live, links
<1>2. m \in Frame /\ m.type = "ask"
  BY FramesAre
<1> HIDE DEF m
<1>3. ToHi(c) \in Seq(Frame) /\ ToLo(c) \in Seq(Frame)
  BY FrameChannels
<1>4. ToHi(c)' = Append(ToHi(c), m) /\ ToLo(c)' = ToLo(c) /\ OnlyOn(c)
  BY <1>1 DEF FrameTypes, ToHi, ToLo, OnlyOn, End
<1>5. FrameTypes'
  <2>1. Append(chan["lo"][c], m) \in Seq(Frame)
    BY <1>2, <1>3 DEF ToHi
  <2>2. chan' \in [End -> [Conn -> Seq(Frame)]]
    BY <1>1, <2>1 DEF FrameTypes, End
  <2> QED BY <1>1, <2>2 DEF FrameTypes
<1>6. Local(c) /\ Separate
  BY DEF Pairing
<1>7. ~Has(ToHi(c), "ask") /\ ~Has(ToLo(c), "agree") /\ ~On("lo", c)
  BY <1>0, <1>1, <1>6, RoutesAssumption DEF Local, Channel, On
<1>8. selecting'["lo"] = r
  BY <1>1 DEF Shapes, End
<1>9. /\ \A t : Has(ToHi(c)', t) <=> Has(ToHi(c), t) \/ t = "ask"
      /\ \A i : From(ToHi(c)', i) <=> From(ToHi(c), i)
  BY <1>2, <1>3, <1>4, AppendHas
<1>10. \A x \in Conn : x # c => Local(x)'
  <2>1. ASSUME NEW x \in Conn, x # c PROVE QuietAt(x)
    <3>1. x[1] \in Route
      BY RouteOf
    <3> QED BY <1>1, <1>4, <2>1, <3>1, SameEnds, SameSessions, RoutesAssumption DEF QuietAt, OnlyOn
  <2> QED BY <1>1, <2>1, LocalKept DEF Pairing
<1>11. (Going(c)' <=> Going(c)) /\ (Silent(ToHi(c)') <=> Silent(ToHi(c)))
  BY <1>9 DEF Going, Silent
<1>12. Channel(c)'
  <2>1. OnlyFirst(ToHi(c)', "go") /\ OnlyLast(ToHi(c)', "ask")
    BY <1>2, <1>3, <1>4, <1>6, <1>7, AppendOnce DEF Local, Channel
  <2>2. ~Untried("lo", c)'
    BY <1>0, <1>1 DEF Uses, Untried
  <2> QED BY <1>0, <1>1, <1>4, <1>6, <1>7, <1>8, <1>11, <2>1, <2>2, SameEnds, SameSessions DEF Local, Channel, End
<1>13. Carried(c)'
  BY <1>1, <1>6, <1>7, <1>9, <1>11, SameSessions DEF Local, Carried, End
<1>14. Paired(c)'
  <2>1. \A j : Talks(c, j)' = Talks(c, j)
    BY <1>1, <1>9, SameSessions DEF Talks, End
  <2> QED BY <1>1, <1>4, <1>6, <1>7, <1>11, <2>1, SameEnds, SameSessions DEF Local, Paired, End
<1>15. Separate'
  <2>1. \A x \in Conn : \A i : From(ToHi(x)', i) <=> From(ToHi(x), i)
    BY <1>4, <1>9 DEF OnlyOn
  <2>2. \A x \in Conn : ToLo(x)' = ToLo(x)
    BY <1>4 DEF OnlyOn
  <2> QED BY <1>1, <1>6, <2>1, <2>2, SameSessions DEF Separate, End
<1> QED BY <1>1, <1>5, <1>10, <1>12, <1>13, <1>14, <1>15 DEF Pairing, Local, ExchangesPaired

(***************************************************************************)
(* hi agrees: ask was the last of what lo sent.                            *)
(***************************************************************************)
LEMMA AskPairing ==
  ASSUME Shapes, Wiring, FrameTypes, Pairing, NEW r \in Route, ReceiveAsk(r)
  PROVE  FrameTypes' /\ Pairing'
<1> DEFINE m == [type |-> "agree"]
<1>0. PICK c \in Conn : c = link["hi"][r] /\ c[1] = r /\ Uses("hi", c) /\ chan[Other("hi")][c] # <<>>
                       /\ Head(chan[Other("hi")][c]).type \in {"ask"}
  BY IncomingOn DEF ReceiveAsk, End
<1>1. /\ selecting' = [selecting EXCEPT !["hi"] = r] /\ Answer("hi", r, <<m>>)
      /\ UNCHANGED <<link, ready, failed, session, selected, peer, exchanged>>
  BY DEF ReceiveAsk, links
<1>2. m \in Frame /\ m.type = "agree"
  BY FramesAre
<1> HIDE DEF m
<1>3. ToHi(c) \in Seq(Frame) /\ ToLo(c) \in Seq(Frame) /\ ToHi(c) # <<>> /\ Head(ToHi(c)).type = "ask"
  BY <1>0, FrameChannels DEF ToHi, Other
<1>4. /\ chan' \in [End -> [Conn -> Seq(Frame)]] /\ OnlyOn(c)
      /\ ToHi(c)' = Tail(ToHi(c)) /\ ToLo(c)' = Append(ToLo(c), m)
  <2>1. <<m>> \in Seq(Frame)
    BY <1>2
  <2> QED BY <1>0, <1>1, <1>2, <1>3, <2>1, AnswerEffect, Appends DEF End
<1>5. FrameTypes'
  BY <1>1, <1>4 DEF FrameTypes
<1>6. Local(c) /\ Separate
  BY DEF Pairing
<1>7. ToHi(c)' = <<>> /\ Has(ToHi(c), "ask")
  BY <1>3, <1>4, <1>6, TailOnce, TailHas DEF Local, Channel
<1>8. selecting'["lo"] = selecting["lo"]
  BY <1>1 DEF Shapes, End
<1>9. ~On("lo", c) /\ ~Untried("lo", c) /\ ~Untried("hi", c)
  <2>1. ~On("lo", c)
    BY <1>0, <1>6, <1>7 DEF Local, Channel, On, Wiring
  <2> QED BY <1>0, <1>3, <1>6, <2>1 DEF Local, Channel, Untried, Uses
<1>10. \A x \in Conn : x # c => Local(x)'
  <2>1. ASSUME NEW x \in Conn, x # c PROVE QuietAt(x)
    BY <1>1, <1>4, <1>8, <2>1, SameEnds, SameSessions DEF QuietAt, OnlyOn
  <2> QED BY <1>1, <2>1, LocalKept DEF Pairing
<1>11. Channel(c)'
  <2>1. Uses("lo", c) => Once(ToLo(c)', "agree")
    BY <1>2, <1>3, <1>4, <1>6, <1>7, AppendOnce DEF Local, Channel
  <2>2. Once(ToLo(c)', "exchange")
    BY <1>2, <1>3, <1>4, <1>6, AppendOnce DEF Local, Channel
  <2> QED BY <1>1, <1>6, <1>7, <1>8, <1>9, <2>1, <2>2, EmptyChannel, SameEnds DEF Local, Channel, End
<1>12. Carried(c)'
  BY <1>1, <1>7, <1>9, EmptyChannel, SameSessions DEF Carried, End
<1>13. Paired(c)'
  <2>1. \A j : ~Talks(c, j)'
    BY <1>1, <1>7, <1>9, EmptyChannel, SameSessions DEF Talks, Speaks, End
  <2>2. Uses("lo", c) => Clear(ToLo(c)') /\ ~Poised(ToLo(c)')
    BY <1>2, <1>3, <1>4, <1>6, AppendClear DEF Local, Paired
  <2> QED BY <1>1, <1>9, <2>1, <2>2, SameEnds, SameSessions DEF Paired, End
<1>14. Separate'
  <2>1. \A x \in Conn : \A i : From(ToHi(x)', i) => From(ToHi(x), i)
    BY <1>4, <1>7, EmptyChannel DEF OnlyOn
  <2>2. \A x \in Conn : \A i : Exchanges(ToLo(x)', i) => Exchanges(ToLo(x), i)
    <3>1. \A i : Exchanges(ToLo(c)', i) => Exchanges(ToLo(c), i)
      BY <1>2, <1>3, <1>4, AppendHas
    <3> QED BY <1>4, <3>1 DEF OnlyOn
  <2> QED BY <1>1, <1>6, <2>1, <2>2, SameSessions DEF Separate, End
<1> QED BY <1>1, <1>5, <1>10, <1>11, <1>12, <1>13, <1>14 DEF Pairing, Local, ExchangesPaired

(***************************************************************************)
(* A route gets a session that neither the end's instance nor another      *)
(* route has.                                                              *)
(***************************************************************************)
LEMMA ActivateSession ==
  ASSUME Shapes, FrameTypes, NEW e \in End, NEW r \in Route, Activate(e, r)
  PROVE  /\ session'[e][r] \in Nat \ {0} /\ session'[e][r] # peer[e].session
         /\ \A d \in End \ {e} : session'[d] = session[d]
         /\ selected' = [selected EXCEPT ![e] = r] /\ selecting' = [selecting EXCEPT ![e] = None]
<1> DEFINE R == {session[e][x] : x \in Route}
           n == Fresh(R \cup {peer[e].session})
<1>1. n \in Nat \ {0} /\ n \notin R \cup {peer[e].session}
  <2>1. session[e] \in Surjection(Route, R)
    BY DEF Shapes, Surjection
  <2>2. IsFiniteSet(R)
    <3> HIDE DEF R
    <3> QED BY <2>1, FS_Surjection, RoutesAssumption
  <2> HIDE DEF R
  <2>3. IsFiniteSet(R \cup {peer[e].session})
    BY <2>2, FS_AddElement
  <2> QED BY <2>3, FreshIsNew
<1>2. /\ selected' = [selected EXCEPT ![e] = r] /\ selecting' = [selecting EXCEPT ![e] = None]
      /\ session' = [session EXCEPT ![e][r] = n]
  BY DEF Activate
<1> HIDE DEF n
<1>3. session'[e][r] = n /\ \A d \in End \ {e} : session'[d] = session[d]
  BY <1>2 DEF Shapes
<1> QED BY <1>1, <1>2, <1>3

(***************************************************************************)
(* lo activates: it has read all that hi sent before it agreed.            *)
(***************************************************************************)
LEMMA AgreePairing ==
  ASSUME Shapes, Wiring, FrameTypes, Pairing, NEW r \in Route, ReceiveAgree(r)
  PROVE  FrameTypes' /\ Pairing'
<1> DEFINE m == [type |-> "go"]
<1>0. PICK c \in Conn : c = link["lo"][r] /\ c[1] = r /\ Uses("lo", c) /\ chan[Other("lo")][c] # <<>>
                       /\ Head(chan[Other("lo")][c]).type \in {"agree"}
  BY IncomingOn DEF ReceiveAgree, End
<1>1. /\ selecting["lo"] = r /\ Answer("lo", r, <<m>>) /\ Activate("lo", r)
      /\ UNCHANGED <<link, ready, failed, peer, exchanged>>
  BY DEF ReceiveAgree, links
<1>2. m \in Frame /\ m.type = "go"
  BY FramesAre
<1> HIDE DEF m
<1>3. ToHi(c) \in Seq(Frame) /\ ToLo(c) \in Seq(Frame) /\ ToLo(c) # <<>> /\ Head(ToLo(c)).type = "agree"
  BY <1>0, FrameChannels DEF ToLo, Other
<1>4. /\ chan' \in [End -> [Conn -> Seq(Frame)]] /\ OnlyOn(c)
      /\ ToLo(c)' = Tail(ToLo(c)) /\ ToHi(c)' = Append(ToHi(c), m)
  <2>1. <<m>> \in Seq(Frame) /\ "lo" \in End
    BY <1>2 DEF End
  <2>2. ToHi(c) \o <<m>> = Append(ToHi(c), m)
    BY <1>2, <1>3, Appends
  <2> QED BY <1>0, <1>1, <2>1, <2>2, AnswerEffect
<1>5. FrameTypes'
  BY <1>1, <1>4 DEF FrameTypes
<1>6. Local(c) /\ Separate
  BY DEF Pairing
<1>7. /\ session'["lo"][r] # peer["lo"].session /\ session'["hi"] = session["hi"]
      /\ selected'["lo"] = r /\ selected'["hi"] = selected["hi"]
      /\ selecting'["lo"] = None
  <2>1. /\ session'["lo"][r] # peer["lo"].session /\ session'["hi"] = session["hi"]
        /\ selected' = [selected EXCEPT !["lo"] = r] /\ selecting' = [selecting EXCEPT !["lo"] = None]
    BY <1>1, ActivateSession DEF End
  <2> QED BY <2>1 DEF Shapes, End
<1>8. ToHi(c) = <<>> /\ ~Has(ToLo(c)', "agree")
  BY <1>0, <1>3, <1>4, <1>6, TailOnce, TailHas DEF Local, Channel
<1>9. \A d \in End, x \in Conn : Uses(d, x)' = Uses(d, x) /\ Untried(d, x)' = Untried(d, x)
  BY <1>1, SameEnds
<1>10. /\ \A x \in Conn : /\ On("hi", x)' = On("hi", x) /\ Speaks("hi", x)' = Speaks("hi", x)
                          /\ InSession("hi", x[1])' = InSession("hi", x[1]) /\ Muted(x)' = Muted(x)
       /\ Hi' = Hi /\ Lo' = Lo
  BY <1>1, <1>7 DEF On, Uses, Speaks, InSession, Muted, Hi, Lo
<1>11. ~InSession("lo", r)' /\ \A x \in Conn : (On("lo", x)' => x = c) /\ ~Speaks("lo", x)'
  <2>1. ~InSession("lo", r)'
    BY <1>1, <1>7 DEF InSession
  <2>2. \A x \in Conn : On("lo", x)' => x = c
    BY <1>0, <1>1, <1>7 DEF On, Uses
  <2> QED BY <1>0, <2>1, <2>2 DEF Speaks
<1>12. \A x \in Conn : x # c => Local(x)'
  <2>1. ASSUME NEW x \in Conn, x # c PROVE QuietAt(x)
    <3>1. Uses("lo", x) => selecting["lo"] # x[1]
      BY <1>0, <1>1, <2>1 DEF Uses
    <3> QED BY <1>1, <1>4, <1>7, <1>9, <1>10, <1>11, <2>1, <3>1 DEF QuietAt, OnlyOn, End
  <2> QED BY <1>1, <2>1, LocalKept DEF Pairing
<1>13. /\ \A t : Has(ToHi(c)', t) <=> t = "go"
       /\ \A i : ~From(ToHi(c)', i)
  <2>1. \A t : ~Has(ToHi(c), t) /\ \A i : ~From(ToHi(c), i)
    BY <1>8, EmptyChannel
  <2>2. /\ \A t : Has(Append(ToHi(c), m), t) <=> Has(ToHi(c), t) \/ m.type = t
        /\ \A i : From(Append(ToHi(c), m), i) <=> From(ToHi(c), i) \/ (m.type \in {"announce", "exchange"} /\ m.from = i)
    BY <1>2, <1>3, AppendHas
  <2> QED BY <1>2, <1>4, <2>1, <2>2
<1>14. Going(c)' /\ ~Hears(c)'
  BY <1>0, <1>11, <1>13 DEF Going, Hears
<1>15. Channel(c)'
  <2>1. OnlyFirst(ToHi(c)', "go") /\ OnlyLast(ToHi(c)', "ask")
    <3>1. ToHi(c) = <<>> /\ OnlyFirst(ToHi(c), "go") /\ ~Has(ToHi(c), "ask")
      BY <1>8, EmptyChannel
    <3>2. OnlyFirst(Append(ToHi(c), m), "go") /\ OnlyLast(Append(ToHi(c), m), "ask")
      BY <1>2, <1>3, <3>1, AppendOnce
    <3> QED BY <1>4, <3>2
  <2>2. Once(ToLo(c)', "exchange")
    BY <1>3, <1>4, <1>6, TailOnce DEF Local, Channel
  <2>3. ~Untried("hi", c)' /\ ~Untried("lo", c)'
    BY <1>0, <1>3, <1>6, <1>9 DEF Local, Channel, Untried, Uses, End
  <2> QED BY <1>8, <1>13, <2>1, <2>2, <2>3, NoAgree DEF Channel
<1>16. Carried(c)'
  BY <1>13, <1>14 DEF Carried
<1>17. Paired(c)'
  <2>1. \A j : ~Talks(c, j)'
    BY <1>11, <1>13 DEF Talks
  <2>2. \A i \in Nat : ~Takes(Hears(c)', ToLo(c)', i)
    <3>1. \A i \in Nat : ~Takes(FALSE, ToLo(c)', i)
      BY <1>0, <1>3, <1>4, <1>6, TailClear DEF Local, Paired
    <3>2. Hears(c)' = FALSE
      BY <1>14 DEF Hears
    <3> QED BY <3>1, <3>2
  <2>3. Open(Hears(c)', ToLo(c)') => Muted(c)'
    <3>1. Open(FALSE, ToLo(c)') => Muted(c)
      BY <1>0, <1>3, <1>4, <1>6, TailClear DEF Local, Paired
    <3>2. Hears(c)' = FALSE
      BY <1>14 DEF Hears
    <3> QED BY <1>10, <3>1, <3>2
  <2>4. Clear(ToLo(c)') /\ ~Poised(ToLo(c)')
    BY <1>8, NoAgree
  <2> QED BY <1>14, <2>1, <2>2, <2>3, <2>4 DEF Paired
<1>18. Separate'
  <2>1. \A x \in Conn : \A i : From(ToHi(x)', i) => From(ToHi(x), i)
    BY <1>4, <1>13 DEF OnlyOn
  <2>2. \A x \in Conn : \A i : Exchanges(ToLo(x)', i) => Exchanges(ToLo(x), i)
    <3>1. \A i : Exchanges(ToLo(c)', i) => Exchanges(ToLo(c), i)
      BY <1>3, <1>4, TailHas
    <3> QED BY <1>4, <3>1 DEF OnlyOn
  <2> QED BY <1>1, <1>6, <1>10, <1>11, <2>1, <2>2 DEF Separate
<1> QED BY <1>1, <1>5, <1>12, <1>15, <1>16, <1>17, <1>18 DEF Pairing, Local, ExchangesPaired

(***************************************************************************)
(* hi activates: go is the first frame of a session of lo.                 *)
(***************************************************************************)
LEMMA GoPairing ==
  ASSUME Shapes, Wiring, FrameTypes, Pairing, NEW r \in Route, ReceiveGo(r)
  PROVE  FrameTypes' /\ Pairing'
<1>0. PICK c \in Conn : c = link["hi"][r] /\ c[1] = r /\ Uses("hi", c) /\ chan[Other("hi")][c] # <<>>
                       /\ Head(chan[Other("hi")][c]).type \in {"go"}
  BY IncomingOn DEF ReceiveGo, End
<1>1. /\ Answer("hi", r, <<>>) /\ Activate("hi", r)
      /\ UNCHANGED <<link, ready, failed, peer, exchanged>>
  BY DEF ReceiveGo, links
<1>3. ToHi(c) \in Seq(Frame) /\ ToLo(c) \in Seq(Frame) /\ ToHi(c) # <<>> /\ Head(ToHi(c)).type = "go"
  BY <1>0, FrameChannels DEF ToHi, Other
<1>4. /\ chan' \in [End -> [Conn -> Seq(Frame)]] /\ OnlyOn(c)
      /\ ToHi(c)' = Tail(ToHi(c)) /\ ToLo(c)' = ToLo(c)
  <2>1. <<>> \in Seq(Frame) /\ ToLo(c) \o <<>> = ToLo(c)
    BY <1>3
  <2> QED BY <1>0, <1>1, <1>3, <2>1, AnswerEffect DEF End
<1>5. FrameTypes'
  BY <1>1, <1>4 DEF FrameTypes
<1>6. Local(c) /\ Separate
  BY DEF Pairing
<1>7. /\ session'["hi"][r] # peer["hi"].session /\ session'["hi"][r] # 0 /\ session'["lo"] = session["lo"]
      /\ selected'["hi"] = r /\ selected'["lo"] = selected["lo"]
      /\ selecting'["lo"] = selecting["lo"]
  <2>1. /\ session'["hi"][r] # peer["hi"].session /\ session'["hi"][r] # 0 /\ session'["lo"] = session["lo"]
        /\ selected' = [selected EXCEPT !["hi"] = r] /\ selecting' = [selecting EXCEPT !["hi"] = None]
    BY <1>1, ActivateSession DEF End
  <2> QED BY <2>1 DEF Shapes, End
<1>8. Going(c) /\ ~Going(c)'
  BY <1>3, <1>4, <1>6, TailOnce, TailHas DEF Local, Channel, Going
<1>9. \A d \in End, x \in Conn : Uses(d, x)' = Uses(d, x) /\ Untried(d, x)' = Untried(d, x)
  BY <1>1, SameEnds
<1>10. /\ \A x \in Conn : /\ On("lo", x)' = On("lo", x) /\ Speaks("lo", x)' = Speaks("lo", x)
                          /\ InSession("lo", x[1])' = InSession("lo", x[1]) /\ Hears(x)' = Hears(x)
       /\ Hi' = Hi /\ Lo' = Lo
  BY <1>1, <1>7 DEF On, Uses, Speaks, InSession, Hears, Hi, Lo
<1>11. ~InSession("hi", c[1])' /\ \A x \in Conn : (On("hi", x)' => x = c) /\ ~Speaks("hi", x)'
  <2>1. ~InSession("hi", r)'
    BY <1>1, <1>7 DEF InSession
  <2>2. \A x \in Conn : On("hi", x)' => x = c
    BY <1>0, <1>1, <1>7 DEF On, Uses
  <2> QED BY <1>0, <2>1, <2>2 DEF Speaks
<1>12. \A x \in Conn : x # c => Local(x)'
  <2>1. ASSUME NEW x \in Conn, x # c PROVE QuietAt(x)
    BY <1>1, <1>4, <1>7, <1>9, <1>10, <1>11, <2>1 DEF QuietAt, OnlyOn, End
  <2> QED BY <1>1, <2>1, LocalKept DEF Pairing
<1>13. /\ \A t : Has(ToHi(c)', t) => Has(ToHi(c), t)
       /\ \A i : From(ToHi(c)', i) => From(ToHi(c), i)
  BY <1>3, <1>4, TailHas
<1>14. Channel(c)'
  <2>1. OnlyFirst(ToHi(c)', "go") /\ OnlyLast(ToHi(c)', "ask")
    BY <1>3, <1>4, <1>6, TailOnce DEF Local, Channel
  <2>2. ~Untried("hi", c)' /\ ~Untried("lo", c)'
    BY <1>0, <1>3, <1>6, <1>9 DEF Local, Channel, Untried, Uses, End
  <2>3. Uses("lo", c) => ~Has(ToLo(c), "agree")
    BY <1>3, <1>6 DEF Local, Channel
  <2> QED BY <1>4, <1>6, <1>7, <1>9, <1>13, <2>1, <2>2, <2>3 DEF Local, Channel, End
<1>15. Carried(c)'
  BY <1>0, <1>6, <1>7, <1>10, <1>13 DEF Local, Carried
<1>16. Paired(c)'
  <2>1. \A j : Talks(c, j)' => Talks(c, j)
    BY <1>10, <1>13 DEF Talks
  <2>2. \A i \in Nat : On("lo", c)' => ~Takes(Hears(c)', ToLo(c)', i)
    BY <1>4, <1>6, <1>8, <1>10 DEF Local, Paired
  <2>3. Muted(c)'
    BY <1>11 DEF Muted
  <2>4. Uses("lo", c)' => Clear(ToLo(c)')
    BY <1>4, <1>6, <1>9 DEF Local, Paired, End
  <2>5. \A j \in Nat : Talks(c, j)' => \A q \in exchanged' : q[1] # j
    BY <1>1, <1>6, <1>8, <2>1 DEF Local, Paired
  <2> QED BY <1>8, <1>11, <2>2, <2>3, <2>4, <2>5 DEF Paired
<1>17. Separate'
  <2>1. \A x \in Conn : \A i : From(ToHi(x)', i) => From(ToHi(x), i)
    BY <1>4, <1>13 DEF OnlyOn
  <2>2. \A x \in Conn : ToLo(x)' = ToLo(x)
    BY <1>4 DEF OnlyOn
  <2> QED BY <1>1, <1>6, <1>10, <1>11, <2>1, <2>2 DEF Separate
<1> QED BY <1>1, <1>5, <1>12, <1>14, <1>15, <1>16, <1>17 DEF Pairing, Local, ExchangesPaired

(***************************************************************************)
(* Data of a route that is not selected.                                   *)
(***************************************************************************)
LEMMA DropPairing ==
  ASSUME Shapes, Wiring, FrameTypes, Pairing, NEW e \in End, NEW r \in Route, DropData(e, r)
  PROVE  FrameTypes' /\ Pairing'
<1>0. PICK c \in Conn : c = link[e][r] /\ c[1] = r /\ Uses(e, c) /\ chan[Other(e)][c] # <<>>
                       /\ Head(chan[Other(e)][c]).type \in {"announce", "exchange"}
  BY IncomingOn DEF DropData
<1>1. /\ Answer(e, r, <<>>) /\ selected[e] # r
      /\ UNCHANGED <<link, ready, failed, session, selected, selecting, peer, exchanged>>
  BY DEF DropData, links, routes, IsSelected
<1>2. ToHi(c) \in Seq(Frame) /\ ToLo(c) \in Seq(Frame)
  BY FrameChannels
<1>3. /\ chan' \in [End -> [Conn -> Seq(Frame)]] /\ OnlyOn(c)
      /\ e = "lo" => ToLo(c)' = Tail(ToLo(c)) /\ ToHi(c)' = ToHi(c)
      /\ e = "hi" => ToHi(c)' = Tail(ToHi(c)) /\ ToLo(c)' = ToLo(c)
  <2>1. <<>> \in Seq(Frame) /\ ToLo(c) \o <<>> = ToLo(c) /\ ToHi(c) \o <<>> = ToHi(c)
    BY <1>2
  <2> QED BY <1>0, <1>1, <2>1, AnswerEffect
<1>4. FrameTypes'
  BY <1>1, <1>3 DEF FrameTypes
<1>5. Local(c) /\ Separate
  BY DEF Pairing
<1>6. ~On(e, c) /\ ~Speaks(e, c)
  BY <1>0, <1>1 DEF On, Speaks
<1>7. \A x \in Conn : x # c => Local(x)'
  <2>1. ASSUME NEW x \in Conn, x # c PROVE QuietAt(x)
    BY <1>1, <1>3, <2>1, SameEnds, SameSessions DEF QuietAt, OnlyOn
  <2> QED BY <1>1, <2>1, LocalKept DEF Pairing
<1>8. CASE e = "lo"
  <2>1. ToLo(c) # <<>> /\ ToLo(c)' = Tail(ToLo(c)) /\ ToHi(c)' = ToHi(c)
    BY <1>0, <1>3, <1>8 DEF ToLo, Other
  <2>2. /\ \A t : Has(ToLo(c)', t) => Has(ToLo(c), t)
        /\ \A i : Exchanges(ToLo(c)', i) => Exchanges(ToLo(c), i)
        /\ \A t : Once(ToLo(c), t) => Once(ToLo(c)', t)
        /\ (Clear(ToLo(c)) => Clear(ToLo(c)')) /\ (Poised(ToLo(c)') => Poised(ToLo(c)))
    <3>1. \A x : Has(Tail(ToLo(c)), x) => Has(ToLo(c), x)
      BY <1>2, <2>1, TailHas
    <3>2. \A i : Exchanges(Tail(ToLo(c)), i) => Exchanges(ToLo(c), i)
      BY <1>2, <2>1, TailHas
    <3>3. \A x : Once(ToLo(c), x) => Once(Tail(ToLo(c)), x)
      BY <1>2, <2>1, TailOnce
    <3>4. (Clear(ToLo(c)) => Clear(Tail(ToLo(c)))) /\ (Poised(Tail(ToLo(c))) => Poised(ToLo(c)))
      BY <1>2, <2>1, TailClear
    <3> QED BY <2>1, <3>1, <3>2, <3>3, <3>4
  <2>3. Going(c)' = Going(c)
    BY <2>1 DEF Going
  <2>4. Channel(c)'
    <3>1. ~Untried("hi", c) /\ ~Untried("lo", c)
      BY <1>0, <1>5, <1>8, <2>1 DEF Local, Channel, Untried, Uses
    <3> QED BY <1>1, <1>5, <2>1, <2>2, <3>1, SameEnds DEF Local, Channel, End
  <2>5. Carried(c)'
    BY <1>1, <1>5, <2>1, <2>3, SameSessions DEF Local, Carried, End
  <2>6. Paired(c)'
    <3>1. \A j : Talks(c, j)' = Talks(c, j)
      BY <1>1, <2>1, SameSessions DEF Talks, End
    <3> QED BY <1>1, <1>5, <1>6, <1>8, <2>2, <2>3, <3>1, SameEnds, SameSessions DEF Local, Paired, End
  <2>7. Separate'
    <3>1. \A x \in Conn : ToHi(x)' = ToHi(x) /\ \A i : Exchanges(ToLo(x)', i) => Exchanges(ToLo(x), i)
      BY <1>3, <2>1, <2>2 DEF OnlyOn
    <3> QED BY <1>1, <1>5, <3>1, SameSessions DEF Separate, End
  <2> QED BY <1>1, <1>4, <1>7, <2>4, <2>5, <2>6, <2>7 DEF Pairing, Local, ExchangesPaired
<1>9. CASE e = "hi"
  <2>1. /\ ToHi(c) # <<>> /\ ToHi(c)' = Tail(ToHi(c)) /\ ToLo(c)' = ToLo(c)
        /\ Head(ToHi(c)).type \in {"announce", "exchange"}
    BY <1>0, <1>3, <1>9 DEF ToHi, Other
  <2>2. /\ \A t : Has(ToHi(c)', t) => Has(ToHi(c), t)
        /\ \A i : From(ToHi(c)', i) => From(ToHi(c), i)
        /\ OnlyFirst(ToHi(c)', "go") /\ OnlyLast(ToHi(c)', "ask")
    BY <1>2, <1>5, <2>1, TailHas, TailOnce DEF Local, Channel
  <2>3. ~Going(c)' /\ ~Going(c)
    BY <1>2, <1>5, <2>1, TailHas, TailOnce DEF Going, Local, Channel
  <2>4. Channel(c)'
    <3>1. ~Untried("hi", c) /\ ~Untried("lo", c)
      BY <1>0, <1>5, <1>9, <2>1 DEF Local, Channel, Untried, Uses
    <3> QED BY <1>1, <1>5, <2>1, <2>2, <3>1, SameEnds DEF Local, Channel, End
  <2>5. Carried(c)'
    BY <1>1, <1>5, <1>6, <1>9, <2>2, SameSessions DEF Local, Carried, End
  <2>6. Paired(c)'
    BY <1>1, <1>5, <1>6, <1>9, <2>1, <2>3, SameEnds, SameSessions DEF Local, Paired, End
  <2>7. Separate'
    <3>1. \A x \in Conn : ToLo(x)' = ToLo(x) /\ \A i : From(ToHi(x)', i) => From(ToHi(x), i)
      BY <1>3, <2>1, <2>2 DEF OnlyOn
    <3> QED BY <1>1, <1>5, <3>1, SameSessions DEF Separate, End
  <2> QED BY <1>1, <1>4, <1>7, <2>4, <2>5, <2>6, <2>7 DEF Pairing, Local, ExchangesPaired
<1> QED BY <1>8, <1>9 DEF End

(***************************************************************************)
(* A new instance has a number that nothing refers to: what is under way   *)
(* and what is remembered is finite.                                       *)
(***************************************************************************)
LEMMA FiniteImage ==
  ASSUME NEW S, IsFiniteSet(S), NEW f, DOMAIN f = S, f = [x \in S |-> f[x]]
  PROVE  IsFiniteSet({f[x] : x \in S})
<1> DEFINE R == {f[x] : x \in S}
<1>1. f \in Surjection(S, R)
  BY DEF Surjection
<1> HIDE DEF R
<1>2. IsFiniteSet(R)
  BY <1>1, FS_Surjection
<1> QED BY <1>2 DEF R

\* There are finitely many connections.
LEMMA FiniteConns ==
  IsFiniteSet(Conn)
<1> DEFINE A == Direct \X (End \X (1..MaxConns))
           f == [p \in A |-> <<p[1], p[2][1], p[2][2]>>]
           B == (Route \ Direct)
           g == [r \in B |-> <<r, "lo", 1>>]
<1>1. IsFiniteSet(Route) /\ IsFiniteSet(Direct) /\ IsFiniteSet(B)
  BY RoutesAssumption, FS_Subset, FS_Difference
<1>2. IsFiniteSet(A)
  <2>1. IsFiniteSet(End)
    <3>1. End = ({"lo"} \cup {"hi"})
      BY DEF End
    <3>2. IsFiniteSet({"lo"})
      BY FS_Singleton
    <3> QED BY <3>1, <3>2, FS_AddElement
  <2>2. IsFiniteSet(1..MaxConns)
    BY RoutesAssumption, FS_Interval
  <2>3. IsFiniteSet(End \X (1..MaxConns))
    BY <2>1, <2>2, FS_Product
  <2> QED BY <1>1, <2>3, FS_Product
<1>3. IsFiniteSet({f[p] : p \in A}) /\ IsFiniteSet({g[r] : r \in B})
  <2> DEFINE F == f
             G == g
  <2>1. DOMAIN F = A /\ F = [p \in A |-> F[p]] /\ DOMAIN G = B /\ G = [r \in B |-> G[r]]
    OBVIOUS
  <2> HIDE DEF F, G, A, B
  <2>2. IsFiniteSet({F[p] : p \in A}) /\ IsFiniteSet({G[r] : r \in B})
    BY <1>1, <1>2, <2>1, FiniteImage
  <2> QED BY <2>2 DEF F, G
<1>4. Conn \subseteq {f[p] : p \in A} \cup {g[r] : r \in B}
  <2> SUFFICES ASSUME NEW c \in Conn PROVE c \in {f[p] : p \in A} \/ c \in {g[r] : r \in B}
    OBVIOUS
  <2>1. CASE c \in Direct \X End \X (1..MaxConns)
    <3>1. <<c[1], <<c[2], c[3]>>>> \in A /\ f[<<c[1], <<c[2], c[3]>>>>] = c
      BY <2>1
    <3> QED BY <3>1
  <2>2. CASE c \in (Route \ Direct) \X {"lo"} \X {1}
    <3>1. c[1] \in B /\ g[c[1]] = c
      BY <2>2
    <3> QED BY <3>1
  <2> QED BY <2>1, <2>2 DEF Conn
<1> HIDE DEF A, f, B, g
<1> DEFINE X == {f[p] : p \in A}
           Y == {g[r] : r \in B}
<1>5. IsFiniteSet(X) /\ IsFiniteSet(Y) /\ Conn \in SUBSET (X \cup Y)
  BY <1>3, <1>4
<1> HIDE DEF X, Y
<1> QED BY <1>5, FS_Union, FS_Subset

\* The frames that name an instance are the data.
LEMMA NamesFrom ==
  ASSUME NEW m \in Frame
  PROVE  "from" \in DOMAIN m <=> m.type \in {"announce", "exchange"}
BY DEF Frame

\* Finitely many instances are named by frames under way.
LEMMA FiniteFlight ==
  ASSUME FrameTypes, NEW e \in End
  PROVE  /\ IsFiniteSet(InFlight(e))
         /\ \A c \in Conn : \A i : From(chan[e][c], i) <=>
              \E k \in DOMAIN chan[e][c] : "from" \in DOMAIN chan[e][c][k] /\ chan[e][c][k].from = i
         /\ \A c \in Conn : \A i : From(chan[e][c], i) => i \in InFlight(e)
<1> DEFINE K(c) == {k \in DOMAIN chan[e][c] : "from" \in DOMAIN chan[e][c][k]}
           N(c) == {m.from : m \in {chan[e][c][i] : i \in K(c)}}
<1>1. \A c \in Conn : chan[e][c] \in Seq(Frame)
  BY DEF FrameTypes
<1>2. ASSUME NEW c \in Conn PROVE IsFiniteSet(N(c))
  <2> DEFINE s == chan[e][c]
             D == {k \in DOMAIN s : "from" \in DOMAIN s[k]}
             h == [k \in D |-> s[k].from]
  <2>1. IsFiniteSet(D)
    <3>1. DOMAIN s = 1..Len(s) /\ Len(s) \in Nat
      BY <1>1
    <3>2. IsFiniteSet(DOMAIN s)
      BY <3>1, FS_Interval
    <3>3. D \in SUBSET (DOMAIN s)
      OBVIOUS
    <3> QED BY <3>2, <3>3, FS_Subset
  <2>2. IsFiniteSet({h[k] : k \in D})
    <3> DEFINE H == h
    <3>1. DOMAIN H = D /\ H = [k \in D |-> H[k]]
      OBVIOUS
    <3> HIDE DEF H, D
    <3>2. IsFiniteSet({H[k] : k \in D})
      BY <2>1, <3>1, FiniteImage
    <3> QED BY <3>2 DEF H
  <2>3. N(c) = {h[k] : k \in D}
    OBVIOUS
  <2> QED BY <2>2, <2>3
<1>3. InFlight(e) = UNION {N(c) : c \in Conn}
  BY DEF InFlight
<1>4. IsFiniteSet({N(c) : c \in Conn})
  <2> DEFINE H == [c \in Conn |-> N(c)]
  <2>1. DOMAIN H = Conn /\ H = [c \in Conn |-> H[c]] /\ {H[c] : c \in Conn} = {N(c) : c \in Conn}
    OBVIOUS
  <2> HIDE DEF H
  <2>2. IsFiniteSet({H[c] : c \in Conn})
    BY <2>1, FiniteImage, FiniteConns
  <2> HIDE DEF N
  <2> QED BY <2>1, <2>2
<1>5. IsFiniteSet(InFlight(e))
  <2> DEFINE U == {N(c) : c \in Conn}
  <2>1. IsFiniteSet(U) /\ \A T \in U : IsFiniteSet(T)
    BY <1>2, <1>4
  <2> HIDE DEF U
  <2>2. IsFiniteSet(UNION U)
    BY <2>1, FS_UNION
  <2> QED BY <1>3, <2>2 DEF U
<1>6. ASSUME NEW c \in Conn, NEW i
      PROVE  From(chan[e][c], i) <=>
               \E k \in DOMAIN chan[e][c] : "from" \in DOMAIN chan[e][c][k] /\ chan[e][c][k].from = i
  <2>1. \A k \in DOMAIN chan[e][c] : chan[e][c][k] \in Frame
    BY <1>1
  <2> QED BY <2>1, NamesFrom DEF From
<1>7. ASSUME NEW c \in Conn, NEW i, From(chan[e][c], i) PROVE i \in InFlight(e)
  <2>1. PICK k \in DOMAIN chan[e][c] : "from" \in DOMAIN chan[e][c][k] /\ chan[e][c][k].from = i
    BY <1>6, <1>7
  <2>2. i \in N(c)
    BY <2>1
  <2> QED BY <1>3, <2>2
<1> QED BY <1>5, <1>6, <1>7

\* current() starts an instance that no frame and no pair names.
LEMMA FreshInstance ==
  ASSUME FrameTypes, NEW e \in End, NEW r \in Route, ~InSession(e, r)
  PROVE  \E n \in Nat : /\ Current(e, r) = [session |-> session[e][r], received |-> FALSE, instance |-> n]
                        /\ n # peer[e].instance
                        /\ \A c \in Conn : ~From(chan[e][c], n)
                        /\ \A q \in exchanged : q[Side(e)] # n
<1> DEFINE Q == {pair[Side(e)] : pair \in exchanged}
           used == {peer[e].instance} \cup InFlight(e) \cup Q
           n == Fresh(used)
<1>1. IsFiniteSet(Q)
  <2> DEFINE H == [q \in exchanged |-> q[Side(e)]]
  <2>1. DOMAIN H = exchanged /\ H = [q \in exchanged |-> H[q]] /\ {H[q] : q \in exchanged} = Q
    OBVIOUS
  <2>2. IsFiniteSet(exchanged)
    BY DEF FrameTypes
  <2> HIDE DEF H, Q
  <2> QED BY <2>1, <2>2, FiniteImage
<1>2. IsFiniteSet(used)
  <2>1. IsFiniteSet(InFlight(e)) /\ IsFiniteSet({peer[e].instance})
    BY FiniteFlight, FS_Singleton
  <2> HIDE DEF Q
  <2> DEFINE A == {peer[e].instance}
             B == InFlight(e)
  <2>2. IsFiniteSet(A) /\ IsFiniteSet(B)
    BY <2>1
  <2> HIDE DEF A, B
  <2>3. IsFiniteSet(A \cup B)
    BY <2>2, FS_Union
  <2>4. IsFiniteSet((A \cup B) \cup Q)
    BY <1>1, <2>3, FS_Union
  <2> QED BY <2>4 DEF A, B
<1> HIDE DEF used
<1>3. n \in Nat /\ n \notin used
  BY <1>2, FreshIsNew
<1>4. Current(e, r) = [session |-> session[e][r], received |-> FALSE, instance |-> n]
  BY DEF Current, used
<1> HIDE DEF n
<1>5. n # peer[e].instance /\ n \notin InFlight(e) /\ \A q \in exchanged : q[Side(e)] # n
  BY <1>3 DEF used
<1>6. \A c \in Conn : ~From(chan[e][c], n)
  BY <1>5, FiniteFlight
<1> QED BY <1>3, <1>4, <1>5, <1>6

---------------------------------------------------------------------------
(***************************************************************************)
(* Data: an end sends or reads on the connection of its selected route,    *)
(* and its instance is that of the route's session from then on.           *)
(***************************************************************************)
DataStep(e, c) ==
  /\ On(e, c) /\ OnlyOn(c)
  /\ UNCHANGED <<link, ready, failed, session, selected, selecting>>
  /\ peer'[Other(e)] = peer[Other(e)] /\ peer'[e].session = session[e][c[1]]

IsData(m) == m.type \in {"announce", "exchange"}

\* What happens to a channel: nothing, a frame is sent, the first one is read.
Sends(s, t, m) == m \in Frame /\ IsData(m) /\ t = Append(s, m)
Reads(s, t) == s # <<>> /\ IsData(Head(s)) /\ t = Tail(s)

\* Such a step concerns the selected connection only.
LEMMA DataEnds ==
  ASSUME NEW e \in End, NEW c \in Conn, DataStep(e, c)
  PROVE  /\ \A d \in End, x \in Conn : /\ Uses(d, x)' = Uses(d, x) /\ Untried(d, x)' = Untried(d, x)
                                       /\ On(d, x)' = On(d, x)
         /\ ~Untried(e, c) /\ InSession(e, c[1])'
         /\ \A x \in Conn : Speaks(e, x)' <=> x = c
         /\ \A x \in Conn \ {c} : ~On(e, x) /\ QuietAt(x)
<1>1. \A d \in End, x \in Conn : Uses(d, x)' = Uses(d, x) /\ Untried(d, x)' = Untried(d, x)
  BY SameEnds DEF DataStep
<1>2. \A d \in End, x \in Conn : On(d, x)' = On(d, x)
  BY <1>1 DEF DataStep, On
<1>3. ~Untried(e, c) /\ InSession(e, c[1])'
  BY DEF DataStep, Untried, On, Uses, InSession
<1>4. \A x \in Conn \ {c} : ~On(e, x)
  BY OneRoute DEF DataStep
<1>5. \A x \in Conn : Speaks(e, x)' <=> x = c
  BY <1>2, <1>3, <1>4 DEF DataStep, Speaks
<1>6. ASSUME NEW x \in Conn \ {c} PROVE QuietAt(x)
  <2>1. \A d \in End : d = e \/ d = Other(e)
    BY DEF End, Other
  <2>2. \A d \in End : On(d, x)' =>
          On(d, x) /\ session'[d][x[1]] = session[d][x[1]] /\ peer'[d] = peer[d]
    BY <1>2, <1>4, <2>1 DEF DataStep
  <2> QED BY <1>1, <2>2 DEF DataStep, OnlyOn, QuietAt
<1> QED BY <1>1, <1>2, <1>3, <1>4, <1>5, <1>6

(***************************************************************************)
(* The other connections: a pair that is new must not concern them.        *)
(***************************************************************************)
LEMMA DataOthers ==
  ASSUME Pairing, NEW e \in End, NEW c \in Conn, DataStep(e, c), NEW P,
         exchanged' \subseteq exchanged \cup P,
         \A x \in Conn \ {c} : \A p \in P :
            /\ \A j \in Nat : Talks(x, j) => p[1] # j
            /\ Speaks("hi", x) => p[2] # Hi
            /\ \A i \in Nat : On("lo", x) /\ Takes(Hears(x), ToLo(x), i) => p[2] # i
            /\ Speaks("lo", x) => p[1] # Lo
  PROVE  \A x \in Conn : x # c => Local(x)'
<1> SUFFICES ASSUME NEW x \in Conn \ {c} PROVE Local(x)'
  OBVIOUS
<1>1. QuietAt(x)
  BY DataEnds
<1>2. Local(x)
  BY DEF Pairing
<1> QED BY <1>1, <1>2, LocalQuiet

\* The other connections, when there is no new pair.
LEMMA DataKept ==
  ASSUME Pairing, NEW e \in End, NEW c \in Conn, DataStep(e, c), exchanged' \subseteq exchanged
  PROVE  \A x \in Conn : x # c => Local(x)'
BY LocalKept, DataEnds DEF Pairing

(***************************************************************************)
(* lo sends or reads: it asks for no route that is selected.               *)
(***************************************************************************)
LEMMA LoStep ==
  ASSUME Wiring, NEW c \in Conn, Local(c), DataStep("lo", c)
  PROVE  /\ \A x \in Conn : /\ Speaks("hi", x)' = Speaks("hi", x) /\ Muted(x)' = Muted(x)
                            /\ InSession("hi", x[1])' = InSession("hi", x[1])
         /\ Hi' = Hi /\ peer'["hi"] = peer["hi"]
         /\ ~Has(ToHi(c), "ask") /\ ~Has(ToLo(c), "agree") /\ ~Untried("hi", c) /\ ~Untried("lo", c)
<1>1. peer'["hi"] = peer["hi"] /\ "lo" \in End /\ "hi" \in End
  BY DEF DataStep, Other, End
<1>2. \A x \in Conn : On("hi", x)' = On("hi", x) /\ InSession("hi", x[1])' = InSession("hi", x[1])
  BY <1>1, DataEnds DEF DataStep, InSession
<1>3. \A x \in Conn : Speaks("hi", x)' = Speaks("hi", x) /\ Muted(x)' = Muted(x)
  BY <1>1, <1>2 DEF Speaks, Muted
<1>4. selecting["lo"] # c[1] /\ On("lo", c) /\ Uses("lo", c)
  BY RouteOf DEF Wiring, DataStep, On
<1>5. ~Has(ToHi(c), "ask") /\ ~Has(ToLo(c), "agree") /\ ~Untried("hi", c)
  BY <1>4 DEF Local, Channel
<1> QED BY <1>1, <1>2, <1>3, <1>5, DataEnds DEF Hi

\* The channels of c after a step of lo.
LEMMA LoChannel ==
  ASSUME Wiring, FrameTypes, NEW c \in Conn, Local(c), DataStep("lo", c), NEW m,
         ToHi(c)' = ToHi(c) \/ Sends(ToHi(c), ToHi(c)', m),
         ToLo(c)' = ToLo(c) \/ Reads(ToLo(c), ToLo(c)')
  PROVE  /\ Channel(c)' /\ (Going(c)' <=> Going(c)) /\ Clear(ToLo(c)') /\ ~Poised(ToLo(c)')
         /\ \A i : Exchanges(ToLo(c)', i) => Exchanges(ToLo(c), i)
<1>1. ToHi(c) \in Seq(Frame) /\ ToLo(c) \in Seq(Frame)
  BY FrameChannels
<1>2. ~Has(ToHi(c), "ask") /\ ~Has(ToLo(c), "agree") /\ ~Untried("hi", c) /\ ~Untried("lo", c)
  BY LoStep
<1>3. OnlyFirst(ToHi(c), "go") /\ OnlyLast(ToHi(c), "ask") /\ Once(ToLo(c), "exchange")
  BY DEF Local, Channel
<1>4. /\ Has(ToHi(c)', "go") <=> Has(ToHi(c), "go")
      /\ ~Has(ToHi(c)', "ask") /\ OnlyFirst(ToHi(c)', "go") /\ OnlyLast(ToHi(c)', "ask")
  <2>1. CASE Sends(ToHi(c), ToHi(c)', m)
    <3>1. m \in Frame /\ m.type # "go" /\ m.type # "ask" /\ ToHi(c)' = Append(ToHi(c), m)
      BY <2>1 DEF Sends, IsData
    <3>2. \A t : Has(Append(ToHi(c), m), t) <=> Has(ToHi(c), t) \/ m.type = t
      BY <1>1, <3>1, AppendHas
    <3>3. OnlyFirst(Append(ToHi(c), m), "go") /\ OnlyLast(Append(ToHi(c), m), "ask")
      BY <1>1, <1>2, <1>3, <3>1, AppendOnce
    <3> QED BY <1>2, <3>1, <3>2, <3>3
  <2> QED BY <1>2, <1>3, <2>1
<1>5. /\ ~Has(ToLo(c)', "agree") /\ Once(ToLo(c)', "exchange")
      /\ \A i : Exchanges(ToLo(c)', i) => Exchanges(ToLo(c), i)
  <2>1. CASE Reads(ToLo(c), ToLo(c)')
    <3>1. ToLo(c) # <<>> /\ ToLo(c)' = Tail(ToLo(c))
      BY <2>1 DEF Reads
    <3>2. \A t : Has(Tail(ToLo(c)), t) => Has(ToLo(c), t)
      BY <1>1, <3>1, TailHas
    <3>3. \A i : Exchanges(Tail(ToLo(c)), i) => Exchanges(ToLo(c), i)
      BY <1>1, <3>1, TailHas
    <3>4. Once(Tail(ToLo(c)), "exchange")
      BY <1>1, <1>3, <3>1, TailOnce
    <3> QED BY <1>2, <3>1, <3>2, <3>3, <3>4
  <2> QED BY <1>2, <1>3, <2>1
<1>6. Clear(ToLo(c)') /\ ~Poised(ToLo(c)') /\ Once(ToLo(c)', "agree")
  BY <1>5, NoAgree
<1>7. ~Untried("hi", c)' /\ ~Untried("lo", c)'
  BY <1>2, DataEnds DEF End
<1> QED BY <1>4, <1>5, <1>6, <1>7 DEF Channel, Going

(***************************************************************************)
(* hi sends or reads.                                                      *)
(***************************************************************************)
LEMMA HiStep ==
  ASSUME NEW c \in Conn, DataStep("hi", c)
  PROVE  /\ \A x \in Conn : /\ Speaks("lo", x)' = Speaks("lo", x) /\ Hears(x)' = Hears(x)
                            /\ InSession("lo", x[1])' = InSession("lo", x[1])
         /\ Lo' = Lo /\ peer'["lo"] = peer["lo"]
<1>1. peer'["lo"] = peer["lo"] /\ "lo" \in End /\ "hi" \in End
  BY DEF DataStep, Other, End
<1>2. \A x \in Conn : On("lo", x)' = On("lo", x) /\ InSession("lo", x[1])' = InSession("lo", x[1])
  BY <1>1, DataEnds DEF DataStep, InSession
<1>3. \A x \in Conn : Speaks("lo", x)' = Speaks("lo", x) /\ Hears(x)' = Hears(x)
  BY <1>1, <1>2 DEF Speaks, Hears
<1> QED BY <1>1, <1>2, <1>3 DEF Lo

\* What lo sent is read after go, on a route with a session; agree was read
\* before that.
LEMMA HiReads ==
  ASSUME FrameTypes, NEW c \in Conn, Local(c), On("hi", c), Reads(ToHi(c), ToHi(c)')
  PROVE  /\ ~Going(c) /\ ~Going(c)' /\ session["hi"][c[1]] # 0 /\ ~Untried("lo", c)
         /\ Uses("lo", c) => ~Has(ToLo(c), "agree")
         /\ Has(ToHi(c)', "ask") => Has(ToHi(c), "ask")
         /\ OnlyFirst(ToHi(c)', "go") /\ OnlyLast(ToHi(c)', "ask")
         /\ \A i : From(ToHi(c)', i) => From(ToHi(c), i)
         /\ Head(ToHi(c)).from \in Nat /\ From(ToHi(c), Head(ToHi(c)).from)
<1>1. ToHi(c) \in Seq(Frame) /\ ToHi(c) # <<>> /\ IsData(Head(ToHi(c))) /\ ToHi(c)' = Tail(ToHi(c))
  BY FrameChannels DEF Reads
<1>2. OnlyFirst(ToHi(c), "go") /\ OnlyLast(ToHi(c), "ask")
  BY DEF Local, Channel
<1>3. /\ ~Has(Tail(ToHi(c)), "go") /\ OnlyFirst(Tail(ToHi(c)), "go") /\ OnlyLast(Tail(ToHi(c)), "ask")
  BY <1>1, <1>2, TailOnce
<1>4. /\ \A t : Has(ToHi(c), t) <=> Has(Tail(ToHi(c)), t) \/ Head(ToHi(c)).type = t
      /\ \A i : From(ToHi(c), i) <=> From(Tail(ToHi(c)), i)
           \/ (Head(ToHi(c)).type \in {"announce", "exchange"} /\ Head(ToHi(c)).from = i)
  BY <1>1, TailHas
<1>5. ~Going(c) /\ ~Going(c)'
  BY <1>1, <1>3, <1>4 DEF Going, IsData
<1>6. Head(ToHi(c)).from \in Nat /\ From(ToHi(c), Head(ToHi(c)).from)
  BY <1>1, <1>4, TailAt, FramesAre DEF IsData
<1>7. session["hi"][c[1]] # 0
  BY <1>5, <1>6 DEF Local, Carried, Silent
<1>8. ~Untried("lo", c) /\ (Uses("lo", c) => ~Has(ToLo(c), "agree"))
  BY <1>1 DEF Local, Channel
<1> QED BY <1>1, <1>3, <1>4, <1>5, <1>6, <1>7, <1>8

\* The channels of c after a step of hi.
LEMMA HiChannel ==
  ASSUME FrameTypes, NEW c \in Conn, Local(c), DataStep("hi", c), NEW m,
         ToHi(c)' = ToHi(c) \/ Reads(ToHi(c), ToHi(c)'),
         \/ ToLo(c)' = ToLo(c)
         \/ /\ Sends(ToLo(c), ToLo(c)', m)
            /\ m.type = "exchange" => ~Has(ToLo(c), "exchange") /\ ~(Uses("lo", c) /\ Poised(ToLo(c)))
  PROVE  /\ Channel(c)' /\ (Going(c)' <=> Going(c))
         /\ \A i : From(ToHi(c)', i) => From(ToHi(c), i)
         /\ Uses("lo", c) => Clear(ToLo(c)')
         /\ Uses("lo", c) /\ Poised(ToLo(c)') => Has(ToLo(c), "agree") /\ ToHi(c)' = ToHi(c)
<1>1. ToHi(c) \in Seq(Frame) /\ ToLo(c) \in Seq(Frame)
  BY FrameChannels
<1>2. On("hi", c) /\ ~Untried("hi", c)
  BY DataEnds DEF DataStep, End
<1>3. /\ OnlyFirst(ToHi(c), "go") /\ OnlyLast(ToHi(c), "ask") /\ Once(ToLo(c), "exchange")
      /\ Uses("lo", c) => Once(ToLo(c), "agree") /\ Clear(ToLo(c))
  BY DEF Local, Channel, Paired
<1>4. /\ (Going(c)' <=> Going(c)) /\ OnlyFirst(ToHi(c)', "go") /\ OnlyLast(ToHi(c)', "ask")
      /\ Has(ToHi(c)', "ask") => Has(ToHi(c), "ask")
      /\ \A i : From(ToHi(c)', i) => From(ToHi(c), i)
  <2>1. CASE Reads(ToHi(c), ToHi(c)')
    BY <1>2, <2>1, HiReads
  <2>2. CASE ToHi(c)' = ToHi(c)
    BY <1>3, <2>2 DEF Going
  <2> QED BY <2>1, <2>2
<1>5. /\ Has(ToLo(c)', "agree") <=> Has(ToLo(c), "agree")
      /\ Once(ToLo(c)', "exchange")
      /\ Uses("lo", c) => Once(ToLo(c)', "agree") /\ Clear(ToLo(c)')
  <2>1. CASE ToLo(c)' = ToLo(c)
    BY <1>3, <2>1
  <2>2. CASE Sends(ToLo(c), ToLo(c)', m) /\
             (m.type = "exchange" => ~Has(ToLo(c), "exchange") /\ ~(Uses("lo", c) /\ Poised(ToLo(c))))
    <3>1. m \in Frame /\ m.type # "agree" /\ ToLo(c)' = Append(ToLo(c), m)
      BY <2>2 DEF Sends, IsData
    <3>2. Has(Append(ToLo(c), m), "agree") <=> Has(ToLo(c), "agree")
      BY <1>1, <3>1, AppendHas
    <3>3. Once(Append(ToLo(c), m), "exchange") /\ (Uses("lo", c) => Once(Append(ToLo(c), m), "agree"))
      BY <1>1, <1>3, <2>2, <3>1, AppendOnce
    <3>4. Uses("lo", c) => Clear(Append(ToLo(c), m))
      BY <1>1, <1>3, <2>2, <3>1, AppendClear
    <3> QED BY <3>1, <3>2, <3>3, <3>4
  <2> QED BY <2>1, <2>2
<1>6. ToHi(c)' = ToHi(c) \/ (~Untried("lo", c) /\ (Uses("lo", c) => ~Has(ToLo(c), "agree")))
  BY <1>2, HiReads
<1>7. ASSUME Uses("lo", c), Poised(ToLo(c)') PROVE Has(ToLo(c), "agree") /\ ToHi(c)' = ToHi(c)
  BY <1>5, <1>6, <1>7, NoAgree
<1>8. Channel(c)'
  <2>1. /\ Uses("lo", c)' = Uses("lo", c) /\ Untried("lo", c)' = Untried("lo", c) /\ ~Untried("hi", c)'
        /\ selecting' = selecting
    BY <1>2, DataEnds DEF DataStep, End
  <2>2. Uses("lo", c) /\ Has(ToHi(c)', "ask") => selecting["lo"] = c[1] /\ ~Has(ToLo(c)', "agree")
    BY <1>4, <1>5 DEF Local, Channel
  <2>3. Uses("lo", c) /\ Has(ToLo(c)', "agree") => selecting["lo"] = c[1] /\ ToHi(c)' = <<>>
    BY <1>5, <1>6 DEF Local, Channel
  <2>4. Untried("lo", c) => ToHi(c)' = <<>> /\ ~Has(ToLo(c)', "agree")
    BY <1>5, <1>6 DEF Local, Channel
  <2> QED BY <1>4, <1>5, <2>1, <2>2, <2>3, <2>4 DEF Channel
<1> QED BY <1>4, <1>5, <1>7, <1>8

(***************************************************************************)
(* The instance of lo sends a revision message.                            *)
(***************************************************************************)
LEMMA LoSends ==
  ASSUME Wiring, FrameTypes, Pairing, NEW c \in Conn, DataStep("lo", c), InSession("lo", c[1]),
         peer' = peer, exchanged' = exchanged, NEW m, m.type = "exchange", m.from = Lo,
         Sends(ToHi(c), ToHi(c)', m), ToLo(c)' = ToLo(c)
  PROVE  Pairing'
<1>1. ToHi(c) \in Seq(Frame) /\ Local(c) /\ Separate /\ Speaks("lo", c) /\ Lo \in Nat
  BY FrameChannels DEF Pairing, DataStep, Speaks, FrameTypes, Lo, End
<1>2. \A x \in Conn : x # c => Local(x)'
  BY DataKept DEF End
<1>3. Channel(c)' /\ (Going(c)' <=> Going(c)) /\ Clear(ToLo(c)') /\ ~Poised(ToLo(c)')
  BY <1>1, LoChannel
<1>4. \A i : From(ToHi(c)', i) <=> From(ToHi(c), i) \/ i = Lo
  <2>1. \A i : From(Append(ToHi(c), m), i) <=> From(ToHi(c), i) \/ (m.type \in {"announce", "exchange"} /\ m.from = i)
    BY <1>1, AppendHas DEF Sends
  <2> QED BY <2>1 DEF Sends
<1>5. UNCHANGED <<link, ready, session, selected, peer>>
  BY DEF DataStep
<1>6. Carried(c)'
  BY <1>1, <1>3, <1>4, <1>5, SameSessions DEF Local, Carried, Speaks, End
<1>7. Paired(c)'
  <2>1. \A j \in Nat : Talks(c, j)' => Talks(c, j)
    BY <1>1, <1>4, <1>5, SameSessions DEF Talks, End
  <2>2. Uses("lo", c)' = Uses("lo", c)
    BY DataEnds DEF End
  <2> QED BY <1>1, <1>3, <1>5, <2>1, <2>2, SameSessions DEF Local, Paired, End
<1>8. Separate'
  <2>1. \A x \in Conn : ToLo(x)' = ToLo(x)
    BY DEF DataStep, OnlyOn
  <2>2. \A x \in Conn : \A i : From(ToHi(x)', i) <=> From(ToHi(x), i) \/ (x = c /\ i = Lo)
    BY <1>4 DEF DataStep, OnlyOn
  <2>3. /\ \A x \in Conn : Speaks("lo", x)' = Speaks("lo", x) /\ Speaks("hi", x)' = Speaks("hi", x)
        /\ Lo' = Lo /\ Hi' = Hi
    BY <1>5, SameSessions DEF End
  <2>4. \A x, d \in Conn : Speaks("lo", x) /\ From(ToHi(d), Lo) => x = d
    BY <1>1 DEF Separate
  <2>5. \A x, d \in Conn, i \in Nat : From(ToHi(x)', i) /\ From(ToHi(d)', i) => x = d
    BY <1>1, <2>2, <2>4 DEF Separate
  <2>6. \A x \in Conn : Speaks("lo", x) => x = c
    BY <1>1, OneRoute DEF Speaks, End
  <2>7. \A x, d \in Conn : Speaks("lo", x)' /\ From(ToHi(d)', Lo') => x = d
    BY <1>1, <2>2, <2>3, <2>4, <2>6
  <2> QED BY <1>1, <2>1, <2>3, <2>5, <2>7 DEF Separate
<1> QED BY <1>2, <1>3, <1>6, <1>7, <1>8 DEF Pairing, Local, ExchangesPaired

(***************************************************************************)
(* The instance of hi sends a revision message: it has lo's announcement,  *)
(* so that go is not under way to it.                                      *)
(***************************************************************************)
LEMMA HiSends ==
  ASSUME Wiring, FrameTypes, Pairing, NEW c \in Conn, DataStep("hi", c), InSession("hi", c[1]),
         peer' = peer, exchanged' = exchanged, peer["hi"].received, ~Has(ToLo(c), "exchange"),
         NEW m, m.type = "exchange", m.from = Hi,
         Sends(ToLo(c), ToLo(c)', m), ToHi(c)' = ToHi(c)
  PROVE  Pairing'
<1>1. ToLo(c) \in Seq(Frame) /\ Local(c) /\ Separate /\ Speaks("hi", c) /\ Hi \in Nat /\ Lo \in Nat
  BY FrameChannels DEF Pairing, DataStep, Speaks, FrameTypes, Lo, Hi, End
<1>2. \A x \in Conn : x # c => Local(x)'
  BY DataKept DEF End
<1>3. ~Muted(c)
  BY <1>1 DEF Muted
<1>4. Uses("lo", c) => ~Poised(ToLo(c))
  BY <1>1, <1>3 DEF Local, Paired
<1>5. Channel(c)' /\ (Going(c)' <=> Going(c)) /\ (Uses("lo", c) => Clear(ToLo(c)'))
  BY <1>1, <1>4, HiChannel
<1>6. UNCHANGED <<link, ready, session, selected, peer>>
  BY DEF DataStep
<1>7. m \in Frame /\ ToLo(c)' = Append(ToLo(c), m)
  BY DEF Sends
<1>8. Carried(c)'
  BY <1>1, <1>5, <1>6, SameSessions DEF Local, Carried, End
<1>9. Paired(c)'
  <2>1. \A j : Talks(c, j)' = Talks(c, j)
    BY <1>6, SameSessions DEF Talks, End
  <2>2. Uses("lo", c)' = Uses("lo", c)
    BY DataEnds DEF End
  <2>3. \A h \in BOOLEAN : \A i : Takes(h, ToLo(c)', i) => Takes(h, ToLo(c), i) \/ (Open(h, ToLo(c)) /\ i = Hi)
    BY <1>1, <1>7, AppendTakes
  <2>4. \A h \in BOOLEAN : ~Open(h, ToLo(c)')
    BY <1>1, <1>7, AppendTakes
  <2>5. Hears(c) \in BOOLEAN
    BY DEF Hears, InSession, FrameTypes, End
  <2>6. ~Poised(ToLo(c)')
    BY <1>1, <1>7, AppendClear
  <2>7. ASSUME NEW i \in Nat, On("lo", c), Takes(Hears(c), ToLo(c)', i)
        PROVE  /\ ~Going(c)
               /\ On("hi", c) => InSession("hi", c[1]) /\ Hi = i
               /\ \A q \in exchanged : IF InSession("lo", c[1]) THEN q[1] = Lo <=> q[2] = i ELSE q[2] # i
    <3>1. CASE Takes(Hears(c), ToLo(c), i)
      BY <1>1, <2>7, <3>1 DEF Local, Paired
    <3>2. CASE Open(Hears(c), ToLo(c)) /\ i = Hi
      <4>1. ~Going(c)
        BY <1>1, <1>3, <2>7, <3>2 DEF Local, Paired
      <4>2. On("hi", c)
        BY <1>1 DEF Speaks
      <4>3. CASE InSession("lo", c[1])
        <5>1. Talks(c, Lo)
          BY <2>7, <4>3 DEF Talks, Speaks
        <5> QED BY <1>1, <3>2, <4>1, <4>2, <4>3, <5>1 DEF Local, Paired
      <4>4. CASE ~InSession("lo", c[1])
        BY <1>1, <2>7, <3>2, <4>1, <4>2, <4>4 DEF Local, Paired
      <4> QED BY <4>3, <4>4
    <3> QED BY <2>3, <2>5, <2>7, <3>1, <3>2
  <2>8. \A h : h = Hears(c) => h \in BOOLEAN /\ ~Open(h, ToLo(c)')
    BY <2>4, <2>5
  <2>9. /\ \A j \in Nat : Going(c)' /\ Talks(c, j)' => \A q \in exchanged' : q[1] # j
        /\ \A j \in Nat : On("hi", c)' /\ ~Going(c)' /\ Talks(c, j)' =>
             \A q \in exchanged' : IF InSession("hi", c[1])' THEN q[1] = j <=> q[2] = Hi' ELSE q[1] # j
        /\ Speaks("hi", c)' /\ On("lo", c)' /\ ~Going(c)' /\ ~InSession("lo", c[1])' =>
             \A q \in exchanged' : q[2] # Hi'
    BY <1>1, <1>5, <1>6, <2>1, SameSessions DEF Local, Paired, End
  <2>10. \A i \in Nat : On("lo", c)' /\ Takes(Hears(c)', ToLo(c)', i) =>
           /\ ~Going(c)'
           /\ On("hi", c)' => InSession("hi", c[1])' /\ Hi' = i
           /\ \A q \in exchanged' : IF InSession("lo", c[1])' THEN q[1] = Lo' <=> q[2] = i ELSE q[2] # i
    BY <1>5, <1>6, <2>7, SameSessions DEF End
  <2>11. ~Open(Hears(c)', ToLo(c)')
    BY <1>6, <2>8, SameSessions
  <2> QED BY <1>5, <2>2, <2>6, <2>9, <2>10, <2>11 DEF Paired
<1>10. Separate'
  <2>1. \A x \in Conn : ToHi(x)' = ToHi(x)
    BY DEF DataStep, OnlyOn
  <2>2. \A i : Exchanges(ToLo(c)', i) <=> Exchanges(ToLo(c), i) \/ i = Hi
    BY <1>1, <1>7, AppendHas
  <2>3. \A x \in Conn : \A i : Exchanges(ToLo(x)', i) <=> Exchanges(ToLo(x), i) \/ (x = c /\ i = Hi)
    BY <2>2 DEF DataStep, OnlyOn
  <2>4. \A x \in Conn : Speaks("hi", x) => x = c
    BY <1>1, OneRoute DEF Speaks, End
  <2> QED BY <1>1, <1>6, <2>1, <2>3, <2>4, SameSessions DEF Separate, End
<1> QED BY <1>2, <1>5, <1>8, <1>9, <1>10 DEF Pairing, Local, ExchangesPaired

(***************************************************************************)
(* A new instance of lo announces, whether tick() starts it or the         *)
(* announcement of hi.  It is in no pair, and what it will accept its      *)
(* predecessor, which has sent nothing in this session, would have.        *)
(***************************************************************************)
LEMMA LoStarts ==
  ASSUME Wiring, FrameTypes, Pairing, NEW c \in Conn, DataStep("lo", c), ~InSession("lo", c[1]),
         NEW n \in Nat, NEW h \in BOOLEAN, Lo' = n, peer'["lo"].received = h,
         \A x \in Conn : ~From(ToHi(x), n), \A q \in exchanged : q[1] # n,
         exchanged' \subseteq exchanged, NEW m, m.type = "announce", m.from = n,
         Sends(ToHi(c), ToHi(c)', m),
         IF h THEN Reads(ToLo(c), ToLo(c)') /\ Head(ToLo(c)).type = "announce" ELSE ToLo(c)' = ToLo(c)
  PROVE  Pairing'
<1>1. ToHi(c) \in Seq(Frame) /\ ToLo(c) \in Seq(Frame) /\ Local(c) /\ Separate /\ On("lo", c)
  BY FrameChannels DEF Pairing, DataStep
<1>2. \A x \in Conn : x # c => Local(x)'
  BY DataKept DEF End
<1>3. /\ Channel(c)' /\ (Going(c)' <=> Going(c)) /\ Clear(ToLo(c)') /\ ~Poised(ToLo(c)')
      /\ \A i : Exchanges(ToLo(c)', i) => Exchanges(ToLo(c), i)
  BY <1>1, LoChannel
<1>4. \A i \in Nat : ~From(ToHi(c), i)
  BY <1>1 DEF Local, Carried
<1>5. \A i : From(ToHi(c)', i) <=> From(ToHi(c), i) \/ i = n
  <2>1. \A i : From(Append(ToHi(c), m), i) <=> From(ToHi(c), i) \/ (m.type \in {"announce", "exchange"} /\ m.from = i)
    BY <1>1, AppendHas DEF Sends
  <2> QED BY <2>1 DEF Sends
<1>6. /\ \A x \in Conn : /\ Speaks("hi", x)' = Speaks("hi", x) /\ Muted(x)' = Muted(x)
                         /\ InSession("hi", x[1])' = InSession("hi", x[1])
      /\ Hi' = Hi /\ peer'["hi"] = peer["hi"]
  BY <1>1, LoStep
<1>7. /\ \A d \in End, x \in Conn : Uses(d, x)' = Uses(d, x) /\ On(d, x)' = On(d, x)
      /\ InSession("lo", c[1])' /\ \A x \in Conn : Speaks("lo", x)' <=> x = c
      /\ session' = session
  BY DataEnds DEF DataStep, End
<1>8. Carried(c)'
  BY <1>1, <1>3, <1>4, <1>5, <1>7 DEF Local, Carried, End
<1>9. Hears(c)' = h /\ Hears(c) = FALSE
  BY <1>7 DEF Hears
<1>10. /\ \A i \in Nat : Takes(h, ToLo(c)', i) => Takes(FALSE, ToLo(c), i)
       /\ Open(h, ToLo(c)') => Open(FALSE, ToLo(c))
  <2>1. CASE h
    <3>1. ToLo(c) # <<>> /\ ToLo(c)' = Tail(ToLo(c)) /\ Head(ToLo(c)).type = "announce" /\ h = TRUE
      BY <2>1 DEF Reads
    <3>2. /\ \A i : Takes(TRUE, Tail(ToLo(c)), i) => Takes(FALSE, ToLo(c), i)
          /\ Open(TRUE, Tail(ToLo(c))) => Open(FALSE, ToLo(c))
      BY <1>1, <3>1, TailTakes
    <3> QED BY <3>1, <3>2
  <2>2. CASE ~h
    <3>1. ToLo(c)' = ToLo(c) /\ h = FALSE
      BY <2>2
    <3> QED BY <3>1
  <2> QED BY <2>1, <2>2
<1>11. Paired(c)'
  <2>0. Paired(c)
    BY <1>1 DEF Local
  <2>1. \A j \in Nat : Talks(c, j)' <=> j = n
    BY <1>4, <1>5, <1>7 DEF Talks
  <2>2. \A j \in Nat : Talks(c, j)' => \A q \in exchanged' : q[1] # j
    BY <2>1
  <2>3. \A j \in Nat : On("hi", c)' /\ ~Going(c)' /\ Talks(c, j)' =>
          \A q \in exchanged' : IF InSession("hi", c[1])' THEN q[1] = j <=> q[2] = Hi' ELSE q[1] # j
    <3>1. On("hi", c) /\ InSession("hi", c[1]) /\ ~Going(c) => \A q \in exchanged : q[2] # Hi
      BY <1>1, <2>0 DEF Paired, Speaks
    <3> QED BY <1>3, <1>6, <1>7, <2>2, <3>1 DEF End
  <2>4. ASSUME NEW i \in Nat, Takes(h, ToLo(c)', i)
        PROVE  /\ ~Going(c)'
               /\ On("hi", c)' => InSession("hi", c[1])' /\ Hi' = i
               /\ \A q \in exchanged' : q[1] = n <=> q[2] = i
    <3>1. Takes(Hears(c), ToLo(c), i)
      BY <1>9, <1>10, <2>4
    <3>2. ~Going(c) /\ (On("hi", c) => InSession("hi", c[1]) /\ Hi = i) /\ \A q \in exchanged : q[2] # i
      BY <1>1, <2>0, <3>1 DEF Paired
    <3> QED BY <1>3, <1>6, <1>7, <3>2 DEF End
  <2>5. Going(c)' /\ Open(h, ToLo(c)') => Muted(c)'
    BY <1>1, <1>3, <1>6, <1>9, <1>10, <2>0 DEF Paired
  <2> QED BY <1>3, <1>7, <1>9, <2>2, <2>3, <2>4, <2>5 DEF Paired
<1>12. Separate'
  <2>1. \A x \in Conn : \A i \in Nat : From(ToHi(x)', i) => IF x = c THEN i = n ELSE From(ToHi(x), i) /\ i # n
    BY <1>4, <1>5 DEF DataStep, OnlyOn
  <2>2. \A x \in Conn : \A i : Exchanges(ToLo(x)', i) => Exchanges(ToLo(x), i)
    BY <1>3 DEF DataStep, OnlyOn
  <2>3. \A x, d \in Conn, i \in Nat : From(ToHi(x)', i) /\ From(ToHi(d)', i) => x = d
    BY <1>1, <2>1 DEF Separate
  <2>4. \A x, d \in Conn : Speaks("lo", x)' /\ From(ToHi(d)', Lo') => x = d
    BY <1>7, <2>1
  <2> QED BY <1>1, <1>6, <2>2, <2>3, <2>4 DEF Separate
<1> QED BY <1>2, <1>3, <1>8, <1>11, <1>12 DEF Pairing, Local, ExchangesPaired

(***************************************************************************)
(* A new instance of hi announces.                                         *)
(***************************************************************************)
LEMMA HiStarts ==
  ASSUME Wiring, FrameTypes, Pairing, NEW c \in Conn, DataStep("hi", c), ~InSession("hi", c[1]),
         NEW n \in Nat, NEW h \in BOOLEAN, Hi' = n, peer'["hi"].received = h,
         \A x \in Conn : ~From(ToLo(x), n), \A q \in exchanged : q[2] # n,
         exchanged' \subseteq exchanged, NEW m, m.type = "announce", m.from = n,
         Sends(ToLo(c), ToLo(c)', m),
         IF h THEN Reads(ToHi(c), ToHi(c)') ELSE ToHi(c)' = ToHi(c)
  PROVE  Pairing'
<1>1. ToHi(c) \in Seq(Frame) /\ ToLo(c) \in Seq(Frame) /\ Local(c) /\ Separate /\ On("hi", c)
  BY FrameChannels DEF Pairing, DataStep
<1>2. \A x \in Conn : x # c => Local(x)'
  BY DataKept DEF End
<1>3. /\ Channel(c)' /\ (Going(c)' <=> Going(c))
      /\ \A i : From(ToHi(c)', i) => From(ToHi(c), i)
      /\ Uses("lo", c) => Clear(ToLo(c)')
      /\ Uses("lo", c) /\ Poised(ToLo(c)') => ToHi(c)' = ToHi(c)
  BY <1>1, HiChannel
<1>4. h => ~Going(c)' /\ session["hi"][c[1]] # 0 /\ ToHi(c)' # ToHi(c)
  <2>1. ASSUME h PROVE ToHi(c)' # ToHi(c)
    <3>1. ToHi(c) # <<>> /\ ToHi(c)' = Tail(ToHi(c))
      BY <2>1 DEF Reads
    <3>2. Tail(ToHi(c)) # ToHi(c)
      BY <1>1, <3>1, TailDiffers
    <3> QED BY <3>1, <3>2
  <2> QED BY <1>1, <2>1, HiReads
<1>5. /\ \A x \in Conn : /\ Speaks("lo", x)' = Speaks("lo", x) /\ Hears(x)' = Hears(x)
                         /\ InSession("lo", x[1])' = InSession("lo", x[1])
      /\ Lo' = Lo /\ peer'["lo"] = peer["lo"]
  BY HiStep
<1>6. /\ \A d \in End, x \in Conn : Uses(d, x)' = Uses(d, x) /\ On(d, x)' = On(d, x)
      /\ InSession("hi", c[1])' /\ \A x \in Conn : Speaks("hi", x)' <=> x = c
      /\ session' = session
  BY DataEnds DEF DataStep, End
<1>7. ~h => Muted(c)'
  BY DEF Muted
<1>8. Carried(c)'
  <2>1. Carried(c)
    BY <1>1 DEF Local
  <2>2. ~h => ToHi(c)' = ToHi(c)
    OBVIOUS
  <2>3. On("hi", c)' /\ ~Going(c)' /\ (~Silent(ToHi(c)') \/ On("lo", c)') => session'["hi"][c[1]] # 0
    BY <1>3, <1>4, <1>6, <2>1, <2>2 DEF Carried, End
  <2> QED BY <1>3, <1>5, <1>6, <2>1, <2>3 DEF Carried, End
<1>9. Paired(c)'
  <2>0. Paired(c)
    BY <1>1 DEF Local
  <2>1. \A j \in Nat : Talks(c, j)' => Talks(c, j)
    BY <1>3, <1>5 DEF Talks
  <2>2. \A j \in Nat : Going(c)' /\ Talks(c, j)' => \A q \in exchanged' : q[1] # j
    BY <1>3, <2>0, <2>1 DEF Paired
  <2>3. \A j \in Nat : ~Going(c)' /\ Talks(c, j)' => \A q \in exchanged' : q[1] # j /\ q[2] # n
    BY <1>1, <1>3, <2>0, <2>1 DEF Paired
  <2>4. \A i \in Nat : On("lo", c)' => ~Takes(Hears(c)', ToLo(c)', i)
    <3>1. Hears(c) \in BOOLEAN
      BY DEF Hears, InSession, FrameTypes, End
    <3>2. \A g \in BOOLEAN : \A i : Takes(g, Append(ToLo(c), m), i) => Takes(g, ToLo(c), i)
      BY <1>1, AppendTakes DEF Sends
    <3>3. \A i \in Nat : On("lo", c) => ~Takes(Hears(c), ToLo(c), i)
      BY <1>1, <2>0 DEF Paired
    <3>4. ToLo(c)' = Append(ToLo(c), m) /\ On("lo", c)' = On("lo", c)
      BY <1>6 DEF Sends, End
    <3>5. \A i : Takes(Hears(c), Append(ToLo(c), m), i) => Takes(Hears(c), ToLo(c), i)
      BY <3>1, <3>2
    <3>6. Hears(c)' = Hears(c)
      BY <1>5
    <3> QED BY <3>3, <3>4, <3>5, <3>6
  <2>5. Going(c)' => Muted(c)'
    BY <1>4, <1>7
  <2>6. Uses("lo", c)' => Clear(ToLo(c)') /\ (Poised(ToLo(c)') => Muted(c)')
    BY <1>3, <1>4, <1>6, <1>7 DEF End
  <2> QED BY <1>6, <2>2, <2>3, <2>4, <2>5, <2>6 DEF Paired
<1>10. Separate'
  <2>1. \A x \in Conn : \A i : From(ToHi(x)', i) => From(ToHi(x), i)
    BY <1>3 DEF DataStep, OnlyOn
  <2>2. \A x \in Conn : ~Exchanges(ToLo(x)', n)
    <3>1. \A x \in Conn : ~Exchanges(ToLo(x), n)
      BY DEF From, Exchanges
    <3>2. Exchanges(Append(ToLo(c), m), n) => Exchanges(ToLo(c), n)
      BY <1>1, AppendHas DEF Sends
    <3>3. ~Exchanges(ToLo(c)', n)
      BY <3>1, <3>2 DEF Sends
    <3> QED BY <3>1, <3>3 DEF DataStep, OnlyOn
  <2>3. peer'["hi"].session = 0 => ~peer'["hi"].received
    BY <1>4 DEF DataStep
  <2> QED BY <1>1, <1>5, <2>1, <2>2, <2>3 DEF Separate
<1> QED BY <1>2, <1>3, <1>8, <1>9, <1>10 DEF Pairing, Local, ExchangesPaired

(***************************************************************************)
(* The instance of lo reads the other's announcement.                      *)
(***************************************************************************)
LEMMA LoHears ==
  ASSUME Wiring, FrameTypes, Pairing, NEW c \in Conn, DataStep("lo", c), InSession("lo", c[1]),
         ~peer["lo"].received, peer'["lo"].received = TRUE, Lo' = Lo, exchanged' \subseteq exchanged,
         Reads(ToLo(c), ToLo(c)'), Head(ToLo(c)).type = "announce", ToHi(c)' = ToHi(c)
  PROVE  Pairing'
<1>1. ToLo(c) \in Seq(Frame) /\ Local(c) /\ Separate /\ On("lo", c) /\ Speaks("lo", c)
  BY FrameChannels DEF Pairing, DataStep, Speaks
<1>2. \A x \in Conn : x # c => Local(x)'
  BY DataKept DEF End
<1>3. /\ Channel(c)' /\ (Going(c)' <=> Going(c)) /\ Clear(ToLo(c)') /\ ~Poised(ToLo(c)')
      /\ \A i : Exchanges(ToLo(c)', i) => Exchanges(ToLo(c), i)
  BY <1>1, LoChannel
<1>4. /\ \A x \in Conn : /\ Speaks("hi", x)' = Speaks("hi", x) /\ Muted(x)' = Muted(x)
                         /\ InSession("hi", x[1])' = InSession("hi", x[1])
      /\ Hi' = Hi /\ peer'["hi"] = peer["hi"]
  BY <1>1, LoStep
<1>5. /\ \A d \in End, x \in Conn : Uses(d, x)' = Uses(d, x) /\ On(d, x)' = On(d, x)
      /\ InSession("lo", c[1])' /\ \A x \in Conn : Speaks("lo", x)' <=> x = c
      /\ session' = session
  BY DataEnds DEF DataStep, End
<1>6. Carried(c)'
  BY <1>1, <1>3, <1>5 DEF Local, Carried, End
<1>7. Hears(c)' = TRUE /\ Hears(c) = FALSE
  BY <1>5 DEF Hears
<1>8. /\ \A i \in Nat : Takes(TRUE, ToLo(c)', i) => Takes(FALSE, ToLo(c), i)
      /\ Open(TRUE, ToLo(c)') => Open(FALSE, ToLo(c))
  <2>1. ToLo(c) # <<>> /\ ToLo(c)' = Tail(ToLo(c))
    BY DEF Reads
  <2>2. /\ \A i : Takes(TRUE, Tail(ToLo(c)), i) => Takes(FALSE, ToLo(c), i)
        /\ Open(TRUE, Tail(ToLo(c))) => Open(FALSE, ToLo(c))
    BY <1>1, <2>1, TailTakes
  <2> QED BY <2>1, <2>2
<1>9. Paired(c)'
  <2>0. Paired(c)
    BY <1>1 DEF Local
  <2>1. \A j : Talks(c, j)' <=> Talks(c, j)
    BY <1>1, <1>5 DEF Talks
  <2>2. /\ \A j \in Nat : Going(c)' /\ Talks(c, j)' => \A q \in exchanged' : q[1] # j
        /\ \A j \in Nat : On("hi", c)' /\ ~Going(c)' /\ Talks(c, j)' =>
             \A q \in exchanged' : IF InSession("hi", c[1])' THEN q[1] = j <=> q[2] = Hi' ELSE q[1] # j
    BY <1>3, <1>4, <1>5, <2>0, <2>1 DEF Paired, End
  <2>3. ASSUME NEW i \in Nat, Takes(TRUE, ToLo(c)', i)
        PROVE  /\ ~Going(c)'
               /\ On("hi", c)' => InSession("hi", c[1])' /\ Hi' = i
               /\ \A q \in exchanged' : q[1] = Lo' <=> q[2] = i
    <3>1. Takes(Hears(c), ToLo(c), i)
      BY <1>7, <1>8, <2>3
    <3>2. ~Going(c) /\ (On("hi", c) => InSession("hi", c[1]) /\ Hi = i) /\ \A q \in exchanged : q[1] = Lo <=> q[2] = i
      BY <1>1, <2>0, <3>1 DEF Paired
    <3> QED BY <1>3, <1>4, <1>5, <3>2 DEF End
  <2>4. Going(c)' /\ Open(TRUE, ToLo(c)') => Muted(c)'
    BY <1>1, <1>3, <1>4, <1>7, <1>8, <2>0 DEF Paired
  <2> QED BY <1>3, <1>5, <1>7, <2>2, <2>3, <2>4 DEF Paired
<1>10. Separate'
  <2>1. \A x \in Conn : ToHi(x)' = ToHi(x) /\ \A i : Exchanges(ToLo(x)', i) => Exchanges(ToLo(x), i)
    BY <1>3 DEF DataStep, OnlyOn
  <2> QED BY <1>1, <1>4, <1>5, <2>1 DEF Separate
<1> QED BY <1>2, <1>3, <1>6, <1>9, <1>10 DEF Pairing, Local, ExchangesPaired

(***************************************************************************)
(* The instance of lo reads a revision message: the two are a pair, and    *)
(* neither is in another one.                                              *)
(***************************************************************************)
LEMMA LoAccepts ==
  ASSUME Wiring, FrameTypes, Pairing, NEW c \in Conn, DataStep("lo", c), InSession("lo", c[1]),
         peer["lo"].received, peer'["lo"].received = TRUE, Lo' = Lo, NEW i0 \in Nat,
         exchanged' \subseteq exchanged \cup {<<Lo, i0>>},
         Reads(ToLo(c), ToLo(c)'), Head(ToLo(c)).type = "exchange", Head(ToLo(c)).from = i0,
         ToHi(c)' = ToHi(c)
  PROVE  Pairing'
<1>1. /\ ToLo(c) \in Seq(Frame) /\ Local(c) /\ Separate /\ On("lo", c) /\ Speaks("lo", c) /\ Lo \in Nat
      /\ ToLo(c) # <<>> /\ ToLo(c)' = Tail(ToLo(c))
  BY FrameChannels DEF Pairing, DataStep, Speaks, FrameTypes, Lo, Reads, End
<1>2. /\ Channel(c)' /\ (Going(c)' <=> Going(c)) /\ Clear(ToLo(c)') /\ ~Poised(ToLo(c)')
      /\ \A i : Exchanges(ToLo(c)', i) => Exchanges(ToLo(c), i)
  BY <1>1, LoChannel
<1>3. /\ \A x \in Conn : /\ Speaks("hi", x)' = Speaks("hi", x) /\ Muted(x)' = Muted(x)
                         /\ InSession("hi", x[1])' = InSession("hi", x[1])
      /\ Hi' = Hi /\ peer'["hi"] = peer["hi"]
  BY <1>1, LoStep
<1>4. /\ \A d \in End, x \in Conn : Uses(d, x)' = Uses(d, x) /\ On(d, x)' = On(d, x)
      /\ InSession("lo", c[1])' /\ \A x \in Conn : Speaks("lo", x)' <=> x = c
      /\ session' = session
  BY DataEnds DEF DataStep, End
<1>5. Hears(c)' = TRUE /\ Hears(c) = TRUE
  BY <1>4 DEF Hears, FrameTypes, End
<1>6. Takes(Hears(c), ToLo(c), i0) /\ Exchanges(ToLo(c), i0)
  <2>1. Takes(TRUE, ToLo(c), i0) <=> Head(ToLo(c)).type = "exchange" /\ Head(ToLo(c)).from = i0
    BY <1>1, TailTakes
  <2>2. Exchanges(ToLo(c), i0)
    BY <1>1, TailHas
  <2> QED BY <1>5, <2>1, <2>2
<1>7. /\ ~Going(c) /\ (On("hi", c) => InSession("hi", c[1]) /\ Hi = i0)
      /\ \A q \in exchanged : q[1] = Lo <=> q[2] = i0
  BY <1>1, <1>6 DEF Local, Paired
<1>8. \A i : ~Takes(TRUE, ToLo(c)', i)
  <2>1. Once(ToLo(c), "exchange")
    BY <1>1 DEF Local, Channel
  <2>2. ~Has(Tail(ToLo(c)), "exchange")
    BY <1>1, <2>1, TailOnce
  <2>3. \A i : ~Takes(TRUE, Tail(ToLo(c)), i)
    BY <1>1, <2>2, TailTakes
  <2> QED BY <1>1, <2>3
<1>9. \A x \in Conn : x # c => Local(x)'
  <2> DEFINE P == {<<Lo, i0>>}
  <2>1. ASSUME NEW x \in Conn \ {c}, NEW p \in P
        PROVE  /\ \A j \in Nat : Talks(x, j) => p[1] # j
               /\ Speaks("hi", x) => p[2] # Hi
               /\ \A i \in Nat : On("lo", x) /\ Takes(Hears(x), ToLo(x), i) => p[2] # i
               /\ Speaks("lo", x) => p[1] # Lo
    <3>1. p[1] = Lo /\ p[2] = i0
      BY <2>1
    <3>2. ~On("lo", x) /\ ~Speaks("lo", x)
      BY DataEnds DEF Speaks, End
    <3>3. ~From(ToHi(x), Lo)
      BY <1>1 DEF Separate
    <3>4. Speaks("hi", x) => i0 # Hi
      BY <1>1, <1>6 DEF Separate
    <3> QED BY <3>1, <3>2, <3>3, <3>4 DEF Talks
  <2>2. exchanged' \subseteq exchanged \cup P
    OBVIOUS
  <2> HIDE DEF P
  <2> QED BY <2>1, <2>2, DataOthers DEF End
<1>10. Carried(c)'
  BY <1>1, <1>2, <1>4 DEF Local, Carried, End
<1>11. Paired(c)'
  <2>1. \A j \in Nat : Talks(c, j)' => Talks(c, j) /\ j = Lo
    <3>1. \A j \in Nat : From(ToHi(c), j) => j = Lo
      BY <1>1 DEF Local, Carried
    <3> QED BY <1>1, <1>4, <3>1 DEF Talks
  <2>2. \A j \in Nat : On("hi", c)' /\ ~Going(c)' /\ Talks(c, j)' =>
          \A q \in exchanged' : IF InSession("hi", c[1])' THEN q[1] = j <=> q[2] = Hi' ELSE q[1] # j
    <3>1. On("hi", c)' => InSession("hi", c[1])' /\ Hi' = i0
      BY <1>3, <1>4, <1>7 DEF End
    <3>2. \A q \in exchanged' : q[1] = Lo <=> q[2] = i0
      BY <1>7
    <3> QED BY <2>1, <3>1, <3>2
  <2> QED BY <1>2, <1>4, <1>5, <1>7, <1>8, <2>2 DEF Paired
<1>12. Separate'
  <2>1. \A x \in Conn : ToHi(x)' = ToHi(x) /\ \A i : Exchanges(ToLo(x)', i) => Exchanges(ToLo(x), i)
    BY <1>2 DEF DataStep, OnlyOn
  <2> QED BY <1>1, <1>3, <1>4, <2>1 DEF Separate
<1>13. ExchangesPaired'
  BY <1>7 DEF Pairing, ExchangesPaired
<1> QED BY <1>2, <1>9, <1>10, <1>11, <1>12, <1>13 DEF Pairing, Local

(***************************************************************************)
(* The instance of hi reads the other's announcement or a revision         *)
(* message of the only instance of lo that speaks on c.                    *)
(***************************************************************************)
LEMMA HiHears ==
  ASSUME Wiring, FrameTypes, Pairing, NEW c \in Conn, DataStep("hi", c), InSession("hi", c[1]),
         Hi' = Hi, NEW j0 \in Nat, exchanged' \subseteq exchanged \cup {<<j0, Hi>>},
         Reads(ToHi(c), ToHi(c)'), Head(ToHi(c)).from = j0, ToLo(c)' = ToLo(c)
  PROVE  Pairing'
<1>1. /\ ToHi(c) \in Seq(Frame) /\ ToLo(c) \in Seq(Frame) /\ Local(c) /\ Separate
      /\ On("hi", c) /\ Speaks("hi", c) /\ Lo \in Nat /\ Hi \in Nat
  BY FrameChannels DEF Pairing, DataStep, Speaks, FrameTypes, Lo, Hi, End
<1>2. /\ Channel(c)' /\ \A i : From(ToHi(c)', i) => From(ToHi(c), i)
      /\ Uses("lo", c) => Clear(ToLo(c)')
  BY <1>1, HiChannel
<1>3. /\ ~Going(c) /\ ~Going(c)' /\ session["hi"][c[1]] # 0
      /\ Uses("lo", c) => ~Has(ToLo(c), "agree")
      /\ From(ToHi(c), j0)
  BY <1>1, HiReads
<1>4. /\ \A x \in Conn : /\ Speaks("lo", x)' = Speaks("lo", x) /\ Hears(x)' = Hears(x)
                         /\ InSession("lo", x[1])' = InSession("lo", x[1])
      /\ Lo' = Lo /\ peer'["lo"] = peer["lo"]
  BY HiStep
<1>5. /\ \A d \in End, x \in Conn : Uses(d, x)' = Uses(d, x) /\ On(d, x)' = On(d, x)
      /\ InSession("hi", c[1])' /\ \A x \in Conn : Speaks("hi", x)' <=> x = c
      /\ session' = session
  BY DataEnds DEF DataStep, End
<1>6. \A q \in exchanged : q[1] = j0 <=> q[2] = Hi
  <2>1. Talks(c, j0)
    BY <1>3 DEF Talks
  <2> QED BY <1>1, <1>3, <2>1 DEF Local, Paired
<1>7. On("lo", c) => InSession("lo", c[1]) /\ Lo = j0
  BY <1>1, <1>3 DEF Local, Carried
<1>8. \A x \in Conn : x # c => Local(x)'
  <2> DEFINE P == {<<j0, Hi>>}
  <2>1. ASSUME NEW x \in Conn \ {c}, NEW p \in P
        PROVE  /\ \A j \in Nat : Talks(x, j) => p[1] # j
               /\ Speaks("hi", x) => p[2] # Hi
               /\ \A i \in Nat : On("lo", x) /\ Takes(Hears(x), ToLo(x), i) => p[2] # i
               /\ Speaks("lo", x) => p[1] # Lo
    <3>1. p[1] = j0 /\ p[2] = Hi
      BY <2>1
    <3>2. ~Speaks("hi", x)
      BY DataEnds DEF Speaks, End
    <3>3. ~From(ToHi(x), j0) /\ (Speaks("lo", x) => j0 # Lo)
      BY <1>1, <1>3 DEF Separate
    <3>4. ASSUME NEW i \in Nat, Takes(Hears(x), ToLo(x), i) PROVE Hi # i
      <4>1. Hears(x) \in BOOLEAN /\ ToLo(x) \in Seq(Frame)
        BY FrameChannels DEF Hears, InSession, FrameTypes, End
      <4>2. Exchanges(ToLo(x), i)
        BY <3>4, <4>1, TakesExchanges
      <4> QED BY <1>1, <4>2 DEF Separate
    <3> QED BY <3>1, <3>2, <3>3, <3>4 DEF Talks
  <2>2. exchanged' \subseteq exchanged \cup P
    OBVIOUS
  <2> HIDE DEF P
  <2> QED BY <2>1, <2>2, DataOthers DEF End
<1>9. Carried(c)'
  BY <1>1, <1>2, <1>3, <1>4, <1>5 DEF Local, Carried, End
<1>10. Paired(c)'
  <2>1. \A j \in Nat : Talks(c, j)' => j = j0
    <3>1. \A j \in Nat : From(ToHi(c), j) => j = j0
      BY <1>1, <1>3 DEF Local, Carried
    <3>2. Speaks("lo", c) => Lo = j0
      BY <1>7 DEF Speaks
    <3> QED BY <1>2, <1>4, <3>1, <3>2 DEF Talks
  <2>2. \A q \in exchanged' : q[1] = j0 <=> q[2] = Hi
    BY <1>6
  <2>3. \A i \in Nat : On("lo", c)' /\ Takes(Hears(c)', ToLo(c)', i) =>
          /\ On("hi", c)' => InSession("hi", c[1])' /\ Hi' = i
          /\ \A q \in exchanged' : IF InSession("lo", c[1])' THEN q[1] = Lo' <=> q[2] = i ELSE q[2] # i
    <3>1. \A i \in Nat : On("lo", c) /\ Takes(Hears(c), ToLo(c), i) => Hi = i
      BY <1>1 DEF Local, Paired
    <3> QED BY <1>4, <1>5, <1>7, <2>2, <3>1 DEF End
  <2>4. Uses("lo", c)' => Clear(ToLo(c)') /\ ~Poised(ToLo(c)')
    BY <1>2, <1>3, <1>5, NoAgree DEF End
  <2>5. On("lo", c)' => InSession("lo", c[1])'
    BY <1>4, <1>5, <1>7 DEF End
  <2> QED BY <1>3, <1>5, <2>1, <2>2, <2>3, <2>4, <2>5 DEF Paired
<1>11. Separate'
  <2>1. \A x \in Conn : ToLo(x)' = ToLo(x) /\ \A i : From(ToHi(x)', i) => From(ToHi(x), i)
    BY <1>2 DEF DataStep, OnlyOn
  <2>2. peer'["hi"].session # 0
    BY <1>3 DEF DataStep
  <2> QED BY <1>1, <1>4, <1>5, <2>1, <2>2 DEF Separate
<1>12. ExchangesPaired'
  BY <1>6 DEF Pairing, ExchangesPaired
<1> QED BY <1>2, <1>8, <1>9, <1>10, <1>11, <1>12 DEF Pairing, Local

(***************************************************************************)
(* A frame is sent on c and none is read.                                  *)
(***************************************************************************)
LEMMA SendEffect ==
  ASSUME FrameTypes, NEW e \in End, NEW c \in Conn, NEW m \in Frame,
         chan' = [chan EXCEPT ![e][c] = Append(@, m)]
  PROVE  /\ chan' \in [End -> [Conn -> Seq(Frame)]] /\ OnlyOn(c)
         /\ e = "lo" => ToHi(c)' = Append(ToHi(c), m) /\ ToLo(c)' = ToLo(c)
         /\ e = "hi" => ToLo(c)' = Append(ToLo(c), m) /\ ToHi(c)' = ToHi(c)
<1>1. chan \in [End -> [Conn -> Seq(Frame)]]
  BY DEF FrameTypes
<1>2. Append(chan[e][c], m) \in Seq(Frame)
  <2>1. chan[e][c] \in Seq(Frame)
    BY <1>1
  <2> QED BY <2>1
<1>3. chan' \in [End -> [Conn -> Seq(Frame)]]
  BY <1>1, <1>2
<1>4. chan'[e][c] = Append(chan[e][c], m) /\ \A d \in End : d # e => chan'[d][c] = chan[d][c]
  BY <1>1
<1>5. \A d \in End, x \in Conn \ {c} : chan'[d][x] = chan[d][x]
  BY <1>1
<1> QED BY <1>3, <1>4, <1>5 DEF OnlyOn, ToHi, ToLo, End

PeerType == [session : Nat \cup {None}, instance : Nat, received : BOOLEAN]

\* A new instance, told apart from all that anything refers to.
NewInstance(e, n) ==
  /\ \A x \in Conn : ~From(chan[e][x], n)
  /\ \A q \in exchanged : q[Side(e)] # n

\* The same, seen from each end.
LEMMA NewNumber ==
  ASSUME NEW e \in End, NEW n, NewInstance(e, n)
  PROVE  /\ e = "lo" => (\A x \in Conn : ~From(ToHi(x), n)) /\ \A q \in exchanged : q[1] # n
         /\ e = "hi" => (\A x \in Conn : ~From(ToLo(x), n)) /\ \A q \in exchanged : q[2] # n
BY DEF NewInstance, ToHi, ToLo, Side, End

\* tick() and pump(): an announcement or a revision message is sent.
LEMMA SendPairing ==
  ASSUME Shapes, Wiring, FrameTypes, Pairing, NEW e \in End, Send(e)
  PROVE  FrameTypes' /\ Pairing'
<1>1. PICK r \in Route : r = Live(e) /\ selected[e] = r /\ link[e][r] \in ready[e]
  BY RoutesAssumption DEF Send, Live, Established, Shapes
<1>2. PICK c \in Conn : c = link[e][r] /\ c[1] = r
  <2>1. link[e][r] \in Conn
    BY <1>1 DEF Shapes
  <2> QED BY <2>1, NoneAssumption DEF Shapes
<1>3. On(e, c) /\ (InSession(e, c[1]) <=> InSession(e, r))
  BY <1>1, <1>2 DEF On, Uses
<1>4. UNCHANGED <<link, ready, failed, session, selected, selecting, exchanged>>
  BY DEF Send, links, routes
<1>5. CASE ~InSession(e, r)
  <2>1. PICK n \in Nat : /\ Current(e, r) = [session |-> session[e][r], received |-> FALSE, instance |-> n]
                         /\ NewInstance(e, n)
    BY <1>5, FreshInstance DEF NewInstance
  <2> DEFINE m == [type |-> "announce", from |-> n]
  <2>2. m \in Frame /\ m.type = "announce" /\ m.from = n /\ IsData(m)
    BY FramesAre DEF IsData
  <2>3. /\ peer' = [peer EXCEPT ![e] = Current(e, r)]
        /\ chan' = [chan EXCEPT ![e][c] = @ \o Announcement(e, r)]
    BY <1>1, <1>2, <1>5 DEF Send
  <2>4. Announcement(e, r) = <<m>>
    BY <1>5, <2>1 DEF Announcement
  <2> HIDE DEF m
  <2>5. chan' = [chan EXCEPT ![e][c] = Append(@, m)]
    <3>1. chan[e][c] \in Seq(Frame)
      BY DEF FrameTypes
    <3>2. chan[e][c] \o <<m>> = Append(chan[e][c], m)
      BY <2>2, <3>1, Appends
    <3>3. chan' = [chan EXCEPT ![e][c] = chan[e][c] \o <<m>>]
      BY <2>3, <2>4
    <3> QED BY <3>2, <3>3
  <2>6. /\ peer'[e].session = session[e][r] /\ peer'[e].instance = n /\ peer'[e].received = FALSE
        /\ peer'[Other(e)] = peer[Other(e)] /\ peer' \in [End -> PeerType]
    <3>1. Current(e, r) \in PeerType
      BY <2>1 DEF Shapes, PeerType
    <3>2. peer \in [End -> PeerType] /\ Other(e) \in End /\ Other(e) # e
      BY DEF FrameTypes, PeerType, Other, End
    <3> QED BY <2>1, <2>3, <3>1, <3>2
  <2>7. /\ chan' \in [End -> [Conn -> Seq(Frame)]] /\ OnlyOn(c)
        /\ e = "lo" => Sends(ToHi(c), ToHi(c)', m) /\ ToLo(c)' = ToLo(c)
        /\ e = "hi" => Sends(ToLo(c), ToLo(c)', m) /\ ToHi(c)' = ToHi(c)
    BY <2>2, <2>5, SendEffect DEF Sends
  <2>8. FrameTypes'
    BY <1>4, <2>6, <2>7 DEF FrameTypes, PeerType
  <2>9. DataStep(e, c)
    BY <1>2, <1>3, <1>4, <2>6, <2>7 DEF DataStep
  <2>10. CASE e = "lo"
    <3>1. Lo' = n /\ peer'["lo"].received = FALSE
      BY <2>6, <2>10 DEF Lo
    <3> QED BY <1>3, <1>4, <1>5, <2>1, <2>2, <2>7, <2>8, <2>9, <2>10, <3>1, NewNumber, LoStarts
  <2>11. CASE e = "hi"
    <3>1. Hi' = n /\ peer'["hi"].received = FALSE
      BY <2>6, <2>11 DEF Hi
    <3> QED BY <1>3, <1>4, <1>5, <2>1, <2>2, <2>7, <2>8, <2>9, <2>11, <3>1, NewNumber, HiStarts
  <2> QED BY <2>10, <2>11 DEF End
<1>6. CASE InSession(e, r)
  <2> DEFINE m == [type |-> "exchange", from |-> peer[e].instance]
  <2>1. peer[e].instance \in Nat
    BY DEF FrameTypes
  <2>2. m \in Frame /\ m.type = "exchange" /\ m.from = peer[e].instance /\ IsData(m)
    BY <2>1, FramesAre DEF IsData
  <2>3. /\ peer' = [peer EXCEPT ![e] = Current(e, r)] /\ peer[e].received
        /\ \A i \in DOMAIN chan[e][c] : chan[e][c][i].type # "exchange"
        /\ chan' = [chan EXCEPT ![e][c] = Append(@, m)]
    BY <1>1, <1>2, <1>6 DEF Send
  <2> HIDE DEF m
  <2>4. peer' = peer
    BY <1>6, <2>3 DEF Current, FrameTypes
  <2>5. /\ chan' \in [End -> [Conn -> Seq(Frame)]] /\ OnlyOn(c)
        /\ e = "lo" => Sends(ToHi(c), ToHi(c)', m) /\ ToLo(c)' = ToLo(c)
        /\ e = "hi" => Sends(ToLo(c), ToLo(c)', m) /\ ToHi(c)' = ToHi(c)
    BY <2>2, <2>3, SendEffect DEF Sends
  <2>6. FrameTypes'
    BY <1>4, <2>4, <2>5 DEF FrameTypes
  <2>7. DataStep(e, c)
    BY <1>2, <1>3, <1>4, <1>6, <2>4, <2>5 DEF DataStep, InSession
  <2>8. CASE e = "lo"
    <3>1. m.from = Lo
      BY <2>2, <2>8 DEF Lo
    <3> QED BY <1>3, <1>4, <1>6, <2>2, <2>4, <2>5, <2>6, <2>7, <2>8, <3>1, LoSends
  <2>9. CASE e = "hi"
    <3>1. m.from = Hi /\ ~Has(ToLo(c), "exchange") /\ peer["hi"].received
      BY <2>2, <2>3, <2>9 DEF Hi, Has, ToLo
    <3> QED BY <1>3, <1>4, <1>6, <2>2, <2>4, <2>5, <2>6, <2>7, <2>9, <3>1, HiSends
  <2> QED BY <2>8, <2>9 DEF End
<1> QED BY <1>5, <1>6

\* An answer on a route that is not being selected fails the connection.
LEMMA UnexpectedPairing ==
  ASSUME Shapes, Wiring, FrameTypes, Pairing, NEW e \in End, NEW r \in Route, Unexpected(e, r)
  PROVE  FrameTypes' /\ Pairing'
<1>1. link[e][r] \in Conn /\ FailLink(e, r) /\ UNCHANGED <<routes, peer, exchanged>>
  BY IncomingLink DEF Unexpected
<1> QED BY <1>1, FailPairing DEF FrameTypes

(***************************************************************************)
(* A frame the instance does not expect fails the connection.              *)
(***************************************************************************)
LEMMA RefusedPairing ==
  ASSUME Shapes, Wiring, FrameTypes, Pairing, NEW e \in End, NEW r \in Route, link[e][r] \in Conn,
         selected[e] = r, FailLink(e, r), UNCHANGED routes, exchanged' \subseteq exchanged,
         peer' = [peer EXCEPT ![e] = Current(e, r)]
  PROVE  FrameTypes' /\ Pairing'
<1>1. peer \in [End -> PeerType] /\ Other(e) \in End /\ Other(e) # e
  BY DEF FrameTypes, PeerType, Other, End
<1>2. CASE InSession(e, r)
  <2>1. peer' = peer
    BY <1>1, <1>2 DEF Current
  <2> QED BY <2>1, FailPairing DEF FrameTypes
<1>3. CASE ~InSession(e, r)
  <2>1. PICK n \in Nat : /\ Current(e, r) = [session |-> session[e][r], received |-> FALSE, instance |-> n]
                         /\ NewInstance(e, n)
    BY <1>3, FreshInstance DEF NewInstance
  <2>2. Current(e, r) \in PeerType
    BY <2>1 DEF Shapes, PeerType
  <2>3. peer' \in [End -> PeerType] /\ peer'[Other(e)] = peer[Other(e)] /\ peer'[e] = Current(e, r)
    BY <1>1, <2>2
  <2>4. ASSUME peer'["hi"] # peer["hi"]
        PROVE  ~peer'["hi"].received /\ \A d \in Conn : ~Exchanges(ToLo(d), peer'["hi"].instance)
    <3>1. e = "hi"
      BY <2>3, <2>4 DEF Other, End
    <3>2. peer'["hi"].received = FALSE /\ peer'["hi"].instance = n
      BY <2>1, <2>3, <3>1
    <3>3. \A d \in Conn : ~From(ToLo(d), n)
      BY <2>1, <3>1, NewNumber
    <3>4. \A d \in Conn : ~Exchanges(ToLo(d), n)
      BY <3>3 DEF From, Exchanges
    <3> QED BY <3>2, <3>4
  <2> QED BY <2>3, <2>4, FailPairing DEF PeerType
<1> QED BY <1>2, <1>3

(***************************************************************************)
(* Data of the selected route.                                             *)
(***************************************************************************)
LEMMA DataPairing ==
  ASSUME Shapes, Wiring, FrameTypes, Pairing, NEW e \in End, NEW r \in Route, ReceiveData(e, r)
  PROVE  FrameTypes' /\ Pairing'
<1>1. PICK c \in Conn : c = link[e][r] /\ c[1] = r /\ Uses(e, c) /\ chan[Other(e)][c] # <<>>
                       /\ Head(chan[Other(e)][c]).type \in {"announce", "exchange"}
  BY IncomingOn DEF ReceiveData
<1>2. Incoming(e, r, {"announce", "exchange"}) /\ selected[e] = r /\ UNCHANGED routes
  BY DEF ReceiveData, IsSelected
<1>3. On(e, c) /\ (InSession(e, c[1]) <=> InSession(e, r))
  BY <1>1, <1>2 DEF On
<1>4. PICK m \in Frame : m = Head(chan[Other(e)][c])
  <2>1. chan[Other(e)][c] \in Seq(Frame)
    BY DEF FrameTypes, Other, End
  <2> QED BY <1>1, <2>1, TailAt
<1>5. IsData(m) /\ m.from \in Nat
  BY <1>1, <1>4, FramesAre DEF IsData
<1> DEFINE mine == Current(e, r)
           pair == IF e = "lo" THEN <<mine.instance, m.from>> ELSE <<m.from, mine.instance>>
<1>6. CASE ~Expected(mine, m)
  <2>1. peer' = [peer EXCEPT ![e] = mine] /\ FailLink(e, r) /\ exchanged' = Remember({}, pair)
    BY <1>1, <1>4, <1>6 DEF ReceiveData
  <2>2. exchanged' \subseteq exchanged
    BY <2>1 DEF Remember
  <2>3. link[e][r] \in Conn
    BY <1>1
  <2> QED BY <1>2, <2>1, <2>2, <2>3, RefusedPairing
<1>7. CASE Expected(mine, m)
  <2>1. /\ peer' = [peer EXCEPT ![e] = [mine EXCEPT !.received = TRUE]]
        /\ exchanged' = Remember(IF m.type = "exchange" THEN {pair} ELSE {}, pair)
        /\ Answer(e, r, Announcement(e, r)) /\ UNCHANGED links
    BY <1>1, <1>4, <1>7 DEF ReceiveData
  <2>2. UNCHANGED <<link, ready, failed, session, selected, selecting>>
    BY <1>2, <2>1 DEF links, routes
  <2>3. exchanged' \subseteq exchanged \cup (IF m.type = "exchange" THEN {pair} ELSE {})
    BY <2>1 DEF Remember
  <2>4. peer \in [End -> PeerType] /\ Other(e) \in End /\ Other(e) # e
    BY DEF FrameTypes, PeerType, Other, End
  <2>5. mine \in PeerType /\ mine.session = session[e][r]
    <3>1. CASE InSession(e, r)
      BY <2>4, <3>1 DEF Current, InSession
    <3>2. CASE ~InSession(e, r)
      <4>1. PICK n \in Nat : mine = [session |-> session[e][r], received |-> FALSE, instance |-> n]
        BY <3>2, FreshInstance
      <4> QED BY <4>1 DEF Shapes, PeerType
    <3> QED BY <3>1, <3>2
  <2> HIDE DEF mine
  <2>6. /\ peer'[e].session = session[e][r] /\ peer'[e].instance = mine.instance
        /\ peer'[e].received = TRUE /\ peer'[Other(e)] = peer[Other(e)] /\ peer' \in [End -> PeerType]
    <3>1. [mine EXCEPT !.received = TRUE] \in PeerType
          /\ [mine EXCEPT !.received = TRUE].session = mine.session
          /\ [mine EXCEPT !.received = TRUE].instance = mine.instance
          /\ [mine EXCEPT !.received = TRUE].received = TRUE
      BY <2>5 DEF PeerType
    <3> QED BY <2>1, <2>4, <2>5, <3>1
  <2>7. exchanged' \in SUBSET (Nat \X Nat) /\ IsFiniteSet(exchanged')
    <3>1. pair \in Nat \X Nat
      BY <1>5, <2>5 DEF PeerType
    <3> HIDE DEF pair
    <3>2. exchanged' \in SUBSET (exchanged \cup {pair})
      BY <2>3
    <3>3. IsFiniteSet(exchanged) /\ exchanged \in SUBSET (Nat \X Nat)
      BY DEF FrameTypes
    <3>4. IsFiniteSet(exchanged \cup {pair})
      BY <3>3, FS_AddElement
    <3>5. IsFiniteSet(exchanged')
      BY <3>2, <3>4, FS_Subset
    <3> QED BY <3>1, <3>2, <3>3, <3>5
  <2>8. CASE InSession(e, r)
    <3>1. Announcement(e, r) = <<>> /\ mine = peer[e]
      BY <2>8 DEF Announcement, Current, mine
    <3>2. /\ chan' \in [End -> [Conn -> Seq(Frame)]] /\ OnlyOn(c)
          /\ e = "lo" => ToLo(c)' = Tail(ToLo(c)) /\ ToHi(c)' = ToHi(c)
          /\ e = "hi" => ToHi(c)' = Tail(ToHi(c)) /\ ToLo(c)' = ToLo(c)
      <4>1. <<>> \in Seq(Frame) /\ ToLo(c) \o <<>> = ToLo(c) /\ ToHi(c) \o <<>> = ToHi(c)
        BY FrameChannels
      <4> QED BY <1>1, <2>1, <3>1, <4>1, AnswerEffect
    <3>3. FrameTypes'
      BY <2>6, <2>7, <3>2 DEF FrameTypes, PeerType
    <3>4. DataStep(e, c)
      BY <1>1, <1>3, <2>2, <2>6, <3>2 DEF DataStep
    <3>5. CASE e = "lo"
      <4>1. Reads(ToLo(c), ToLo(c)') /\ Head(ToLo(c)) = m
        BY <1>1, <1>4, <1>5, <3>2, <3>5 DEF Reads, ToLo, Other
      <4>2. Lo' = Lo /\ peer'["lo"].received = TRUE /\ mine.instance = Lo /\ mine.received = peer["lo"].received
        BY <2>6, <3>1, <3>5 DEF Lo
      <4>3. CASE m.type = "announce"
        <5>1. ~peer["lo"].received /\ exchanged' \subseteq exchanged
          BY <1>7, <2>3, <4>2, <4>3 DEF Expected
        <5> QED BY <1>3, <2>8, <3>2, <3>3, <3>4, <3>5, <4>1, <4>2, <4>3, <5>1, LoHears
      <4>4. CASE m.type = "exchange"
        <5>1. peer["lo"].received /\ exchanged' \subseteq exchanged \cup {<<Lo, m.from>>}
          BY <1>7, <2>3, <3>5, <4>2, <4>4 DEF Expected, FrameTypes, End
        <5> QED BY <1>3, <1>5, <2>8, <3>2, <3>3, <3>4, <3>5, <4>1, <4>2, <4>4, <5>1, LoAccepts
      <4> QED BY <1>5, <4>3, <4>4 DEF IsData
    <3>6. CASE e = "hi"
      <4>1. Reads(ToHi(c), ToHi(c)') /\ Head(ToHi(c)) = m
        BY <1>1, <1>4, <1>5, <3>2, <3>6 DEF Reads, ToHi, Other
      <4>2. Hi' = Hi /\ mine.instance = Hi
        BY <2>6, <3>1, <3>6 DEF Hi
      <4>3. exchanged' \subseteq exchanged \cup {<<m.from, Hi>>}
        BY <2>3, <3>6, <4>2
      <4> QED BY <1>3, <1>5, <2>8, <3>2, <3>3, <3>4, <3>6, <4>1, <4>2, <4>3, HiHears
    <3> QED BY <3>5, <3>6 DEF End
  <2>9. CASE ~InSession(e, r)
    <3>1. PICK n \in Nat : /\ mine = [session |-> session[e][r], received |-> FALSE, instance |-> n]
                           /\ NewInstance(e, n)
      BY <2>9, FreshInstance DEF NewInstance, mine
    <3> DEFINE a == [type |-> "announce", from |-> n]
    <3>2. a \in Frame /\ a.type = "announce" /\ a.from = n /\ IsData(a)
      BY FramesAre DEF IsData
    <3>3. Announcement(e, r) = <<a>>
      BY <2>9, <3>1 DEF Announcement, mine
    <3> HIDE DEF a
    <3>4. /\ chan' \in [End -> [Conn -> Seq(Frame)]] /\ OnlyOn(c)
          /\ e = "lo" => ToLo(c)' = Tail(ToLo(c)) /\ ToHi(c)' = Append(ToHi(c), a)
          /\ e = "hi" => ToHi(c)' = Tail(ToHi(c)) /\ ToLo(c)' = Append(ToLo(c), a)
      <4>1. <<a>> \in Seq(Frame)
        BY <3>2
      <4>2. ToLo(c) \o <<a>> = Append(ToLo(c), a) /\ ToHi(c) \o <<a>> = Append(ToHi(c), a)
        BY <3>2, FrameChannels, Appends
      <4> QED BY <1>1, <2>1, <3>3, <4>1, <4>2, AnswerEffect
    <3>5. FrameTypes'
      BY <2>6, <2>7, <3>4 DEF FrameTypes, PeerType
    <3>6. DataStep(e, c)
      BY <1>1, <1>3, <2>2, <2>6, <3>4 DEF DataStep
    <3>7. m.type = "announce" /\ exchanged' \subseteq exchanged
      BY <1>7, <2>3, <3>1 DEF Expected
    <3>8. CASE e = "lo"
      <4>1. Reads(ToLo(c), ToLo(c)') /\ Head(ToLo(c)) = m /\ Sends(ToHi(c), ToHi(c)', a)
        BY <1>1, <1>4, <1>5, <3>2, <3>4, <3>8 DEF Reads, Sends, ToLo, Other
      <4>2. Lo' = n /\ peer'["lo"].received = TRUE
        BY <2>6, <3>1, <3>8 DEF Lo
      <4> QED BY <1>3, <2>9, <3>1, <3>2, <3>5, <3>6, <3>7, <3>8, <4>1, <4>2, NewNumber, LoStarts
    <3>9. CASE e = "hi"
      <4>1. Reads(ToHi(c), ToHi(c)') /\ Sends(ToLo(c), ToLo(c)', a)
        BY <1>1, <1>4, <1>5, <3>2, <3>4, <3>9 DEF Reads, Sends, ToHi, Other
      <4>2. Hi' = n /\ peer'["hi"].received = TRUE
        BY <2>6, <3>1, <3>9 DEF Hi
      <4> QED BY <1>3, <2>9, <3>1, <3>2, <3>5, <3>6, <3>7, <3>9, <4>1, <4>2, NewNumber, HiStarts
    <3> QED BY <3>8, <3>9 DEF End
  <2> QED BY <2>8, <2>9
<1> QED BY <1>6, <1>7

\* At first there are no connections, frames and pairs.
LEMMA InitPairing ==
  Init => FrameTypes /\ Pairing
<1> SUFFICES ASSUME Init PROVE FrameTypes /\ Pairing
  OBVIOUS
<1>1. FrameTypes
  <2>1. chan \in [End -> [Conn -> Seq(Frame)]]
    BY DEF Init
  <2>2. exchanged \in SUBSET (Nat \X Nat) /\ IsFiniteSet(exchanged)
    BY FS_EmptySet DEF Init
  <2> QED BY <2>1, <2>2 DEF Init, FrameTypes, NoPeer
<1>2. \A c \in Conn : ToHi(c) = <<>> /\ ToLo(c) = <<>>
  BY DEF Init, ToHi, ToLo, End
<1>3. \A e \in End, c \in Conn : ~Uses(e, c) /\ ~On(e, c) /\ ~Speaks(e, c) /\ ~Untried(e, c)
  <2>1. \A e \in End, c \in Conn : link[e][c[1]] = None
    BY RouteOf DEF Init
  <2> QED BY <2>1, NoneAssumption DEF Uses, On, Speaks, Untried
<1>4. ASSUME NEW c \in Conn PROVE Local(c)
  <2>1. Channel(c)
    BY <1>2, <1>3, EmptyChannel DEF Channel, End
  <2>2. Carried(c)
    BY <1>2, <1>3, EmptyChannel DEF Carried, End
  <2>3. Paired(c)
    BY <1>2, <1>3, EmptyChannel DEF Paired, Talks, End
  <2> QED BY <2>1, <2>2, <2>3 DEF Local
<1>5. Separate
  BY <1>2, <1>3, EmptyChannel, NoneAssumption DEF Separate, Init, NoPeer, End
<1>6. ExchangesPaired
  BY DEF Init, ExchangesPaired
<1> QED BY <1>1, <1>4, <1>5, <1>6 DEF Pairing

\* Any frame is read, or lo asks for a route.
LEMMA ReceivePairing ==
  ASSUME Shapes, Wiring, FrameTypes, Pairing, NEW e \in End, NEW r \in Route, SelectRoute(r) \/ Receive(e, r)
  PROVE  FrameTypes' /\ Pairing'
BY SelectPairing, AskPairing, GoPairing, AgreePairing, UnexpectedPairing, DataPairing, DropPairing DEF Receive

\* Every step keeps the invariant.
LEMMA NextPairing ==
  Shapes /\ Wiring /\ FrameTypes /\ Pairing /\ [Next]_vars => FrameTypes' /\ Pairing'
<1> SUFFICES ASSUME Shapes, Wiring, FrameTypes, Pairing, [Next]_vars PROVE FrameTypes' /\ Pairing'
  OBVIOUS
<1>1. ASSUME NEW r \in Route, JoinRelay(r) \/ SelectRoute(r) PROVE FrameTypes' /\ Pairing'
  BY <1>1, ConnectionPairing, ReceivePairing DEF End
<1>2. ASSUME NEW e \in End, NEW r \in Route,
             Dial(e, r) \/ Handshake(e, r) \/ Fault(e, r) \/ PeerClosed(e, r) \/ Receive(e, r)
      PROVE  FrameTypes' /\ Pairing'
  BY <1>2, ConnectionPairing, ReceivePairing
<1>3. ASSUME NEW e \in End, NEW c \in Conn, Accept(e, c) \/ RefuseDial(e, c) \/ Closed(e, c)
      PROVE  FrameTypes' /\ Pairing'
  BY <1>3, CallbackPairing
<1>4. ASSUME NEW e \in End, Send(e) \/ Forget(e) PROVE FrameTypes' /\ Pairing'
  BY <1>4, SendPairing, ForgetPairing
<1>5. CASE UNCHANGED vars
  <2>1. UNCHANGED <<link, ready, failed, session, selected, selecting, peer, chan, exchanged>>
    BY <1>5 DEF vars
  <2>2. \A x \in Conn : QuietAt(x)
    BY <2>1, NothingQuiet
  <2>3. FrameTypes'
    BY <2>1 DEF FrameTypes
  <2> QED BY <2>1, <2>2, <2>3, PairingQuiet
<1> QED BY <1>1, <1>2, <1>3, <1>4, <1>5 DEF Next

IInv == Shapes /\ Wiring /\ FrameTypes /\ Pairing

(***************************************************************************)
(* The inductive invariant of both ends of peer_network and of the frames  *)
(* between them.                                                           *)
(***************************************************************************)
THEOREM Inductive == Spec => []IInv
<1>1. Init => IInv
  BY InitShapes, InitWiring, InitPairing DEF IInv
<1>2. IInv /\ [Next]_vars => IInv'
  BY NextShapes, NextWiring, NextPairing DEF IInv
<1> QED BY <1>1, <1>2, PTL DEF Spec

(***************************************************************************)
(* A revision_exchange accepts messages of one instance of the other end   *)
(* only, and the other way round, whatever connections, failures and       *)
(* changes of route there were.                                            *)
(***************************************************************************)
THEOREM PeersPaired == Spec => []ExchangesPaired
<1>1. IInv => ExchangesPaired
  BY DEF IInv, Pairing
<1> QED BY <1>1, Inductive, PTL

=============================================================================
