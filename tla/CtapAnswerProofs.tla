--------------------------- MODULE CtapAnswerProofs ----------------------------
(***************************************************************************)
(* More of CtapHidSystem: what a program takes for the answer to its       *)
(* request is that answer.  A program and the device exchange a request    *)
(* and its answer in packets that others' packets, given-up requests,      *)
(* errors and keepalives are mixed with, and the invariant says what can   *)
(* be in the queue, in the request and the response at the device, in the  *)
(* report on its way and with the program, all at the same time.           *)
(*                                                                         *)
(* Most lemmas before the last two sections are about values, not about    *)
(* states: me is a program, q what is queued for the device, r the request *)
(* being put together there, s the response being sent, h the report to    *)
(* be read and l the messages sent.                                        *)
(***************************************************************************)
EXTENDS CtapHidProofs

--------------------------------------------------------------------------------
(* What is under way between a program and the device                        *)

\* A packet of a request on channel c, and its place in the request.
Asks(p, c) == p.cid = c /\ p.cmd # "cancel"
Rank(p)    == IF p.init THEN 0 ELSE p.seq + 1

\* The channel on which a program is spoken to: Address, of a program's state.
Post(me) == IF me.channel = 0 THEN Broadcast ELSE me.channel

\* What a program waits for is the answer to the message sent under its number.
Mine(s, me) ==
  me.phase # "closed" =>
    /\ me.id \in 1 .. Len(s) /\ me.cmd \in {"init", "ping", "cbor"}
    /\ s[me.id].cmd = me.cmd /\ s[me.id].data = Message(me.id, me.len)
    /\ me.phase = "waiting" => s[me.id].cid = Post(me)
    /\ me.cmd = "init" => me.len = NonceLength

MineInv ==
  \A a \in Apps : Mine(sent, app[a]) /\ (app[a].phase = "closed" => app[a].channel = 0)

\* A channel that a request or a response is of is some program's, or the one for INITs.
InUse(c) ==
  \E i \in Interfaces :
    \/ \E n \in 1 .. Len(toDevice[i]) : toDevice[i][n].cid = c
    \/ request[i].active /\ request[i].cid = c
    \/ response[i].active /\ response[i].cid = c

Known(c) == c = Broadcast \/ \E a \in Apps : app[a].channel = c

OwnedOK == \A c \in Cids : InUse(c) => Known(c)

\* What the device says of itself: an INIT that is answered has been sent, an error takes
\* one packet, and the user is asked about a request that is whole.
SpokenOK(s, r, h) ==
  /\ r.active =>
       /\ r.cmd = "init" => Of(r.data) \in 1 .. Len(s)
       /\ r.cmd = "error" => r.sent = 0 /\ Len(r.data) = 1
  /\ h # <<>> =>
       /\ Head(h).cmd = "init" => Of(Head(h).data) \in 1 .. Len(s)
       /\ Head(h).cmd = "error" => Head(h).init /\ Len(Head(h).data) >= Head(h).len

DeviceOK ==
  /\ \A i \in Interfaces : SpokenOK(sent, response[i], toHost[i])
  /\ serving # NoInterface => Len(request[serving].data) >= request[serving].len

\* Nothing that asks for an answer is under way on the program's channel: q is on its way
\* to the device, r being put together there.
Settled(me, q, r) ==
  /\ \A n \in 1 .. Len(q) : ~ Asks(q[n], me.channel)
  /\ \A n \in 1 .. Len(me.toWrite) : me.toWrite[n].cmd = "cancel"
  /\ ~ (r.active /\ r.cid = me.channel)

\* Neither is an answer: s is the response being sent, h the report to be read.
Quiet(me, q, r, s, h) ==
  /\ Settled(me, q, r)
  /\ ~ (s.active /\ s.cid = me.channel)
  /\ h # <<>> => Head(h).cid # me.channel

\* All that asks on the channel is of the program's request, in the order of its packets.
InOrder(me, q, r) ==
  /\ \A n \in 1 .. Len(q) : Asks(q[n], me.channel) => Of(q[n].data) = me.id
  /\ \A n, k \in 1 .. Len(q) :
       Asks(q[n], me.channel) /\ Asks(q[k], me.channel) /\ n < k => Rank(q[n]) < Rank(q[k])
  /\ \A n, k \in 1 .. Len(me.toWrite) : n < k => Rank(me.toWrite[n]) < Rank(me.toWrite[k])
  /\ \A n \in 1 .. Len(q), k \in 1 .. Len(me.toWrite) :
       Asks(q[n], me.channel) /\ me.toWrite[k].cmd # "cancel" => Rank(q[n]) < Rank(me.toWrite[k])
  /\ r.active /\ r.cid = me.channel =>
       /\ Of(r.data) = me.id
       /\ \A n \in 1 .. Len(q) : Asks(q[n], me.channel) => r.seq < Rank(q[n])
       /\ \A k \in 1 .. Len(me.toWrite) : me.toWrite[k].cmd # "cancel" => r.seq < Rank(me.toWrite[k])

\* The packet of the response that comes next.
NextRank(s) == IF s.sent = 0 THEN 0 ELSE s.seq + 1

Errs(me, s)     == s.active /\ s.cid = me.channel /\ s.cmd = "error"
Responds(me, s) == s.active /\ s.cid = me.channel /\ s.cmd # "error"
Reports(me, h)  == h # <<>> /\ Head(h).cid = me.channel /\ Head(h).cmd \notin {"error", "keepalive"}

\* Packet k of an answer of n units.
IsEcho(me, p, n, k) ==
  /\ Offset(k) < n /\ (p.init <=> k = 0)
  /\ k = 0 => p.cmd = me.cmd /\ p.len = n /\ p.data = Prefix(Message(me.id, n), InitPayload)
  /\ k # 0 => p.seq = k - 1 /\ p.data = Part(Message(me.id, n), k)

\* What has been put together of an answer of n units with its packets 0 .. g.seq.
PartEcho(me, g, n) ==
  /\ g.active /\ g.cmd = me.cmd /\ g.sent = n /\ g.seq \in Nat
  /\ g.data = Prefix(Message(me.id, n), Offset(g.seq + 1))

\* One answer of n units is under way, from the response by the report to the program.
Echo(me, s, h, n) ==
  /\ me.cmd = "ping" => n = me.len
  /\ Responds(me, s) => /\ s.cmd = me.cmd /\ s.data = Message(me.id, n)
                        /\ s.sent = Offset(NextRank(s)) /\ s.sent < n
  /\ Reports(me, h) => /\ IsEcho(me, Head(h), n, Rank(Head(h)))
                       /\ Responds(me, s) => NextRank(s) = Rank(Head(h)) + 1
  /\ me.got.active => PartEcho(me, me.got, n) /\ Offset(me.got.seq + 1) < n

\* Once there is an answer, nothing is under way that would bring another.
Asked(me, q, r, s, h) ==
  /\ InOrder(me, q, r)
  /\ Responds(me, s) \/ Reports(me, h) \/ me.got.active => Settled(me, q, r) /\ ~ Errs(me, s)
  /\ \E n \in Nat : Echo(me, s, h, n)

Hails(me, p)    == Asks(p, Post(me)) /\ Of(p.data) = me.id
Welcomes(me, p) == p.cid = Post(me) /\ p.cmd = "init" /\ Of(p.data) = me.id
Welcome(me, s, h) == (s.active /\ Welcomes(me, s)) \/ (h # <<>> /\ Welcomes(me, Head(h)))

\* The INIT that a program waits for is in one place, and the last on the program's channel.
Hailed(me, q, r, s, h) ==
  /\ Len(me.toWrite) <= 1
  /\ me.toWrite # <<>> => ~ Welcome(me, s, h) /\ \A n \in 1 .. Len(q) : ~ Hails(me, q[n])
  /\ \A n \in 1 .. Len(q) : Hails(me, q[n]) =>
       /\ ~ Welcome(me, s, h)
       /\ \A k \in n + 1 .. Len(q) : ~ Hails(me, q[k]) /\ (me.channel # 0 => q[k].cid # me.channel)
  /\ r.active /\ r.cid = Post(me) => Of(r.data) # me.id
  /\ me.channel # 0 /\ Welcome(me, s, h) =>
       /\ \A n \in 1 .. Len(q) : q[n].cid # me.channel
       /\ ~ (r.active /\ r.cid = me.channel)
       /\ h # <<>> /\ Welcomes(me, Head(h)) => ~ (s.active /\ s.cid = me.channel)

\* What a program has taken for its answer.
Answered(me) ==
  /\ me.cmd # "init"
  /\ me.got.data = Message(me.id, Len(me.got.data))
  /\ me.cmd = "ping" => Len(me.got.data) = me.len

ProgramAnswered(me, q, r, s, h) ==
  /\ me.phase \in {"ready", "answered"} => Quiet(me, q, r, s, h)
  /\ me.phase = "answered" => Answered(me)
  /\ me.phase = "waiting" /\ me.cmd # "init" => Asked(me, q, r, s, h)
  /\ me.phase = "waiting" /\ me.cmd = "init" => Hailed(me, q, r, s, h)

Awaits(a) == ProgramAnswered(app[a], toDevice[Home[a]], request[Home[a]],
                             response[Home[a]], toHost[Home[a]])

AnswersOK == OwnedOK /\ DeviceOK /\ \A a \in Apps : Awaits(a)

AnswersInv == ~ Wrapped => AnswersOK

--------------------------------------------------------------------------------
(* Packets and messages                                                      *)

LEMMA CutRanks ==
  ASSUME NEW cid \in Cids, NEW cmd \in Words, NEW data \in Data, NEW cut, cut = Cut(cid, cmd, data)
  PROVE  \A n \in 1 .. Len(cut) : Rank(cut[n]) = n - 1
<1> DEFINE l == Continuations(Len(data))
<1>1. Len(data) \in Nat /\ l \in Nat /\ Len(cut) = l + 1
  BY CutType, ContinuationsProperty DEF Data
<1>2. SUFFICES ASSUME NEW n \in 1 .. Len(cut) PROVE Rank(cut[n]) = n - 1
  OBVIOUS
<1> DEFINE k == n - 1
           x == Piece(cid, cmd, data, k)
<1>3. cut[n] = x
  BY <1>1 DEF Cut
<1>4. k \in Nat /\ k <= l
  BY <1>1, <1>2
<1>5. (k = 0 => x.init = TRUE) /\ (k > 0 => x.init = FALSE /\ x.seq = k - 1)
  <2> HIDE DEF k
  <2>1. CASE k = 0
    <3>1. x = [cid |-> cid, init |-> TRUE, cmd |-> cmd, len |-> Len(data), seq |-> 0,
               data |-> Prefix(data, InitPayload)]
      BY <2>1 DEF Piece, Packet
    <3>2. QED
      BY <2>1, <3>1
  <2>2. CASE k > 0
    <3> DEFINE part == Part(data, k)
    <3>1. x = [cid |-> cid, init |-> FALSE, cmd |-> "none", len |-> 0, seq |-> k - 1, data |-> part]
      BY <2>2 DEF Piece, Packet, Part
    <3> HIDE DEF part
    <3>2. QED
      BY <2>2, <3>1
  <2>3. QED
    BY <1>4, <2>1, <2>2
<1> HIDE DEF x, k
<1>6. Rank(x) = k
  <2>1. CASE k = 0
    BY <1>5, <2>1 DEF Rank
  <2>2. CASE k > 0
    BY <1>4, <1>5, <2>2 DEF Rank
  <2>3. QED
    BY <1>4, <2>1, <2>2
<1>7. QED
  BY <1>3, <1>6 DEF k

\* A packet begins before the end of its message.
LEMMA PieceRank ==
  ASSUME NEW s, Log(s), NEW m \in 1 .. Len(s), NEW p, IsPiece(s, p, m)
  PROVE  Rank(p) \in Nat /\ Offset(Rank(p)) < Len(s[m].data)
<1>1. p \in Packets /\ (~ p.init => p.seq + 1 \in 1 .. Continuations(Len(s[m].data)))
  BY PieceFacts
<1>2. Len(s[m].data) \in Nat \ {0}
  BY SentType
<1>3. \A k \in 1 .. Continuations(Len(s[m].data)) : Offset(k) < Len(s[m].data)
  BY <1>2, ContinuationsProperty
<1>4. CASE p.init
  <2>1. Rank(p) = 0
    BY <1>4 DEF Rank
  <2>2. Offset(0) = 0
    BY OffsetProperty
  <2>3. QED
    BY <1>2, <2>1, <2>2
<1>5. CASE ~ p.init
  BY <1>1, <1>3, <1>5 DEF Rank
<1>6. QED
  BY <1>4, <1>5

\* When packets 0 .. k have brought all of a message, there is none after them.
LEMMA Exhausted ==
  ASSUME NEW s, Log(s), NEW m \in 1 .. Len(s), NEW k \in Nat, Len(s[m].data) <= Offset(k + 1)
  PROVE  \A p : IsPiece(s, p, m) => Rank(p) <= k
<1> SUFFICES ASSUME NEW p, IsPiece(s, p, m) PROVE Rank(p) <= k
  OBVIOUS
<1>1. Rank(p) \in Nat /\ Offset(Rank(p)) < Len(s[m].data) /\ Len(s[m].data) \in Nat
  BY PieceRank, SentType
<1>2. SUFFICES ASSUME k + 1 <= Rank(p) PROVE FALSE
  BY <1>1
<1>3. Offset(k + 1) <= Offset(Rank(p)) /\ Offset(k + 1) \in Nat /\ Offset(Rank(p)) \in Nat
  BY <1>1, <1>2, OffsetProperty
<1>4. QED
  BY <1>1, <1>3

\* A request that is whole has all of its message.
LEMMA GatheredAll ==
  ASSUME NEW s, Log(s), NEW r \in Requests, Gathered(s, r), Len(r.data) >= r.len,
         NEW m, m = Of(r.data)
  PROVE  m \in 1 .. Len(s) /\ r.data = s[m].data /\ Len(s[m].data) <= Offset(r.seq + 1)
<1> DEFINE d == s[m].data
           k == Offset(r.seq + 1)
<1>1. m \in 1 .. Len(s) /\ r.len = Len(d) /\ r.data = Prefix(d, k)
  BY DEF Gathered
<1>2. d \in Data /\ Len(d) \in Nat
  BY <1>1, SentType
<1>3. k \in Nat
  <2>1. r.seq + 1 \in Nat
    BY DEF Requests
  <2>2. QED
    BY <2>1, OffsetProperty
<1> HIDE DEF d, k
<1>4. Len(Prefix(d, k)) = IF k <= Len(d) THEN k ELSE Len(d)
  BY <1>2, <1>3, PrefixProperty DEF Data
<1>5. Len(d) <= k
  BY <1>1, <1>2, <1>3, <1>4
<1>6. r.data = d
  BY <1>1, <1>2, <1>3, <1>5, PrefixWhole
<1>7. QED
  BY <1>1, <1>5, <1>6 DEF d, k

--------------------------------------------------------------------------------
(* What the device makes of a packet                                         *)

\* What the packet p, of the messages l, makes of the request r being put together and of
\* the response s being sent.
Gathers(p, r, r2) ==
  \/ ~ r2.active
  \/ r2 = r /\ r.cid # p.cid
  \/ /\ r2.cid = p.cid /\ p.cmd # "cancel" /\ Of(r2.data) = Of(p.data) /\ r2.seq = Rank(p)
     /\ Len(r2.data) < r2.len \/ r2.cmd = "cbor"

Objects(p, s2) ==
  /\ s2.active /\ s2.cid = p.cid /\ p.cmd # "cancel"
  /\ s2.cmd = "error" /\ s2.sent = 0 /\ Len(s2.data) = 1

Replied(l, p, r2, s2) ==
  LET m == Of(p.data)
  IN  /\ ~ r2.active /\ s2.active /\ s2.cid = p.cid /\ p.cmd # "cancel" /\ s2.sent = 0
      /\ m \in 1 .. Len(l) /\ s2.cmd = l[m].cmd /\ s2.cmd \in {"init", "ping", "diag"}
      /\ s2.cmd = "init" => Of(s2.data) = m
      /\ s2.cmd = "ping" => s2.data = l[m].data
      /\ Len(l[m].data) <= Offset(Rank(p) + 1)

Effect(l, p, r, s, r2, s2) ==
  Gathers(p, r, r2) /\ (s2 = s \/ Objects(p, s2) \/ Replied(l, p, r2, s2))

\* What queue_response leaves.
LEMMA Queued ==
  ASSUME ReplyTypes, NEW i \in Interfaces, NEW cid, NEW cmd, NEW data, Reply(i, cid, cmd, data)
  PROVE  /\ response'[i].active /\ response'[i].cid = cid /\ response'[i].cmd = cmd
         /\ response'[i].sent = 0 /\ response'[i].data = Prefix(data, MaxMessage)
         /\ \A j \in Interfaces \ {i} : response'[j] = response[j]
<1> DEFINE x == [active |-> TRUE, cid |-> cid, cmd |-> cmd, seq |-> 0, sent |-> 0,
                 data |-> Prefix(data, MaxMessage)]
<1>1. response' = [response EXCEPT ![i] = x] /\ response \in [Interfaces -> Replies]
  BY Zenon DEF Reply, ReplyTypes
<1>2. /\ x.active = TRUE /\ x.cid = cid /\ x.cmd = cmd /\ x.sent = 0
      /\ x.data = Prefix(data, MaxMessage)
  OBVIOUS
<1> HIDE DEF x
<1>3. response'[i] = x /\ \A j \in Interfaces \ {i} : response'[j] = response[j]
  BY <1>1
<1>4. QED
  BY <1>2, <1>3

LEMMA Refused ==
  ASSUME ReplyTypes, NEW i \in Interfaces, NEW p \in Packets, p.cmd # "cancel", Error(i, p.cid)
  PROVE  /\ Objects(p, response'[i])
         /\ \A j \in Interfaces \ {i} : response'[j] = response[j]
<1> DEFINE d == <<[of |-> 0, at |-> 0]>>
<1>1. Reply(i, p.cid, "error", d)
  BY DEF Error
<1>2. d \in Data /\ Len(d) = 1
  <2>1. [of |-> 0, at |-> 0] \in Units
    BY UnitType
  <2>2. QED
    BY <2>1 DEF Data
<1> HIDE DEF d
<1>3. Prefix(d, MaxMessage) = d
  <2>1. MaxMessage \in Nat /\ Len(d) <= MaxMessage
    BY <1>2, Sizes
  <2>2. QED
    BY <1>2, <2>1, PrefixWhole
<1>4. QED
  BY <1>1, <1>2, <1>3, Queued DEF Objects

LEMMA ExtendEffect ==
  ASSUME Types, Log(sent), NEW i \in Interfaces, NEW p \in Packets, p.cmd # "cancel",
         NEW x \in Requests, Extend(i, x), Gathered(sent, x),
         x.cid = p.cid, x.seq = Rank(p), Of(x.data) = Of(p.data)
  PROVE  /\ Effect(sent, p, request[i], response[i], request'[i], response'[i])
         /\ \A j \in Interfaces \ {i} : request'[j] = request[j] /\ response'[j] = response[j]
         /\ serving' = serving \/ (serving' = i /\ Len(request'[i].data) >= request'[i].len)
<1>0. /\ ReplyTypes /\ RequestTypes /\ request \in [Interfaces -> Requests]
      /\ Len(x.data) \in Nat /\ x.len \in Nat
  BY Sizes DEF Types, RequestTypes, Requests, Data
<1>1. CASE ~ (Len(x.data) >= x.len)
  <2>1. request' = [request EXCEPT ![i] = x] /\ UNCHANGED <<response, serving>>
    BY <1>1, Zenon DEF Extend
  <2>2. request'[i] = x /\ \A j \in Interfaces \ {i} : request'[j] = request[j]
    BY <1>0, <2>1
  <2>3. Len(x.data) < x.len
    BY <1>0, <1>1
  <2>4. Gathers(p, request[i], x)
    BY <2>3, Zenon DEF Gathers
  <2>5. QED
    BY <2>1, <2>2, <2>4 DEF Effect
<1>2. CASE Len(x.data) >= x.len
  <2> DEFINE m == Of(p.data)
  <2>1. Dispatch(i, x)
    BY <1>2 DEF Extend
  <2>2. /\ request' = [request EXCEPT ![i] = IF x.cmd = "cbor" THEN x ELSE Idle]
        /\ serving' = IF x.cmd = "cbor" THEN i ELSE serving
    BY <2>1, Zenon DEF Dispatch
  <2>3. m \in 1 .. Len(sent) /\ x.data = sent[m].data /\ Len(sent[m].data) <= Offset(Rank(p) + 1)
    BY <1>2, GatheredAll
  <2>4. x.cmd = sent[m].cmd /\ sent[m].cmd # "cancel"
    BY <2>3 DEF Gathered, Log, MessageOK
  <2>5. \A j \in Interfaces \ {i} : request'[j] = request[j]
    BY <1>0, <2>2
  <2>6. CASE x.cmd = "cbor"
    <3>1. request'[i] = x /\ serving' = i
      BY <1>0, <2>2, <2>6
    <3>2. UNCHANGED response
      BY <2>1, <2>6, Dispatching
    <3>3. Gathers(p, request[i], x)
      BY <2>6, Zenon DEF Gathers
    <3>4. QED
      BY <1>2, <2>5, <3>1, <3>2, <3>3 DEF Effect
  <2>7. CASE x.cmd # "cbor"
    <3>1. request'[i] = Idle /\ serving' = serving
      BY <1>0, <2>2, <2>7
    <3>2. ~ request'[i].active
      BY <3>1 DEF Idle
    <3>3. Gathers(p, request[i], request'[i])
      BY <3>2, Zenon DEF Gathers
    <3>4. /\ Objects(p, response'[i]) \/ Replied(sent, p, request'[i], response'[i])
          /\ \A j \in Interfaces \ {i} : response'[j] = response[j]
      <4>1. CASE Error(i, x.cid)
        BY <1>0, <4>1, Refused
      <4>2. ASSUME NEW d \in Data, x.cmd \in {"init", "ping", "diag"}, Reply(i, x.cid, x.cmd, d),
                   x.cmd = "init" => Len(d) > 0 /\ Of(d) = m, x.cmd = "ping" => d = x.data
            PROVE  /\ Replied(sent, p, request'[i], response'[i])
                   /\ \A j \in Interfaces \ {i} : response'[j] = response[j]
        <5>1. /\ response'[i].active /\ response'[i].cid = x.cid /\ response'[i].cmd = x.cmd
              /\ response'[i].sent = 0 /\ response'[i].data = Prefix(d, MaxMessage)
              /\ \A j \in Interfaces \ {i} : response'[j] = response[j]
          BY <1>0, <4>2, Queued
        <5>2. x.cmd = "init" => Of(response'[i].data) = m
          <6> SUFFICES ASSUME x.cmd = "init" PROVE Of(response'[i].data) = m
            OBVIOUS
          <6>1. Len(d) \in Nat /\ Len(d) > 0 /\ MaxMessage \in Nat /\ MaxMessage >= 1
            BY <4>2, Sizes DEF Data
          <6>2. /\ Len(Prefix(d, MaxMessage)) = IF MaxMessage <= Len(d) THEN MaxMessage ELSE Len(d)
                /\ \A k \in 1 .. Len(Prefix(d, MaxMessage)) : Prefix(d, MaxMessage)[k] = d[k]
            BY <6>1, PrefixProperty DEF Data
          <6>3. 1 \in 1 .. Len(Prefix(d, MaxMessage))
            BY <6>1, <6>2
          <6>4. QED
            BY <4>2, <5>1, <6>2, <6>3 DEF Of
        <5>3. x.cmd = "ping" => response'[i].data = sent[m].data
          <6> SUFFICES ASSUME x.cmd = "ping" PROVE response'[i].data = sent[m].data
            OBVIOUS
          <6>1. Len(d) <= MaxMessage /\ MaxMessage \in Nat
            <7>1. x.len <= MaxMessage /\ MaxMessage \in Nat
              BY Sizes DEF Requests
            <7>2. x.len = Len(sent[m].data)
              BY <2>3 DEF Gathered
            <7>3. QED
              BY <2>3, <4>2, <7>1, <7>2
          <6>2. QED
            BY <2>3, <4>2, <5>1, <6>1, PrefixWhole
        <5> HIDE DEF m
        <5>4. /\ ~ request'[i].active /\ response'[i].active /\ response'[i].cid = p.cid
              /\ response'[i].sent = 0 /\ response'[i].cmd = sent[m].cmd
              /\ response'[i].cmd \in {"init", "ping", "diag"}
              /\ response'[i].cmd = "init" => Of(response'[i].data) = m
              /\ response'[i].cmd = "ping" => response'[i].data = sent[m].data
          BY <2>4, <3>2, <4>2, <5>1, <5>2, <5>3
        <5>5. QED
          BY <2>3, <5>1, <5>4 DEF Replied, m
      <4>3. CASE x.cmd = "init" /\ HandleInit(i, x.cid, x.data)
        <5> DEFINE u == [of |-> 0, at |-> IF x.cid = Broadcast THEN Allocate(nextChannel).cid ELSE x.cid]
                   d == Append(x.data, u)
        <5>1. Error(i, x.cid) \/ (Len(x.data) = NonceLength /\ Reply(i, x.cid, "init", d))
          BY <4>3 DEF HandleInit
        <5>2. x.data \in Data /\ u \in Units
          <6>1. nextChannel \in Channels /\ Broadcast \in Nat
            BY Sizes DEF Types, RequestTypes
          <6>2. Allocate(nextChannel).cid \in Nat /\ x.cid \in Nat
            BY <6>1, AllocateProperty DEF Requests, Channels
          <6>3. (IF x.cid = Broadcast THEN Allocate(nextChannel).cid ELSE x.cid) \in Nat
            BY <6>2
          <6>4. QED
            BY <6>3, UnitType DEF Requests
        <5> HIDE DEF u
        <5>3. d \in Data /\ Len(d) = Len(x.data) + 1 /\ (Len(x.data) > 0 => d[1] = x.data[1])
          BY <5>2, AppendProperties DEF Data
        <5> HIDE DEF d
        <5>4. CASE Error(i, x.cid)
          BY <4>1, <5>4
        <5>5. CASE Len(x.data) = NonceLength /\ Reply(i, x.cid, "init", d)
          <6>1. Len(d) > 0 /\ Of(d) = Of(x.data)
            BY <5>3, <5>5, Sizes DEF Of
          <6>2. QED
            BY <4>2, <4>3, <5>3, <5>5, <6>1
        <5>6. QED
          BY <5>1, <5>4, <5>5
      <4>4. CASE x.cmd = "ping" /\ Reply(i, x.cid, "ping", x.data)
        <5>1. x.data \in Data
          BY DEF Requests
        <5>2. QED
          BY <4>2, <4>4, <5>1
      <4>5. CASE x.cmd = "diag" /\ \E n \in AnswerLengths : Reply(i, x.cid, "diag", Answer(x, n))
        <5>1. PICK n \in AnswerLengths : Reply(i, x.cid, "diag", Answer(x, n))
          BY <4>5
        <5>2. Answer(x, n) \in Data
          BY AnswerType DEF Requests
        <5>3. QED
          BY <4>2, <4>5, <5>1, <5>2
      <4>6. QED
        BY <2>1, <2>4, <2>7, <4>1, <4>3, <4>4, <4>5, Dispatching
    <3>5. QED
      BY <2>5, <3>1, <3>3, <3>4 DEF Effect
  <2>8. QED
    BY <2>6, <2>7
<1>3. QED
  BY <1>1, <1>2

\* A packet is out of place, or is refused, or is one more of the request it belongs to.
LEMMA HandleCases ==
  ASSUME Types, WireInv, StreamOK, NEW i \in Interfaces, Receive(i), NEW p, p = Head(toDevice[i])
  PROVE  \/ /\ ~ p.init /\ (~ request[i].active \/ p.cid # request[i].cid)
            /\ UNCHANGED <<request, serving>> /\ (UNCHANGED response \/ Error(i, p.cid))
         \/ /\ p.cmd # "cancel" /\ Reject(i, p.cid)
         \/ \E x \in Requests :
              /\ p.cmd # "cancel" /\ Extend(i, x) /\ Gathered(sent, x)
              /\ x.cid = p.cid /\ x.seq = Rank(p) /\ Of(x.data) = Of(p.data)
         \/ \E x \in Requests : IsCancel(p) /\ x.cmd = "cancel" /\ ~ (Len(x.data) < x.len) /\ Extend(i, x)
<1> DEFINE r == request[i]
<1>1. /\ p \in Packets /\ p = toDevice[i][1] /\ Len(toDevice[i]) \in Nat \ {0} /\ Handle(i, p)
      /\ IsPiece(sent, p, Of(p.data)) \/ IsCancel(p)
  BY Taken
<1>2. RequestTypes /\ Log(sent) /\ r \in Requests
  BY DEF Types, RequestTypes, WireInv
<1>0. ASSUME IsPiece(sent, p, Of(p.data))
      PROVE  p.cmd # "cancel" /\ (p.init => p.len = Len(sent[Of(p.data)].data))
  <2> DEFINE m == Of(p.data)
  <2>1. m \in 1 .. Len(sent) /\ IsPiece(sent, p, m)
    BY <1>0 DEF IsPiece
  <2>2. sent[m].cmd # "cancel"
    BY <1>2, <2>1 DEF Log, MessageOK
  <2> HIDE DEF m
  <2>3. (p.init => p.cmd = sent[m].cmd /\ p.len = Len(sent[m].data)) /\ (~ p.init => p.cmd = "none")
    BY <1>2, <2>1, PieceFacts
  <2>4. QED
    BY <2>2, <2>3 DEF m
<1>4. CASE /\ ~ p.init /\ (~ r.active \/ p.cid # r.cid)
           /\ UNCHANGED <<request, nextChannel, serving, served>>
           /\ UNCHANGED response \/ Error(i, p.cid)
  BY <1>4
<1>5. CASE ~ p.init /\ r.active /\ p.cid = r.cid /\ p.seq = r.seq /\ Extend(i, Continued(i, p))
  <2> DEFINE x == Continued(i, p)
             m == Of(r.data)
  <2>1. Gathered(sent, r)
    BY <1>5 DEF StreamOK
  <2>2. Of(p.data) = m
    <3>1. 1 \in 1 .. Len(toDevice[i]) /\ 1 - 1 = 0
      BY <1>1
    <3>2. Follows(toDevice[i], 1 - 1, request[i], toDevice[i][1])
      BY <1>1, <1>5, <3>1, Zenon DEF StreamOK, QueueFollows
    <3>3. Follows(toDevice[i], 0, r, p)
      BY <1>1, <3>1, <3>2
    <3>4. QED
      BY <1>5, <3>3 DEF Follows
  <2>3. IsPiece(sent, p, m) /\ p.cmd # "cancel"
    BY <1>0, <1>1, <1>5, <2>2 DEF IsCancel
  <2>4. r.active
    BY <1>5
  <2>5. /\ x \in Requests /\ x.cid = r.cid /\ x.cmd = r.cmd /\ x.len = r.len /\ x.seq = r.seq + 1
        /\ x.data = Gained(r, p)
    BY <1>1, <1>2, <2>4, ContinuedType
  <2> HIDE DEF x
  <2>6. Gathered(sent, x) /\ Of(x.data) = Of(r.data)
    BY <1>1, <1>2, <1>5, <2>1, <2>3, <2>5, GatherOn DEF m
  <2>7. Extend(i, x)
    BY <1>5 DEF x
  <2>8. x.cid = p.cid /\ x.seq = Rank(p)
    BY <1>5, <2>5 DEF Rank
  <2>9. QED
    BY <2>2, <2>3, <2>5, <2>6, <2>7, <2>8, Zenon DEF m
<1>6. CASE p.init /\ ~ (p.len > MaxMessage) /\ Extend(i, Started(p))
  <2> DEFINE x == Started(p)
  <2>1. p.len <= MaxMessage
    BY <1>1, <1>6, Sizes DEF Packets
  <2>2. /\ x \in Requests /\ Len(x.data) <= x.len /\ x.cid = p.cid /\ x.cmd = p.cmd
        /\ x.len = p.len /\ x.seq = 0
    BY <1>1, <2>1, StartedType
  <2>3. Extend(i, x) /\ x = Started(p)
    BY <1>6
  <2> HIDE DEF x
  <2>4. CASE IsCancel(p)
    <3>1. x.len = 0 /\ x.cmd = "cancel" /\ Len(x.data) \in Nat
      BY <2>2, <2>4 DEF IsCancel, Requests, Data
    <3>2. ~ (Len(x.data) < x.len)
      BY <3>1
    <3>3. QED
      BY <2>2, <2>3, <2>4, <3>1, <3>2, Zenon
  <2>5. CASE IsPiece(sent, p, Of(p.data))
    <3> DEFINE m == Of(p.data)
    <3>1. m \in 1 .. Len(sent) /\ IsPiece(sent, p, m)
      BY <2>5 DEF IsPiece
    <3> HIDE DEF m
    <3>2. Gathered(sent, x) /\ Of(x.data) = m
      BY <1>1, <1>2, <1>6, <2>1, <2>3, <3>1, GatherStart
    <3>3. p.cmd # "cancel" /\ x.seq = Rank(p)
      BY <1>0, <1>6, <2>2, <2>5 DEF Rank
    <3>4. QED
      BY <2>2, <2>3, <3>2, <3>3, Zenon DEF m
  <2>6. QED
    BY <1>1, <2>4, <2>5
<1>7. CASE /\ Reject(i, p.cid)
           /\ p.init => p.len > MaxMessage \/ (p.cid = Broadcast /\ p.cmd # "init")
  <2>1. ~ IsCancel(p)
    <3> SUFFICES ASSUME IsCancel(p) PROVE FALSE
      OBVIOUS
    <3>1. p.init /\ p.len = 0 /\ p.cid # Broadcast
      BY DEF IsCancel
    <3>2. QED
      BY <1>7, <3>1, Sizes
  <2>2. p.cmd # "cancel"
    BY <1>0, <1>1, <2>1
  <2>3. QED
    BY <1>7, <2>2
<1>8. QED
  BY <1>1, <1>4, <1>5, <1>6, <1>7, Handling, Zenon DEF r

LEMMA HandleEffect ==
  ASSUME Types, WireInv, StreamOK, NEW i \in Interfaces, Receive(i), NEW p, p = Head(toDevice[i])
  PROVE  /\ Effect(sent, p, request[i], response[i], request'[i], response'[i])
         /\ \A j \in Interfaces \ {i} : request'[j] = request[j] /\ response'[j] = response[j]
         /\ serving' = serving \/ (serving' = i /\ Len(request'[i].data) >= request'[i].len)
<1>1. /\ p \in Packets
      /\ IsPiece(sent, p, Of(p.data)) \/ IsCancel(p)
      /\ Log(sent) /\ ReplyTypes /\ request \in [Interfaces -> Requests]
  BY Taken DEF WireInv, Types, RequestTypes
<1>2. ~ Idle.active
  BY DEF Idle
<1>3. CASE /\ ~ p.init /\ (~ request[i].active \/ p.cid # request[i].cid)
           /\ UNCHANGED <<request, serving>> /\ (UNCHANGED response \/ Error(i, p.cid))
  <2>1. p.cmd # "cancel"
    <3>1. IsPiece(sent, p, Of(p.data))
      BY <1>1, <1>3 DEF IsCancel
    <3> DEFINE m == Of(p.data)
    <3>2. m \in 1 .. Len(sent) /\ IsPiece(sent, p, m)
      BY <3>1 DEF IsPiece
    <3> HIDE DEF m
    <3>3. ~ p.init => p.cmd = "none"
      BY <1>1, <3>2, PieceFacts
    <3>4. QED
      BY <1>3, <3>3
  <2>2. Gathers(p, request[i], request[i])
    BY <1>3 DEF Gathers
  <2>3. /\ response'[i] = response[i] \/ Objects(p, response'[i])
        /\ \A j \in Interfaces \ {i} : response'[j] = response[j]
    BY <1>1, <1>3, <2>1, Refused
  <2>4. QED
    BY <1>3, <2>2, <2>3 DEF Effect
<1>4. CASE p.cmd # "cancel" /\ Reject(i, p.cid)
  <2>1. Error(i, p.cid) /\ request' = [request EXCEPT ![i] = Idle] /\ UNCHANGED serving
    BY <1>4, Zenon DEF Reject
  <2>2. request'[i] = Idle /\ \A j \in Interfaces \ {i} : request'[j] = request[j]
    BY <1>1, <2>1
  <2>3. Gathers(p, request[i], Idle)
    BY <1>2 DEF Gathers
  <2>4. Objects(p, response'[i]) /\ \A j \in Interfaces \ {i} : response'[j] = response[j]
    BY <1>1, <1>4, <2>1, Refused
  <2>5. QED
    BY <2>1, <2>2, <2>3, <2>4 DEF Effect
<1>5. ASSUME NEW x \in Requests, p.cmd # "cancel", Extend(i, x), Gathered(sent, x),
             x.cid = p.cid, x.seq = Rank(p), Of(x.data) = Of(p.data)
      PROVE  /\ Effect(sent, p, request[i], response[i], request'[i], response'[i])
             /\ \A j \in Interfaces \ {i} : request'[j] = request[j] /\ response'[j] = response[j]
             /\ serving' = serving \/ (serving' = i /\ Len(request'[i].data) >= request'[i].len)
  BY <1>1, <1>5, ExtendEffect
<1>6. ASSUME NEW x \in Requests, IsCancel(p), x.cmd = "cancel", ~ (Len(x.data) < x.len), Extend(i, x)
      PROVE  /\ Effect(sent, p, request[i], response[i], request'[i], response'[i])
             /\ \A j \in Interfaces \ {i} : request'[j] = request[j] /\ response'[j] = response[j]
             /\ serving' = serving
  <2>1. Len(x.data) >= x.len
    BY <1>6 DEF Requests, Data
  <2>2. Dispatch(i, x)
    BY <1>6, <2>1 DEF Extend
  <2>3. /\ request' = [request EXCEPT ![i] = IF x.cmd = "cbor" THEN x ELSE Idle]
        /\ serving' = IF x.cmd = "cbor" THEN i ELSE serving
    BY <2>2, Zenon DEF Dispatch
  <2>4. UNCHANGED response
    BY <1>6, <2>2, Dispatching
  <2>5. /\ request'[i] = Idle /\ \A j \in Interfaces \ {i} : request'[j] = request[j]
        /\ serving' = serving
    BY <1>1, <1>6, <2>3
  <2>6. Gathers(p, request[i], Idle)
    BY <1>2 DEF Gathers
  <2>7. QED
    BY <2>4, <2>5, <2>6 DEF Effect
<1>7. QED
  BY <1>3, <1>4, <1>5, <1>6, HandleCases, Zenon

--------------------------------------------------------------------------------
(* A packet taken by the device, and the program that waits                  *)

\* What is left of a queue when its first packet has been taken.
Rest(q, t) == /\ Len(q) \in Nat \ {0} /\ Len(t) = Len(q) - 1
              /\ \A n \in 1 .. Len(t) : n + 1 \in 1 .. Len(q) /\ t[n] = q[n + 1]

LEMMA QuietReceived ==
  ASSUME NEW l, NEW me, NEW q, NEW r, NEW s, NEW h, Quiet(me, q, r, s, h),
         NEW t, Rest(q, t), NEW r2, NEW s2, Effect(l, q[1], r, s, r2, s2)
  PROVE  Quiet(me, t, r2, s2, h)
<1> DEFINE c == me.channel
           p == q[1]
<1>1. 1 \in 1 .. Len(q) /\ \A n \in 1 .. Len(t) : n + 1 \in 1 .. Len(q) /\ t[n] = q[n + 1]
  BY DEF Rest
<1>2. ~ Asks(p, c) /\ \A n \in 1 .. Len(t) : ~ Asks(t[n], c)
  BY <1>1 DEF Quiet, Settled
<1>3. ~ (r2.active /\ r2.cid = c)
  BY <1>2 DEF Effect, Gathers, Quiet, Settled, Asks
<1>4. ~ (s2.active /\ s2.cid = c)
  BY <1>2 DEF Effect, Objects, Replied, Quiet, Asks
<1>5. QED
  BY <1>2, <1>3, <1>4 DEF Quiet, Settled

\* With less under way, it is still in order.
LEMMA AskedLess ==
  ASSUME NEW me, NEW q, NEW r, NEW s, NEW h, Asked(me, q, r, s, h),
         NEW t, Rest(q, t), NEW r2, NEW s2,
         r2.active /\ r2.cid = me.channel => r2 = r,
         s2.active /\ s2.cid = me.channel => s2 = s
  PROVE  Asked(me, t, r2, s2, h)
<1> DEFINE c == me.channel
<1>1. /\ Len(q) \in Nat \ {0} /\ Len(t) = Len(q) - 1
      /\ \A n \in 1 .. Len(t) : n + 1 \in 1 .. Len(q) /\ t[n] = q[n + 1]
  BY DEF Rest
<1>2. InOrder(me, q, r)
  BY DEF Asked
<1>3. InOrder(me, t, r2)
  <2>1. \A n \in 1 .. Len(t) : Asks(t[n], c) => Of(t[n].data) = me.id
    BY <1>1, <1>2 DEF InOrder
  <2>2. \A n, k \in 1 .. Len(t) : Asks(t[n], c) /\ Asks(t[k], c) /\ n < k => Rank(t[n]) < Rank(t[k])
    <3> SUFFICES ASSUME NEW n \in 1 .. Len(t), NEW k \in 1 .. Len(t), Asks(t[n], c), Asks(t[k], c), n < k
                 PROVE  Rank(t[n]) < Rank(t[k])
      OBVIOUS
    <3>1. n + 1 \in 1 .. Len(q) /\ k + 1 \in 1 .. Len(q) /\ n + 1 < k + 1 /\ t[n] = q[n + 1] /\ t[k] = q[k + 1]
      BY <1>1
    <3>2. QED
      BY <1>2, <3>1 DEF InOrder
  <2>3. \A n \in 1 .. Len(t), k \in 1 .. Len(me.toWrite) :
          Asks(t[n], c) /\ me.toWrite[k].cmd # "cancel" => Rank(t[n]) < Rank(me.toWrite[k])
    BY <1>1, <1>2 DEF InOrder
  <2>4. \A n, k \in 1 .. Len(me.toWrite) : n < k => Rank(me.toWrite[n]) < Rank(me.toWrite[k])
    BY <1>2 DEF InOrder
  <2>5. r2.active /\ r2.cid = c =>
          /\ Of(r2.data) = me.id
          /\ \A n \in 1 .. Len(t) : Asks(t[n], c) => r2.seq < Rank(t[n])
          /\ \A k \in 1 .. Len(me.toWrite) : me.toWrite[k].cmd # "cancel" => r2.seq < Rank(me.toWrite[k])
    BY <1>1, <1>2 DEF InOrder
  <2>6. QED
    BY <2>1, <2>2, <2>3, <2>4, <2>5 DEF InOrder
<1>4. Settled(me, q, r) => Settled(me, t, r2)
  BY <1>1 DEF Settled
<1>5. (Responds(me, s2) => Responds(me, s) /\ s2 = s) /\ (Errs(me, s2) => Errs(me, s))
  BY DEF Responds, Errs
<1>6. \A n \in Nat : Echo(me, s, h, n) => Echo(me, s2, h, n)
  BY <1>5, Zenon DEF Echo
<1>7. QED
  BY <1>3, <1>4, <1>5, <1>6, Zenon DEF Asked

\* What a program writes and what is queued for it belongs to messages that were sent.
LEMMA AskingPiece ==
  ASSUME NEW l, NEW q, QueueOK(l, q), NEW n \in 1 .. Len(q), q[n].cmd # "cancel"
  PROVE  IsPiece(l, q[n], Of(q[n].data)) /\ Of(q[n].data) \in 1 .. Len(l)
BY Zenon DEF QueueOK, IsCancel, IsPiece

LEMMA WritingPiece ==
  ASSUME NEW l, NEW me, WritesOK(l, me), NEW n \in 1 .. Len(me.toWrite), me.toWrite[n].cmd # "cancel"
  PROVE  IsPiece(l, me.toWrite[n], me.id) /\ me.id \in 1 .. Len(l)
BY Zenon DEF WritesOK, IsCancel, IsPiece

LEMMA AskedReceived ==
  ASSUME NEW l, Log(l), NEW me \in Programs, Mine(l, me), WritesOK(l, me),
         me.phase = "waiting", me.cmd # "init",
         NEW q, QueueOK(l, q), NEW r, NEW s, NEW h, Asked(me, q, r, s, h),
         NEW t, Rest(q, t), NEW r2, NEW s2, Effect(l, q[1], r, s, r2, s2)
  PROVE  Asked(me, t, r2, s2, h)
<1> DEFINE c == me.channel
           p == q[1]
           m == me.id
<1>0. /\ Len(q) \in Nat \ {0} /\ Len(t) = Len(q) - 1 /\ 1 \in 1 .. Len(q)
      /\ \A n \in 1 .. Len(t) : n + 1 \in 1 .. Len(q) /\ t[n] = q[n + 1]
  BY DEF Rest
<1>1. CASE ~ Asks(p, c)
  <2>1. r2.active /\ r2.cid = c => r2 = r
    BY <1>1 DEF Effect, Gathers, Asks
  <2>2. s2.active /\ s2.cid = c => s2 = s
    BY <1>1 DEF Effect, Objects, Replied, Asks
  <2>3. QED
    BY <2>1, <2>2, AskedLess
<1>2. CASE Asks(p, c)
  <2>1. InOrder(me, q, r) /\ ~ Settled(me, q, r)
    BY <1>0, <1>2 DEF Asked, Settled
  <2>2. ~ Responds(me, s) /\ ~ Reports(me, h) /\ ~ me.got.active
    BY <2>1, Zenon DEF Asked
  <2>3. p.cid = c /\ p.cmd # "cancel" /\ Of(p.data) = m
    BY <1>0, <1>2, <2>1 DEF InOrder, Asks
  <2>4. \A n \in 1 .. Len(t) : Asks(t[n], c) => Of(t[n].data) = m /\ Rank(p) < Rank(t[n])
    <3> SUFFICES ASSUME NEW n \in 1 .. Len(t), Asks(t[n], c)
                 PROVE  Of(t[n].data) = m /\ Rank(p) < Rank(t[n])
      OBVIOUS
    <3>1. n + 1 \in 1 .. Len(q) /\ 1 < n + 1 /\ t[n] = q[n + 1]
      BY <1>0
    <3>2. QED
      BY <1>0, <1>2, <2>1, <3>1 DEF InOrder
  <2>5. \A k \in 1 .. Len(me.toWrite) : me.toWrite[k].cmd # "cancel" => Rank(p) < Rank(me.toWrite[k])
    BY <1>0, <1>2, <2>1 DEF InOrder
  <2>6. InOrder(me, t, r2)
    <3>1. \A n, k \in 1 .. Len(t) : Asks(t[n], c) /\ Asks(t[k], c) /\ n < k => Rank(t[n]) < Rank(t[k])
      <4> SUFFICES ASSUME NEW n \in 1 .. Len(t), NEW k \in 1 .. Len(t), Asks(t[n], c), Asks(t[k], c), n < k
                   PROVE  Rank(t[n]) < Rank(t[k])
        OBVIOUS
      <4>1. n + 1 \in 1 .. Len(q) /\ k + 1 \in 1 .. Len(q) /\ n + 1 < k + 1 /\ t[n] = q[n + 1] /\ t[k] = q[k + 1]
        BY <1>0
      <4>2. QED
        BY <2>1, <4>1 DEF InOrder
    <3>2. \A n \in 1 .. Len(t), k \in 1 .. Len(me.toWrite) :
            Asks(t[n], c) /\ me.toWrite[k].cmd # "cancel" => Rank(t[n]) < Rank(me.toWrite[k])
      BY <1>0, <2>1 DEF InOrder
    <3>3. \A n, k \in 1 .. Len(me.toWrite) : n < k => Rank(me.toWrite[n]) < Rank(me.toWrite[k])
      BY <2>1 DEF InOrder
    <3>4. r2.active /\ r2.cid = c =>
            /\ Of(r2.data) = m
            /\ \A n \in 1 .. Len(t) : Asks(t[n], c) => r2.seq < Rank(t[n])
            /\ \A k \in 1 .. Len(me.toWrite) : me.toWrite[k].cmd # "cancel" => r2.seq < Rank(me.toWrite[k])
      <4> SUFFICES ASSUME r2.active, r2.cid = c
                   PROVE  Of(r2.data) = m /\ r2.seq = Rank(p)
        BY <2>4, <2>5
      <4>1. Of(r2.data) = Of(p.data) /\ r2.seq = Rank(p)
        BY <2>3 DEF Effect, Gathers
      <4>2. QED
        BY <2>3, <4>1
    <3>5. QED
      BY <2>4, <3>1, <3>2, <3>3, <3>4 DEF InOrder
  <2>7. /\ m \in 1 .. Len(l) /\ l[m].cmd = me.cmd /\ me.cmd \in {"ping", "cbor"}
        /\ l[m].data = Message(m, me.len) /\ me.len \in Nat \ {0} /\ Len(l[m].data) = me.len
    <3>1. /\ m \in 1 .. Len(l) /\ l[m].cmd = me.cmd /\ me.cmd \in {"ping", "cbor"}
          /\ l[m].data = Message(m, me.len) /\ me.len \in Nat
      BY DEF Mine, Programs
    <3>2. m \in 0 .. MaxSent /\ Len(l[m].data) \in Nat \ {0}
      BY <3>1, SentType
    <3>3. Len(Message(m, me.len)) = me.len
      BY <3>1, <3>2, MessageProperty
    <3>4. QED
      BY <3>1, <3>2, <3>3
  <2>8. CASE Replied(l, p, r2, s2)
    <3>1. /\ ~ r2.active /\ s2.cmd = "ping" /\ s2.sent = 0 /\ s2.data = l[m].data /\ me.cmd = "ping"
          /\ Len(l[m].data) <= Offset(Rank(p) + 1)
      BY <2>3, <2>7, <2>8 DEF Replied
    <3>2. Rank(p) \in Nat
      BY <1>0, <2>3, AskingPiece, PieceRank
    <3>3. \A x : IsPiece(l, x, m) => ~ (Rank(p) < Rank(x))
      <4> TAKE x
      <4> HAVE IsPiece(l, x, m)
      <4>1. Rank(x) <= Rank(p) /\ Rank(x) \in Nat
        BY <2>7, <3>1, <3>2, Exhausted, PieceRank
      <4>2. QED
        BY <3>2, <4>1
    <3>4. \A n \in 1 .. Len(t) : ~ Asks(t[n], c)
      <4> SUFFICES ASSUME NEW n \in 1 .. Len(t), Asks(t[n], c) PROVE FALSE
        OBVIOUS
      <4>1. n + 1 \in 1 .. Len(q) /\ t[n] = q[n + 1] /\ t[n].cmd # "cancel" /\ Of(t[n].data) = m
        BY <1>0, <2>4 DEF Asks
      <4>2. IsPiece(l, t[n], m)
        BY <4>1, AskingPiece
      <4>3. QED
        BY <2>4, <3>3, <4>2
    <3>5. \A k \in 1 .. Len(me.toWrite) : me.toWrite[k].cmd = "cancel"
      <4> SUFFICES ASSUME NEW k \in 1 .. Len(me.toWrite), me.toWrite[k].cmd # "cancel" PROVE FALSE
        OBVIOUS
      <4>1. IsPiece(l, me.toWrite[k], m)
        BY WritingPiece
      <4>2. QED
        BY <2>5, <3>3, <4>1
    <3>6. Settled(me, t, r2) /\ ~ Errs(me, s2)
      BY <3>1, <3>4, <3>5 DEF Settled, Errs
    <3>7. Echo(me, s2, h, me.len)
      <4>1. NextRank(s2) = 0 /\ Offset(0) = 0
        BY <3>1, OffsetProperty DEF NextRank
      <4>2. QED
        BY <2>2, <2>7, <3>1, <4>1 DEF Echo
    <3>8. QED
      BY <2>6, <2>7, <3>6, <3>7 DEF Asked
  <2>9. CASE s2 = s \/ Objects(p, s2)
    <3>1. ~ Responds(me, s2)
      BY <2>2, <2>9 DEF Objects, Responds
    <3>2. Echo(me, s2, h, me.len)
      BY <2>2, <3>1 DEF Echo
    <3>3. QED
      BY <2>2, <2>6, <2>7, <3>1, <3>2 DEF Asked
  <2>10. QED
    BY <2>8, <2>9 DEF Effect
<1>3. QED
  BY <1>1, <1>2

\* An INIT is carried out by its first packet.
LEMMA HailWhole ==
  ASSUME NEW l, Log(l), NEW me, Mine(l, me), me.phase # "closed", me.cmd = "init",
         NEW r \in Requests, Gathered(l, r), Of(r.data) = me.id
  PROVE  ~ (Len(r.data) < r.len) /\ r.cmd = "init"
<1> DEFINE d == l[me.id].data
           k == Offset(r.seq + 1)
<1>1. /\ me.id \in 1 .. Len(l) /\ d = Message(me.id, me.len) /\ me.len = NonceLength
      /\ l[me.id].cmd = "init"
  BY DEF Mine
<1>2. me.id \in 0 .. MaxSent /\ d \in Data
  BY <1>1, SentType
<1>3. Len(d) = NonceLength
  BY <1>1, <1>2, Sizes, MessageProperty
<1>4. r.len = Len(d) /\ r.data = Prefix(d, k) /\ r.cmd = "init"
  BY <1>1 DEF Gathered
<1>5. k \in Nat /\ InitPayload <= k
  <2>1. r.seq + 1 \in Nat /\ 1 <= r.seq + 1 /\ 1 \in Nat
    BY DEF Requests
  <2>2. Offset(1) = InitPayload /\ Offset(r.seq + 1) \in Nat /\ Offset(1) <= Offset(r.seq + 1)
    BY <2>1, OffsetProperty
  <2>3. QED
    BY <2>2
<1>6. Len(d) <= k
  BY <1>3, <1>5, Sizes
<1> HIDE DEF d, k
<1>7. r.data = d
  BY <1>2, <1>4, <1>5, <1>6, PrefixWhole
<1>8. Len(d) \in Nat
  BY <1>2 DEF Data
<1>9. QED
  BY <1>4, <1>7, <1>8

LEMMA HailedReceived ==
  ASSUME NEW l, Log(l), NEW me \in Programs, Mine(l, me), me.phase = "waiting", me.cmd = "init",
         NEW q, NEW r, NEW s, NEW h, Hailed(me, q, r, s, h),
         NEW t, Rest(q, t), NEW r2 \in Requests, NEW s2, Effect(l, q[1], r, s, r2, s2),
         r2.active => Gathered(l, r2)
  PROVE  Hailed(me, t, r2, s2, h)
<1> DEFINE c == me.channel
           p == q[1]
           m == me.id
<1>0. /\ Len(q) \in Nat \ {0} /\ Len(t) = Len(q) - 1 /\ 1 \in 1 .. Len(q)
      /\ \A n \in 1 .. Len(t) : n + 1 \in 1 .. Len(q) /\ t[n] = q[n + 1]
  BY DEF Rest
<1>1. \A n \in 1 .. Len(q) : Hails(me, q[n]) =>
        /\ ~ Welcome(me, s, h)
        /\ \A k \in n + 1 .. Len(q) : ~ Hails(me, q[k]) /\ (c # 0 => q[k].cid # c)
  BY Zenon DEF Hailed
<1>2. s2 = s \/ ~ Welcomes(me, s2) \/ (Hails(me, p) /\ ~ r2.active)
  <2> SUFFICES ASSUME s2 # s, Welcomes(me, s2) PROVE Hails(me, p) /\ ~ r2.active
    OBVIOUS
  <2>1. ~ Objects(p, s2)
    BY DEF Objects, Welcomes
  <2>2. Replied(l, p, r2, s2)
    BY <2>1 DEF Effect
  <2>3. QED
    BY <2>2 DEF Replied, Welcomes, Hails, Asks
<1>3. Hails(me, p) => /\ ~ Welcome(me, s, h)
                      /\ \A n \in 1 .. Len(t) : ~ Hails(me, t[n]) /\ (c # 0 => t[n].cid # c)
  <2> SUFFICES ASSUME Hails(me, p)
               PROVE  /\ ~ Welcome(me, s, h)
                      /\ \A n \in 1 .. Len(t) : ~ Hails(me, t[n]) /\ (c # 0 => t[n].cid # c)
    OBVIOUS
  <2>1. /\ ~ Welcome(me, s, h)
        /\ \A k \in 1 + 1 .. Len(q) : ~ Hails(me, q[k]) /\ (c # 0 => q[k].cid # c)
    BY <1>0, <1>1
  <2>2. \A n \in 1 .. Len(t) : n + 1 \in 1 + 1 .. Len(q)
    BY <1>0
  <2>3. QED
    BY <1>0, <2>1, <2>2
<1>4. Len(me.toWrite) <= 1
  BY DEF Hailed
<1>5. me.toWrite # <<>> => ~ Welcome(me, s2, h) /\ \A n \in 1 .. Len(t) : ~ Hails(me, t[n])
  <2> SUFFICES ASSUME me.toWrite # <<>>
               PROVE  ~ Welcome(me, s2, h) /\ \A n \in 1 .. Len(t) : ~ Hails(me, t[n])
    OBVIOUS
  <2>1. ~ Welcome(me, s, h) /\ \A n \in 1 .. Len(q) : ~ Hails(me, q[n])
    BY Zenon DEF Hailed
  <2>2. QED
    BY <1>0, <1>2, <2>1 DEF Welcome
<1>6. \A n \in 1 .. Len(t) : Hails(me, t[n]) =>
        /\ ~ Welcome(me, s2, h)
        /\ \A k \in n + 1 .. Len(t) : ~ Hails(me, t[k]) /\ (c # 0 => t[k].cid # c)
  <2> SUFFICES ASSUME NEW n \in 1 .. Len(t), Hails(me, t[n])
               PROVE  /\ ~ Welcome(me, s2, h)
                      /\ \A k \in n + 1 .. Len(t) : ~ Hails(me, t[k]) /\ (c # 0 => t[k].cid # c)
    OBVIOUS
  <2>1. n + 1 \in 1 .. Len(q) /\ t[n] = q[n + 1]
    BY <1>0
  <2>2. /\ ~ Welcome(me, s, h)
        /\ \A k \in (n + 1) + 1 .. Len(q) : ~ Hails(me, q[k]) /\ (c # 0 => q[k].cid # c)
    BY <1>1, <2>1
  <2>3. ~ Hails(me, p)
    BY <1>3
  <2>4. ~ Welcome(me, s2, h)
    BY <1>2, <2>2, <2>3 DEF Welcome
  <2>5. \A k \in n + 1 .. Len(t) : k + 1 \in (n + 1) + 1 .. Len(q) /\ t[k] = q[k + 1]
    BY <1>0
  <2>6. QED
    BY <2>2, <2>4, <2>5
<1>7. r2.active /\ r2.cid = Post(me) => Of(r2.data) # m
  <2> SUFFICES ASSUME r2.active, r2.cid = Post(me), Of(r2.data) = m PROVE FALSE
    OBVIOUS
  <2>1. r2 # r
    BY DEF Hailed
  <2>2. Len(r2.data) < r2.len \/ r2.cmd = "cbor"
    BY <2>1 DEF Effect, Gathers
  <2>3. me.phase # "closed"
    OBVIOUS
  <2>4. QED
    BY <2>2, <2>3, HailWhole
<1>8. c # 0 /\ Welcome(me, s2, h) =>
        /\ \A n \in 1 .. Len(t) : t[n].cid # c
        /\ ~ (r2.active /\ r2.cid = c)
        /\ h # <<>> /\ Welcomes(me, Head(h)) => ~ (s2.active /\ s2.cid = c)
  <2> SUFFICES ASSUME c # 0, Welcome(me, s2, h)
               PROVE  /\ \A n \in 1 .. Len(t) : t[n].cid # c
                      /\ ~ (r2.active /\ r2.cid = c)
                      /\ h # <<>> /\ Welcomes(me, Head(h)) => ~ (s2.active /\ s2.cid = c)
    OBVIOUS
  <2>1. CASE Welcome(me, s, h)
    <3>1. /\ \A n \in 1 .. Len(q) : q[n].cid # c
          /\ ~ (r.active /\ r.cid = c)
          /\ h # <<>> /\ Welcomes(me, Head(h)) => ~ (s.active /\ s.cid = c)
      BY <2>1, Zenon DEF Hailed
    <3>2. p.cid # c
      BY <1>0, <3>1
    <3>3. ~ (r2.active /\ r2.cid = c)
      BY <3>1, <3>2 DEF Effect, Gathers
    <3>4. s2 = s \/ s2.cid # c
      BY <3>2 DEF Effect, Objects, Replied
    <3>5. QED
      BY <1>0, <3>1, <3>3, <3>4
  <2>2. CASE ~ Welcome(me, s, h)
    <3>1. Hails(me, p) /\ ~ r2.active /\ ~ (h # <<>> /\ Welcomes(me, Head(h)))
      BY <1>2, <2>2 DEF Welcome
    <3>2. QED
      BY <1>3, <3>1
  <2>3. QED
    BY <2>1, <2>2
<1>9. QED
  BY <1>4, <1>5, <1>6, <1>7, <1>8, Zenon DEF Hailed

LEMMA ProgramReceived ==
  ASSUME NEW l, Log(l), NEW me \in Programs, Mine(l, me), WritesOK(l, me),
         NEW q, QueueOK(l, q), NEW r, NEW s, NEW h, ProgramAnswered(me, q, r, s, h),
         NEW t, Rest(q, t), NEW r2 \in Requests, NEW s2, Effect(l, q[1], r, s, r2, s2),
         r2.active => Gathered(l, r2)
  PROVE  ProgramAnswered(me, t, r2, s2, h)
<1>1. me.phase \in {"ready", "answered"} => Quiet(me, t, r2, s2, h)
  BY QuietReceived, Zenon DEF ProgramAnswered
<1>2. me.phase = "answered" => Answered(me)
  BY Zenon DEF ProgramAnswered
<1>3. ASSUME me.phase = "waiting", me.cmd # "init" PROVE Asked(me, t, r2, s2, h)
  <2>1. Asked(me, q, r, s, h)
    BY <1>3, Zenon DEF ProgramAnswered
  <2>2. QED
    BY <1>3, <2>1, AskedReceived
<1>4. ASSUME me.phase = "waiting", me.cmd = "init" PROVE Hailed(me, t, r2, s2, h)
  <2>1. Hailed(me, q, r, s, h)
    BY <1>4, Zenon DEF ProgramAnswered
  <2>2. QED
    BY <1>4, <2>1, HailedReceived
<1>5. QED
  BY <1>1, <1>2, <1>3, <1>4, Zenon DEF ProgramAnswered

--------------------------------------------------------------------------------
(* What the device sends                                                     *)

\* The response that is left when its next packet has been sent.
Remaining(s) ==
  IF Len(s.data) - s.sent - Len(NextData(s)) = 0 THEN NoReply ELSE NextReply(s)

LEMMA RemainingType ==
  ASSUME NEW s \in Replies, ReplyOK(s), s.active, NEW x, x = Remaining(s)
  PROVE  \/ x = NoReply
         \/ /\ x.active /\ x.cid = s.cid /\ x.cmd = s.cmd /\ x.data = s.data
            /\ x.seq = IF s.sent = 0 THEN 0 ELSE s.seq + 1
            /\ x.sent = s.sent + IF s.sent = 0 THEN InitPayload ELSE ContPayload
            /\ x.sent < Len(x.data)
<1> DEFINE d == NextData(s)
<1>1. d \in Data /\ Len(d) \in Nat /\ s.sent + Len(d) <= Len(s.data)
  BY NextDataType
<1>2. s.sent + Len(d) < Len(s.data) => Len(d) = IF s.sent = 0 THEN InitPayload ELSE ContPayload
  BY NextDataType
<1>3. s.sent \in Nat /\ Len(s.data) \in Nat
  BY DEF Replies, Data
<1>4. x = IF Len(s.data) - s.sent - Len(d) = 0 THEN NoReply ELSE NextReply(s)
  BY DEF Remaining
<1>5. NextReply(s) = [s EXCEPT !.sent = @ + Len(d), !.seq = IF s.sent = 0 THEN 0 ELSE @ + 1]
  BY DEF NextReply
<1> HIDE DEF d
<1>6. CASE Len(s.data) - s.sent - Len(d) = 0
  BY <1>4, <1>6
<1>7. CASE ~ (Len(s.data) - s.sent - Len(d) = 0)
  <2>1. x = [s EXCEPT !.sent = @ + Len(d), !.seq = IF s.sent = 0 THEN 0 ELSE @ + 1]
    BY <1>4, <1>5, <1>7
  <2>2. /\ x.active = s.active /\ x.cid = s.cid /\ x.cmd = s.cmd /\ x.data = s.data
        /\ x.seq = (IF s.sent = 0 THEN 0 ELSE s.seq + 1) /\ x.sent = s.sent + Len(d)
    BY <2>1 DEF Replies
  <2>3. s.sent + Len(d) < Len(s.data)
    BY <1>1, <1>3, <1>7
  <2>4. QED
    BY <1>2, <2>2, <2>3
<1>8. QED
  BY <1>6, <1>7

\* A reply to INIT takes one packet.
LEMMA HandshakeSent ==
  ASSUME NEW s \in Replies, ReplyOK(s), s.active, s.cmd = "init"
  PROVE  Remaining(s) = NoReply
<1> DEFINE x == Remaining(s)
<1>1. s.sent = 0 /\ Len(s.data) = NonceLength + 1
  BY DEF ReplyOK, IsHandshake
<1>2. \/ x = NoReply
      \/ /\ x.data = s.data /\ x.sent = s.sent + (IF s.sent = 0 THEN InitPayload ELSE ContPayload)
         /\ x.sent < Len(x.data)
  BY RemainingType
<1> HIDE DEF x
<1>3. QED
  BY <1>1, <1>2, Sizes DEF x

LEMMA EchoSent ==
  ASSUME NEW s \in Replies, ReplyOK(s), s.active, NEW me \in Programs, NEW n \in Nat,
         s.cid = me.channel, s.cmd = me.cmd, s.data = Message(me.id, n), s.sent < n,
         s.sent = Offset(NextRank(s)), NEW x, x = NextPacket(s), NEW s2, s2 = Remaining(s)
  PROVE  /\ IsEcho(me, x, n, Rank(x))
         /\ s2.active => /\ s2.cid = s.cid /\ s2.cmd = s.cmd /\ s2.data = s.data /\ s2.sent < n
                         /\ s2.sent = Offset(NextRank(s2)) /\ NextRank(s2) = Rank(x) + 1
<1> DEFINE d == s.data
           k == NextRank(s)
<1>1. Len(d) = n /\ d \in Data
  <2>1. me.id \in 0 .. MaxSent
    BY DEF Programs
  <2>2. QED
    BY <2>1, MessageProperty
<1>2. s.sent \in Nat /\ s.seq \in Nat
  BY DEF Replies
<1>3. k \in Nat /\ (k = 0 <=> s.sent = 0) /\ (k # 0 => s.seq = k - 1)
  BY <1>2 DEF NextRank
<1>4. /\ x.data = NextData(s)
      /\ s.sent = 0 => x.init /\ x.cmd = s.cmd /\ x.len = Len(d)
      /\ s.sent # 0 => ~ x.init /\ x.seq = s.seq
  BY NextPacketType
<1>5. Rank(x) = k
  BY <1>3, <1>4 DEF Rank
<1>6. Offset(0) = 0 /\ Offset(1) = InitPayload /\ (k # 0 => Offset(k + 1) = Offset(k) + ContPayload)
  BY <1>3, OffsetProperty
<1> HIDE DEF k
<1>7. k = 0 => x.data = Prefix(d, InitPayload)
  <2> SUFFICES ASSUME k = 0 PROVE NextData(s) = Prefix(d, InitPayload)
    BY <1>4
  <2>1. s.sent = 0 /\ 0 + 1 = 1 /\ 0 + InitPayload = InitPayload
    BY <1>3, Sizes
  <2>2. NextData(s) = SubSeq(d, 1, Min({Len(d), InitPayload}))
    BY <2>1 DEF NextData
  <2>3. {Len(d), InitPayload} = {InitPayload, Len(d)}
    OBVIOUS
  <2>4. QED
    BY <2>2, <2>3 DEF Prefix
<1>8. k # 0 => x.data = Part(d, k)
  <2> SUFFICES ASSUME k # 0 PROVE NextData(s) = Part(d, k)
    BY <1>4
  <2>1. s.sent # 0 /\ s.sent = Offset(k) /\ Offset(k + 1) = s.sent + ContPayload
    BY <1>3, <1>6 DEF k
  <2>2. NextData(s) = SubSeq(d, s.sent + 1, Min({Len(d), s.sent + ContPayload}))
    BY <2>1 DEF NextData
  <2>3. QED
    BY <2>1, <2>2 DEF Part
<1>9. IsEcho(me, x, n, k)
  BY <1>1, <1>3, <1>4, <1>7, <1>8 DEF IsEcho, k
<1>10. ASSUME s2.active
       PROVE  /\ s2.cid = s.cid /\ s2.cmd = s.cmd /\ s2.data = s.data /\ s2.sent < n
              /\ s2.sent = Offset(NextRank(s2)) /\ NextRank(s2) = k + 1
  <2>1. s2 # NoReply
    BY <1>10 DEF NoReply
  <2>2. /\ s2.cid = s.cid /\ s2.cmd = s.cmd /\ s2.data = s.data
        /\ s2.seq = (IF s.sent = 0 THEN 0 ELSE s.seq + 1)
        /\ s2.sent = s.sent + (IF s.sent = 0 THEN InitPayload ELSE ContPayload)
        /\ s2.sent < Len(s2.data)
    BY <2>1, RemainingType
  <2>3. s2.sent # 0
    BY <1>2, <2>2, Sizes
  <2>4. NextRank(s2) = s2.seq + 1
    BY <2>3 DEF NextRank
  <2>5. NextRank(s2) = k + 1
    BY <1>2, <1>3, <2>2, <2>4
  <2>6. s2.sent = Offset(k + 1)
    BY <1>2, <1>3, <1>6, <2>2, Sizes DEF k
  <2>7. QED
    BY <1>1, <2>2, <2>5, <2>6
<1>11. QED
  BY <1>5, <1>9, <1>10

\* What the device says of itself holds of a report and of what is left of the response.
LEMMA SpokenSent ==
  ASSUME NEW l, NEW s \in Replies, ReplyOK(s), s.active, SpokenOK(l, s, <<>>),
         NEW x, x = NextPacket(s), NEW s2, s2 = Remaining(s)
  PROVE  /\ s2.active => s2.cid = s.cid /\ s2.cmd = s.cmd
         /\ ~ (s2.active /\ s2.cmd \in {"init", "error"})
         /\ x.cmd \in {"init", "error"} => s.sent = 0 /\ x.init /\ s.cmd = x.cmd
         /\ s.cmd = "init" => Of(x.data) = Of(s.data)
         /\ SpokenOK(l, s2, <<x>>)
<1> DEFINE h == <<x>>
<1>0. h # <<>> /\ Head(h) = x
  OBVIOUS
<1> HIDE DEF h
<1>1. /\ x \in Packets /\ x.cid = s.cid /\ x.data = NextData(s)
      /\ s.sent = 0 => x.init /\ x.cmd = s.cmd /\ x.len = Len(s.data)
      /\ s.sent # 0 => ~ x.init /\ x.cmd = "none" /\ x.seq = s.seq
  BY NextPacketType
<1>2. \/ s2 = NoReply
      \/ /\ s2.active /\ s2.cid = s.cid /\ s2.cmd = s.cmd /\ s2.data = s.data
         /\ s2.sent = s.sent + (IF s.sent = 0 THEN InitPayload ELSE ContPayload)
         /\ s2.sent < Len(s2.data)
  BY RemainingType
<1>3. ~ NoReply.active
  BY DEF NoReply
<1>4. s2.active => s2.cid = s.cid /\ s2.cmd = s.cmd
  BY <1>2, <1>3
<1>5. ~ (s2.active /\ s2.cmd \in {"init", "error"})
  <2> SUFFICES ASSUME s2.active, s2.cmd \in {"init", "error"} PROVE FALSE
    OBVIOUS
  <2>1. s.cmd \in {"init", "error"}
    BY <1>4
  <2>2. CASE s.cmd = "init"
    BY <1>3, <2>2, HandshakeSent
  <2>3. CASE s.cmd = "error"
    <3>1. s.sent = 0 /\ Len(s.data) = 1
      BY <2>3 DEF SpokenOK
    <3>2. s2 # NoReply
      BY <1>3
    <3>3. /\ s2.data = s.data /\ s2.sent < Len(s2.data)
          /\ s2.sent = s.sent + (IF s.sent = 0 THEN InitPayload ELSE ContPayload)
      BY <1>2, <3>2, Zenon
    <3>4. (IF s.sent = 0 THEN InitPayload ELSE ContPayload) = InitPayload
      BY <3>1
    <3>5. s2.sent = s.sent + InitPayload
      BY <3>3, <3>4, Zenon
    <3>6. Len(s2.data) = 1
      BY <3>1, <3>3, Zenon
    <3>7. s2.sent = 0 + InitPayload /\ s2.sent < 1
      BY <3>1, <3>3, <3>5, <3>6, Zenon
    <3>8. QED
      BY <3>7, Sizes
  <2>4. QED
    BY <2>1, <2>2, <2>3
<1>6. x.cmd \in {"init", "error"} => s.sent = 0 /\ x.init /\ s.cmd = x.cmd
  BY <1>1
<1>7. s.cmd = "init" => Of(x.data) = Of(s.data)
  <2> SUFFICES ASSUME s.cmd = "init" PROVE Of(NextData(s)) = Of(s.data)
    BY <1>1
  <2>1. s.sent = 0 /\ Len(s.data) = NonceLength + 1
    BY DEF ReplyOK, IsHandshake
  <2> DEFINE d == NextData(s)
  <2>2. /\ Len(d) \in Nat /\ s.sent + Len(d) <= Len(s.data)
        /\ s.sent + Len(d) < Len(s.data) => Len(d) = IF s.sent = 0 THEN InitPayload ELSE ContPayload
        /\ \A k \in 1 .. Len(d) : d[k] = s.data[s.sent + k]
    BY NextDataType
  <2> HIDE DEF d
  <2>3. 1 \in 1 .. Len(d) /\ s.sent + 1 = 1
    BY <2>1, <2>2, Sizes
  <2>4. QED
    BY <2>2, <2>3 DEF Of, d
<1>8. SpokenOK(l, s2, h)
  <2>1. x.cmd = "init" => Of(x.data) \in 1 .. Len(l)
    BY <1>6, <1>7 DEF SpokenOK
  <2>2. x.cmd = "error" => x.init /\ Len(x.data) >= x.len
    <3> SUFFICES ASSUME x.cmd = "error" PROVE Len(NextData(s)) >= Len(s.data)
      BY <1>1, <1>6
    <3>1. s.sent = 0 /\ Len(s.data) = 1
      BY <1>6 DEF SpokenOK
    <3> DEFINE d == NextData(s)
    <3>2. /\ Len(d) \in Nat /\ s.sent + Len(d) <= Len(s.data)
          /\ s.sent + Len(d) < Len(s.data) => Len(d) = IF s.sent = 0 THEN InitPayload ELSE ContPayload
      BY NextDataType
    <3> HIDE DEF d
    <3>3. Len(d) >= Len(s.data)
      BY <3>1, <3>2, Sizes
    <3>4. QED
      BY <3>3 DEF d
  <2>3. QED
    BY <1>0, <1>5, <2>1, <2>2 DEF SpokenOK
<1>9. QED
  BY <1>4, <1>5, <1>6, <1>7, <1>8, Zenon DEF h

\* The report takes the place of none, and the packet in it is of the response.
LEMMA ProgramSent ==
  ASSUME NEW l, NEW me \in Programs, ProgramOK(me),
         NEW q, NEW r, NEW s \in Replies, ReplyOK(s), s.active, SpokenOK(l, s, <<>>),
         ProgramAnswered(me, q, r, s, <<>>),
         NEW x, x = NextPacket(s), NEW s2, s2 = Remaining(s)
  PROVE  ProgramAnswered(me, q, r, s2, <<x>>)
<1> DEFINE c == me.channel
           h == <<x>>
<1>0. h # <<>> /\ Head(h) = x
  OBVIOUS
<1> HIDE DEF h
<1>1. /\ x \in Packets /\ x.cid = s.cid /\ x.data = NextData(s)
      /\ s.sent = 0 => x.init /\ x.cmd = s.cmd /\ x.len = Len(s.data)
      /\ s.sent # 0 => ~ x.init /\ x.cmd = "none" /\ x.seq = s.seq
  BY NextPacketType
<1>3. ~ NoReply.active
  BY DEF NoReply
<1>4. /\ s2.active => s2.cid = s.cid /\ s2.cmd = s.cmd
      /\ ~ (s2.active /\ s2.cmd \in {"init", "error"})
      /\ x.cmd \in {"init", "error"} => s.sent = 0 /\ x.init /\ s.cmd = x.cmd
      /\ s.cmd = "init" => Of(x.data) = Of(s.data)
  BY SpokenSent
<1>9. ASSUME Quiet(me, q, r, s, <<>>) PROVE Quiet(me, q, r, s2, h)
  BY <1>0, <1>1, <1>4, <1>9 DEF Quiet
<1>10. ASSUME Hailed(me, q, r, s, <<>>) PROVE Hailed(me, q, r, s2, h)
  <2>1. ~ (s2.active /\ Welcomes(me, s2))
    BY <1>4 DEF Welcomes
  <2>2. Welcomes(me, x) => Welcomes(me, s)
    BY <1>1, <1>4 DEF Welcomes
  <2>3. Welcome(me, s2, h) => Welcome(me, s, <<>>) /\ ~ s2.active
    <3> SUFFICES ASSUME Welcome(me, s2, h) PROVE Welcomes(me, s) /\ ~ s2.active
      BY DEF Welcome
    <3>1. Welcomes(me, x) /\ Welcomes(me, s)
      BY <1>0, <2>1, <2>2 DEF Welcome
    <3>2. s.cmd = "init"
      BY <3>1 DEF Welcomes
    <3>3. QED
      BY <1>3, <3>1, <3>2, HandshakeSent
  <2>4. QED
    BY <1>10, <2>3, Zenon DEF Hailed
<1>11. ASSUME Asked(me, q, r, s, <<>>) PROVE Asked(me, q, r, s2, h)
  <2>1. PICK n \in Nat : Echo(me, s, <<>>, n)
    BY <1>11 DEF Asked
  <2>2. InOrder(me, q, r)
    BY <1>11 DEF Asked
  <2>3. CASE Responds(me, s)
    <3>1. /\ s.cid = c /\ s.cmd = me.cmd /\ s.data = Message(me.id, n)
          /\ s.sent = Offset(NextRank(s)) /\ s.sent < n
      BY <2>1, <2>3 DEF Echo, Responds
    <3>2. /\ IsEcho(me, x, n, Rank(x))
          /\ s2.active => /\ s2.cid = s.cid /\ s2.cmd = s.cmd /\ s2.data = s.data /\ s2.sent < n
                          /\ s2.sent = Offset(NextRank(s2)) /\ NextRank(s2) = Rank(x) + 1
      BY <3>1, EchoSent
    <3>3. Settled(me, q, r)
      BY <1>11, <2>3 DEF Asked
    <3>4. ~ Errs(me, s2)
      BY <1>4 DEF Errs
    <3>5. Responds(me, s2) => /\ s2.cmd = me.cmd /\ s2.data = Message(me.id, n)
                              /\ s2.sent = Offset(NextRank(s2)) /\ s2.sent < n
                              /\ NextRank(s2) = Rank(x) + 1
      BY <3>1, <3>2 DEF Responds
    <3>6. Echo(me, s2, h, n)
      BY <1>0, <2>1, <3>2, <3>5, Zenon DEF Echo
    <3>7. QED
      BY <2>2, <3>3, <3>4, <3>6 DEF Asked
  <2>4. CASE ~ Responds(me, s)
    <3>1. s.cid # c \/ s.cmd = "error"
      BY <2>4 DEF Responds
    <3>2. ~ Responds(me, s2) /\ ~ Errs(me, s2)
      BY <1>4, <3>1 DEF Responds, Errs
    <3>3. ~ Reports(me, h)
      <4>1. CASE s.cid # c
        BY <1>0, <1>1, <4>1 DEF Reports
      <4>2. CASE s.cmd = "error"
        <5>1. s.sent = 0
          BY <4>2 DEF SpokenOK
        <5>2. QED
          BY <1>0, <1>1, <4>2, <5>1 DEF Reports
      <4>3. QED
        BY <3>1, <4>1, <4>2
    <3>4. me.got.active => Settled(me, q, r)
      BY <1>11, Zenon DEF Asked
    <3>5. Echo(me, s2, h, n)
      BY <2>1, <3>2, <3>3, Zenon DEF Echo
    <3>6. QED
      BY <2>2, <3>2, <3>3, <3>4, <3>5, Zenon DEF Asked
  <2>5. QED
    BY <2>3, <2>4
<1>12. QED
  BY <1>9, <1>10, <1>11, Zenon DEF ProgramAnswered, h

\* While the user is asked, what the device reports is no answer.
LEMMA ProgramKept ==
  ASSUME NEW me, NEW q, NEW r, r.active, NEW s, ProgramAnswered(me, q, r, s, <<>>),
         NEW x, x.cid = r.cid, x.cmd = "keepalive"
  PROVE  ProgramAnswered(me, q, r, s, <<x>>)
<1> DEFINE h == <<x>>
<1>0. h # <<>> /\ Head(h) = x
  OBVIOUS
<1> HIDE DEF h
<1>2. ~ Reports(me, h) /\ ~ Reports(me, <<>>) /\ (Welcome(me, s, h) <=> Welcome(me, s, <<>>))
      /\ ~ Welcomes(me, Head(h))
  BY <1>0 DEF Reports, Welcome, Welcomes
<1>3. Quiet(me, q, r, s, <<>>) => Quiet(me, q, r, s, h)
  BY <1>0 DEF Quiet, Settled
<1>4. Asked(me, q, r, s, <<>>) => Asked(me, q, r, s, h)
  <2>1. \A n \in Nat : Echo(me, s, <<>>, n) => Echo(me, s, h, n)
    BY <1>2, Zenon DEF Echo
  <2>2. QED
    BY <1>2, <2>1, Zenon DEF Asked
<1>5. Hailed(me, q, r, s, <<>>) => Hailed(me, q, r, s, h)
  BY <1>2, Zenon DEF Hailed
<1>6. QED
  BY <1>3, <1>4, <1>5, Zenon DEF ProgramAnswered, h

LEMMA AnswerMessage ==
  ASSUME NEW r, r.data # <<>>, NEW n
  PROVE  Answer(r, n) = Message(Of(r.data), n)
BY DEF Answer, Message, Of

\* The answer to a CBOR command ends the request, and is the only one.
LEMMA ProgramFinished ==
  ASSUME NEW l, Log(l), NEW me \in Programs, Mine(l, me), WritesOK(l, me), NEW q, QueueOK(l, q),
         NEW r \in Requests, r.active, Gathered(l, r), r.cmd = "cbor", Len(r.data) >= r.len,
         NEW s, NEW h, ProgramAnswered(me, q, r, s, h), NEW n \in AnswerLengths,
         NEW s2, s2.active, s2.cid = r.cid, s2.cmd = "cbor", s2.sent = 0,
         s2.data = Prefix(Answer(r, n), MaxMessage)
  PROVE  ProgramAnswered(me, q, Idle, s2, h)
<1> DEFINE c == me.channel
           m == me.id
           k == Of(r.data)
<1>0. ~ Idle.active
  BY DEF Idle
<1>1. k \in 1 .. Len(l) /\ r.data = l[k].data /\ Len(l[k].data) <= Offset(r.seq + 1) /\ l[k].cmd = "cbor"
  <2>1. l[k].cmd = "cbor"
    BY DEF Gathered
  <2>2. k = Of(r.data)
    OBVIOUS
  <2> HIDE DEF k
  <2>3. k \in 1 .. Len(l) /\ r.data = l[k].data /\ Len(l[k].data) <= Offset(r.seq + 1)
    BY <2>2, GatheredAll
  <2>4. QED
    BY <2>1, <2>3
<1>2. n \in Nat \ {0} /\ n <= MaxMessage /\ MaxMessage \in Nat
  BY Sizes
<1>3. s2.data = Message(k, n)
  <2>1. Len(r.data) \in Nat \ {0}
    BY <1>1, SentType
  <2>2. r.data # <<>>
    BY <2>1
  <2>3. Answer(r, n) = Message(k, n)
    BY <2>2, AnswerMessage
  <2>4. k \in 0 .. MaxSent
    BY <1>1, SentType
  <2> HIDE DEF k
  <2>5. Message(k, n) \in Data /\ Len(Message(k, n)) = n
    BY <1>2, <2>4, MessageProperty
  <2>6. QED
    BY <1>2, <2>3, <2>5, PrefixWhole
<1>4. ASSUME Quiet(me, q, r, s, h) PROVE Quiet(me, q, Idle, s2, h)
  BY <1>0, <1>4 DEF Quiet, Settled
<1>5. ASSUME Hailed(me, q, r, s, h) PROVE Hailed(me, q, Idle, s2, h)
  <2>1. ~ Welcomes(me, s2)
    BY DEF Welcomes
  <2>2. Welcome(me, s2, h) => h # <<>> /\ Welcomes(me, Head(h)) /\ Welcome(me, s, h)
    BY <2>1 DEF Welcome
  <2>3. c # 0 /\ Welcome(me, s2, h) => ~ (s2.active /\ s2.cid = c)
    <3>1. c # 0 /\ Welcome(me, s, h) => ~ (r.active /\ r.cid = c)
      BY <1>5, Zenon DEF Hailed
    <3>2. QED
      BY <2>2, <3>1
  <2>4. QED
    BY <1>0, <1>5, <2>2, <2>3, Zenon DEF Hailed
<1>6. ASSUME Asked(me, q, r, s, h), me.phase = "waiting", me.cmd # "init" PROVE Asked(me, q, Idle, s2, h)
  <2>1. InOrder(me, q, r)
    BY <1>6 DEF Asked
  <2>2. InOrder(me, q, Idle)
    BY <1>0, <2>1, Zenon DEF InOrder
  <2>3. ~ Errs(me, s2)
    BY DEF Errs
  <2>4. CASE r.cid # c
    <3>1. ~ Responds(me, s2)
      BY <2>4 DEF Responds
    <3>2. \A j \in Nat : Echo(me, s, h, j) => Echo(me, s2, h, j)
      BY <3>1, Zenon DEF Echo
    <3>3. Settled(me, q, r) => Settled(me, q, Idle)
      BY <1>0, Zenon DEF Settled
    <3>4. QED
      BY <1>6, <2>2, <2>3, <3>1, <3>2, <3>3, Zenon DEF Asked
  <2>5. CASE r.cid = c
    <3>1. ~ Settled(me, q, r)
      BY <2>5 DEF Settled
    <3>2. ~ Reports(me, h) /\ ~ me.got.active
      BY <1>6, <3>1, Zenon DEF Asked
    <3>3. k = m /\ (\A j \in 1 .. Len(q) : Asks(q[j], c) => Of(q[j].data) = m /\ r.seq < Rank(q[j]))
      BY <2>1, <2>5 DEF InOrder
    <3>4. \A j \in 1 .. Len(me.toWrite) : me.toWrite[j].cmd # "cancel" => r.seq < Rank(me.toWrite[j])
      BY <2>1, <2>5 DEF InOrder
    <3>5. \A x : IsPiece(l, x, m) => ~ (r.seq < Rank(x))
      <4> TAKE x
      <4> HAVE IsPiece(l, x, m)
      <4>0. m \in 1 .. Len(l) /\ r.seq \in Nat /\ Len(l[m].data) <= Offset(r.seq + 1)
        BY <1>1, <3>3 DEF Requests
      <4>1. Rank(x) <= r.seq /\ Rank(x) \in Nat
        BY <4>0, Exhausted, PieceRank
      <4>2. QED
        BY <4>0, <4>1
    <3>6. \A j \in 1 .. Len(q) : ~ Asks(q[j], c)
      <4> SUFFICES ASSUME NEW j \in 1 .. Len(q), Asks(q[j], c) PROVE FALSE
        OBVIOUS
      <4>1. q[j].cmd # "cancel" /\ Of(q[j].data) = m
        BY <3>3 DEF Asks
      <4>2. IsPiece(l, q[j], m)
        BY <4>1, AskingPiece
      <4>3. QED
        BY <3>3, <3>5, <4>2
    <3>7. \A j \in 1 .. Len(me.toWrite) : me.toWrite[j].cmd = "cancel"
      <4> SUFFICES ASSUME NEW j \in 1 .. Len(me.toWrite), me.toWrite[j].cmd # "cancel" PROVE FALSE
        OBVIOUS
      <4>1. IsPiece(l, me.toWrite[j], m)
        BY WritingPiece
      <4>2. QED
        BY <3>4, <3>5, <4>1
    <3>8. Settled(me, q, Idle)
      BY <1>0, <3>6, <3>7, Zenon DEF Settled
    <3>9. me.cmd = "cbor"
      BY <1>1, <1>6, <3>3 DEF Mine
    <3>10. NextRank(s2) = 0 /\ Offset(0) = 0
      BY OffsetProperty DEF NextRank
    <3>11. Echo(me, s2, h, n)
      BY <1>2, <1>3, <3>2, <3>3, <3>9, <3>10 DEF Echo
    <3>12. QED
      BY <1>2, <2>2, <2>3, <3>8, <3>11 DEF Asked
  <2>6. QED
    BY <2>4, <2>5
<1>7. QED
  BY <1>4, <1>5, <1>6, Zenon DEF ProgramAnswered

--------------------------------------------------------------------------------
(* A packet written, by another program or by this one                       *)

Grown(q, t, x) == /\ Len(q) \in Nat /\ Len(t) = Len(q) + 1 /\ t[Len(t)] = x
                  /\ \A n \in 1 .. Len(q) : t[n] = q[n]

\* A packet of another program's changes nothing for this one.
LEMMA ProgramBeside ==
  ASSUME NEW me, NEW q, NEW r, NEW s, NEW h, ProgramAnswered(me, q, r, s, h),
         NEW x, x.cid # me.channel, ~ Hails(me, x), NEW t, Grown(q, t, x)
  PROVE  ProgramAnswered(me, t, r, s, h)
<1> DEFINE c == me.channel
<1>0. /\ Len(q) \in Nat /\ Len(t) = Len(q) + 1
      /\ \A n \in 1 .. Len(t) : (n \in 1 .. Len(q) /\ t[n] = q[n]) \/ (n = Len(t) /\ t[n] = x)
  BY DEF Grown
<1>1. ~ Asks(x, c)
  BY DEF Asks
<1>2. Settled(me, q, r) => Settled(me, t, r)
  <2> SUFFICES ASSUME Settled(me, q, r) PROVE \A n \in 1 .. Len(t) : ~ Asks(t[n], c)
    BY DEF Settled
  <2>1. QED
    BY <1>0, <1>1 DEF Settled
<1>3. ASSUME Quiet(me, q, r, s, h) PROVE Quiet(me, t, r, s, h)
  BY <1>2, <1>3, Zenon DEF Quiet
<1>4. ASSUME Asked(me, q, r, s, h) PROVE Asked(me, t, r, s, h)
  <2>1. InOrder(me, q, r)
    BY <1>4 DEF Asked
  <2>2. \A n \in 1 .. Len(t) : Asks(t[n], c) => n \in 1 .. Len(q) /\ t[n] = q[n]
    BY <1>0, <1>1
  <2>3. InOrder(me, t, r)
    <3>1. \A n \in 1 .. Len(t) : Asks(t[n], c) => Of(t[n].data) = me.id
      BY <2>1, <2>2 DEF InOrder
    <3>2. \A n, k \in 1 .. Len(t) : Asks(t[n], c) /\ Asks(t[k], c) /\ n < k => Rank(t[n]) < Rank(t[k])
      BY <2>1, <2>2 DEF InOrder
    <3>3. \A n \in 1 .. Len(t), k \in 1 .. Len(me.toWrite) :
            Asks(t[n], c) /\ me.toWrite[k].cmd # "cancel" => Rank(t[n]) < Rank(me.toWrite[k])
      BY <2>1, <2>2 DEF InOrder
    <3>4. r.active /\ r.cid = c => \A n \in 1 .. Len(t) : Asks(t[n], c) => r.seq < Rank(t[n])
      BY <2>1, <2>2 DEF InOrder
    <3>5. QED
      BY <2>1, <3>1, <3>2, <3>3, <3>4, Zenon DEF InOrder
  <2>4. QED
    BY <1>2, <1>4, <2>3, Zenon DEF Asked
<1>5. ASSUME Hailed(me, q, r, s, h) PROVE Hailed(me, t, r, s, h)
  <2>1. \A n \in 1 .. Len(t) : Hails(me, t[n]) => n \in 1 .. Len(q) /\ t[n] = q[n]
    BY <1>0
  <2>2. me.toWrite # <<>> => \A n \in 1 .. Len(t) : ~ Hails(me, t[n])
    BY <1>5, <2>1 DEF Hailed
  <2>3. \A n \in 1 .. Len(t) : Hails(me, t[n]) =>
          /\ ~ Welcome(me, s, h)
          /\ \A k \in n + 1 .. Len(t) : ~ Hails(me, t[k]) /\ (c # 0 => t[k].cid # c)
    <3> SUFFICES ASSUME NEW n \in 1 .. Len(t), Hails(me, t[n])
                 PROVE  /\ ~ Welcome(me, s, h)
                        /\ \A k \in n + 1 .. Len(t) : ~ Hails(me, t[k]) /\ (c # 0 => t[k].cid # c)
      OBVIOUS
    <3>1. n \in 1 .. Len(q) /\ Hails(me, q[n])
      BY <2>1
    <3>2. /\ ~ Welcome(me, s, h)
          /\ \A k \in n + 1 .. Len(q) : ~ Hails(me, q[k]) /\ (c # 0 => q[k].cid # c)
      BY <1>5, <3>1, Zenon DEF Hailed
    <3>3. \A k \in n + 1 .. Len(t) : (k \in n + 1 .. Len(q) /\ t[k] = q[k]) \/ t[k] = x
      BY <1>0
    <3>4. QED
      BY <3>2, <3>3
  <2>4. c # 0 /\ Welcome(me, s, h) => \A n \in 1 .. Len(t) : t[n].cid # c
    BY <1>0, <1>5 DEF Hailed
  <2>5. QED
    BY <1>5, <2>2, <2>3, <2>4, Zenon DEF Hailed
<1>6. QED
  BY <1>3, <1>4, <1>5, Zenon DEF ProgramAnswered

\* An answer under way is told by what the program asked for, not by its phase or what it still writes.
LEMMA EchoKept ==
  ASSUME NEW me, NEW me2, NEW s, NEW h, NEW n \in Nat,
         me2.channel = me.channel, me2.id = me.id, me2.cmd = me.cmd, me2.len = me.len,
         me2.got = me.got, Echo(me, s, h, n)
  PROVE  Echo(me2, s, h, n)
<1>1. /\ Responds(me2, s) <=> Responds(me, s)
      /\ Reports(me2, h) <=> Reports(me, h)
  BY Zenon DEF Responds, Reports
<1>2. PartEcho(me, me.got, n) => PartEcho(me2, me2.got, n)
  BY Zenon DEF PartEcho
<1>3. IsEcho(me, Head(h), n, Rank(Head(h))) => IsEcho(me2, Head(h), n, Rank(Head(h)))
  BY Zenon DEF IsEcho
<1>4. me.cmd = "ping" => n = me.len
  BY Zenon DEF Echo
<1>5. Responds(me, s) => /\ s.cmd = me.cmd /\ s.data = Message(me.id, n)
                        /\ s.sent = Offset(NextRank(s)) /\ s.sent < n
  BY Zenon DEF Echo
<1> DEFINE next == NextRank(s) = Rank(Head(h)) + 1
<1>6. Reports(me, h) => IsEcho(me, Head(h), n, Rank(Head(h))) /\ (Responds(me, s) => next)
  BY Zenon DEF Echo
<1>7. me.got.active => PartEcho(me, me.got, n) /\ Offset(me.got.seq + 1) < n
  BY Zenon DEF Echo
<1>8. me2.cmd = "ping" => n = me2.len
  BY <1>4
<1>9. Responds(me2, s) => /\ s.cmd = me2.cmd /\ s.data = Message(me2.id, n)
                         /\ s.sent = Offset(NextRank(s)) /\ s.sent < n
  <2>1. Responds(me, s) => /\ s.cmd = me2.cmd /\ s.data = Message(me2.id, n)
                          /\ s.sent = Offset(NextRank(s)) /\ s.sent < n
    BY <1>5
  <2>2. QED
    BY ONLY <1>1, <2>1, Zenon
<1> DEFINE A == me2.cmd = "ping" => n = me2.len
           B == Responds(me2, s) => /\ s.cmd = me2.cmd /\ s.data = Message(me2.id, n)
                                    /\ s.sent = Offset(NextRank(s)) /\ s.sent < n
           C == Reports(me2, h) => /\ IsEcho(me2, Head(h), n, Rank(Head(h)))
                                   /\ Responds(me2, s) => NextRank(s) = Rank(Head(h)) + 1
           D == me2.got.active => PartEcho(me2, me2.got, n) /\ Offset(me2.got.seq + 1) < n
<1>10. C
  <2> HIDE DEF next
  <2>1. Reports(me2, h) => IsEcho(me2, Head(h), n, Rank(Head(h))) /\ (Responds(me2, s) => next)
    BY ONLY <1>1, <1>3, <1>6, Zenon
  <2>2. QED
    BY <2>1, Zenon DEF next
<1>11. D
  <2>1. me2.got.active => PartEcho(me, me.got, n) /\ Offset(me2.got.seq + 1) < n
    BY <1>7
  <2>2. QED
    BY ONLY <1>2, <2>1, Zenon
<1>12. A /\ B
  BY <1>8, <1>9
<1>13. A /\ B /\ C /\ D
  <2> HIDE DEF A, B, C, D
  <2>1. QED
    BY <1>10, <1>11, <1>12
<1>14. QED
  BY ONLY <1>13, Zenon DEF Echo

\* The first of the packets that a program has to write takes its place behind the others.
LEMMA ProgramWrote ==
  ASSUME NEW l, Log(l), NEW me \in Programs, WritesOK(l, me), me.toWrite # <<>>,
         NEW q, NEW r, NEW s, NEW h, ProgramAnswered(me, q, r, s, h),
         NEW t, Grown(q, t, me.toWrite[1]), NEW me2,
         me2.phase = me.phase, me2.channel = me.channel, me2.id = me.id, me2.cmd = me.cmd,
         me2.len = me.len, me2.got = me.got, me2.toWrite = Tail(me.toWrite)
  PROVE  ProgramAnswered(me2, t, r, s, h)
<1> DEFINE c == me.channel
           w == me.toWrite
           v == me2.toWrite
           x == w[1]
<1>0. /\ Len(q) \in Nat /\ Len(t) = Len(q) + 1 /\ t[Len(t)] = x
      /\ \A n \in 1 .. Len(t) : (n \in 1 .. Len(q) /\ t[n] = q[n]) \/ (n = Len(t) /\ t[n] = x)
  BY DEF Grown
<1>1. /\ Len(w) \in Nat \ {0} /\ Len(v) = Len(w) - 1 /\ 1 \in 1 .. Len(w)
      /\ \A k \in 1 .. Len(v) : k + 1 \in 1 .. Len(w) /\ v[k] = w[k + 1]
  <2>1. w \in Seq(Packets)
    BY DEF Programs
  <2>2. v = Tail(w)
    OBVIOUS
  <2> HIDE DEF w, v
  <2>3. Len(w) \in Nat \ {0}
    BY <2>1, EmptySeq DEF w
  <2>4. QED
    BY <2>1, <2>2, <2>3
<1>2. Settled(me, q, r) => Settled(me2, t, r)
  <2> SUFFICES ASSUME Settled(me, q, r)
               PROVE  /\ \A n \in 1 .. Len(t) : ~ Asks(t[n], c)
                      /\ \A n \in 1 .. Len(v) : v[n].cmd = "cancel"
                      /\ ~ (r.active /\ r.cid = c)
    BY DEF Settled
  <2>1. x.cmd = "cancel"
    BY <1>1 DEF Settled
  <2>2. ~ Asks(x, c)
    BY <2>1 DEF Asks
  <2>3. QED
    BY <1>0, <1>1, <2>2 DEF Settled
<1>3. ASSUME Quiet(me, q, r, s, h) PROVE Quiet(me2, t, r, s, h)
  BY <1>2, <1>3, Zenon DEF Quiet
<1>4. ASSUME Asked(me, q, r, s, h) PROVE Asked(me2, t, r, s, h)
  <2>1. InOrder(me, q, r)
    BY <1>4 DEF Asked
  <2>2. Asks(x, c) => x.cmd # "cancel" /\ Of(x.data) = me.id
    <3> SUFFICES ASSUME Asks(x, c) PROVE x.cmd # "cancel" /\ Of(x.data) = me.id
      OBVIOUS
    <3>1. x.cmd # "cancel"
      BY DEF Asks
    <3> DEFINE m == me.id
    <3>2. IsPiece(l, x, m) /\ m \in 1 .. Len(l)
      BY <1>1, <3>1, WritingPiece
    <3> HIDE DEF x, m
    <3>3. Of(x.data) = m
      BY <3>2, PieceFacts
    <3>4. QED
      BY <3>1, <3>3 DEF m
  <2>3. InOrder(me2, t, r)
    <3>1. \A n \in 1 .. Len(t) : Asks(t[n], c) => Of(t[n].data) = me.id
      BY <1>0, <2>1, <2>2 DEF InOrder
    <3>2. \A n, k \in 1 .. Len(t) : Asks(t[n], c) /\ Asks(t[k], c) /\ n < k => Rank(t[n]) < Rank(t[k])
      <4> SUFFICES ASSUME NEW n \in 1 .. Len(t), NEW k \in 1 .. Len(t), Asks(t[n], c), Asks(t[k], c), n < k
                   PROVE  Rank(t[n]) < Rank(t[k])
        OBVIOUS
      <4>1. n \in 1 .. Len(q) /\ t[n] = q[n]
        BY <1>0
      <4>2. CASE k \in 1 .. Len(q) /\ t[k] = q[k]
        BY <2>1, <4>1, <4>2 DEF InOrder
      <4>3. CASE t[k] = x
        BY <1>1, <2>1, <2>2, <4>1, <4>3 DEF InOrder
      <4>4. QED
        BY <1>0, <4>2, <4>3
    <3>3. \A n \in 1 .. Len(t), k \in 1 .. Len(v) :
            Asks(t[n], c) /\ v[k].cmd # "cancel" => Rank(t[n]) < Rank(v[k])
      <4> SUFFICES ASSUME NEW n \in 1 .. Len(t), NEW k \in 1 .. Len(v), Asks(t[n], c), v[k].cmd # "cancel"
                   PROVE  Rank(t[n]) < Rank(v[k])
        OBVIOUS
      <4>1. k + 1 \in 1 .. Len(w) /\ 1 < k + 1 /\ v[k] = w[k + 1]
        BY <1>1
      <4>2. CASE n \in 1 .. Len(q) /\ t[n] = q[n]
        BY <2>1, <4>1, <4>2 DEF InOrder
      <4>3. CASE t[n] = x
        BY <1>1, <2>1, <4>1, <4>3 DEF InOrder
      <4>4. QED
        BY <1>0, <4>2, <4>3
    <3>4. \A n, k \in 1 .. Len(v) : n < k => Rank(v[n]) < Rank(v[k])
      <4> SUFFICES ASSUME NEW n \in 1 .. Len(v), NEW k \in 1 .. Len(v), n < k PROVE Rank(v[n]) < Rank(v[k])
        OBVIOUS
      <4>1. n + 1 \in 1 .. Len(w) /\ k + 1 \in 1 .. Len(w) /\ n + 1 < k + 1 /\ v[n] = w[n + 1] /\ v[k] = w[k + 1]
        BY <1>1
      <4>2. QED
        BY <2>1, <4>1 DEF InOrder
    <3>5. r.active /\ r.cid = c =>
            /\ Of(r.data) = me.id
            /\ \A n \in 1 .. Len(t) : Asks(t[n], c) => r.seq < Rank(t[n])
            /\ \A k \in 1 .. Len(v) : v[k].cmd # "cancel" => r.seq < Rank(v[k])
      BY <1>0, <1>1, <2>1, <2>2 DEF InOrder
    <3>6. QED
      BY <3>1, <3>2, <3>3, <3>4, <3>5, Zenon DEF InOrder
  <2>4. \A n \in Nat : Echo(me, s, h, n) => Echo(me2, s, h, n)
    BY EchoKept, Zenon
  <2>5. /\ Responds(me2, s) <=> Responds(me, s)
        /\ Reports(me2, h) <=> Reports(me, h)
        /\ Errs(me2, s) <=> Errs(me, s)
    BY Zenon DEF Responds, Reports, Errs
  <2>6. QED
    BY <1>2, <1>4, <2>3, <2>4, <2>5, Zenon DEF Asked
<1>5. ASSUME Hailed(me, q, r, s, h) PROVE Hailed(me2, t, r, s, h)
  <2>0. Len(w) <= 1
    BY <1>5, Zenon DEF Hailed
  <2>1. Len(v) = 0 /\ Len(v) <= 1
    <3>1. Len(w) \in Nat \ {0} /\ Len(v) = Len(w) - 1
      BY <1>1
    <3> HIDE DEF w, v
    <3>2. QED
      BY <2>0, <3>1
  <2>2. v = <<>>
    <3>1. v \in Seq(Packets)
      BY DEF Programs
    <3>2. QED
      BY <2>1, <3>1, EmptySeq
  <2>3. ~ Welcome(me, s, h) /\ \A n \in 1 .. Len(q) : ~ Hails(me, q[n])
    BY <1>5, Zenon DEF Hailed
  <2>4. Post(me2) = Post(me) /\ (Welcome(me2, s, h) <=> Welcome(me, s, h))
        /\ \A p : Hails(me2, p) <=> Hails(me, p)
    BY Zenon DEF Post, Welcome, Welcomes, Hails
  <2>5. \A n \in 1 .. Len(t) : Hails(me2, t[n]) => n = Len(t)
    BY <1>0, <2>3, <2>4
  <2>6. \A n \in 1 .. Len(t) : Hails(me2, t[n]) =>
          /\ ~ Welcome(me2, s, h)
          /\ \A k \in n + 1 .. Len(t) : ~ Hails(me2, t[k]) /\ (me2.channel # 0 => t[k].cid # me2.channel)
    <3> SUFFICES ASSUME NEW n \in 1 .. Len(t), Hails(me2, t[n]), NEW k \in n + 1 .. Len(t) PROVE FALSE
      BY <2>3, <2>4
    <3>1. QED
      BY <1>0, <2>5
  <2>7. r.active /\ r.cid = Post(me2) => Of(r.data) # me2.id
    BY <1>5, <2>4, Zenon DEF Hailed
  <2>8. ~ Welcome(me2, s, h)
    BY <2>3, <2>4
  <2>9. QED
    BY <2>1, <2>2, <2>6, <2>7, <2>8, Zenon DEF Hailed
<1>6. Answered(me) => Answered(me2)
  BY Zenon DEF Answered
<1>7. QED
  BY <1>3, <1>4, <1>5, <1>6, Zenon DEF ProgramAnswered

--------------------------------------------------------------------------------
(* What a program begins                                                     *)

\* A request begins when nothing of an earlier one is under way.
LEMMA RequestAsked ==
  ASSUME NEW me, NEW q, NEW r, NEW s, NEW h, Quiet(me, q, r, s, h),
         NEW cid \in Cids, NEW cmd \in Words, NEW data \in Data,
         NEW me2, me2.channel = me.channel, me2.got = NoReply, me2.len \in Nat,
         me2.toWrite = Cut(cid, cmd, data)
  PROVE  Asked(me2, q, r, s, h)
<1> DEFINE w == me2.toWrite
           c == me.channel
<1>1. \A k \in 1 .. Len(w) : Rank(w[k]) = k - 1
  BY CutRanks
<1>2. /\ \A n \in 1 .. Len(q) : ~ Asks(q[n], c)
      /\ ~ (r.active /\ r.cid = c) /\ ~ (s.active /\ s.cid = c)
      /\ h # <<>> => Head(h).cid # c
  BY DEF Quiet, Settled
<1>3. \A n, k \in 1 .. Len(w) : n < k => Rank(w[n]) < Rank(w[k])
  <2> SUFFICES ASSUME NEW n \in 1 .. Len(w), NEW k \in 1 .. Len(w), n < k PROVE Rank(w[n]) < Rank(w[k])
    OBVIOUS
  <2>1. Rank(w[n]) = n - 1 /\ Rank(w[k]) = k - 1
    BY <1>1
  <2> HIDE DEF w
  <2>2. n - 1 < k - 1
    OBVIOUS
  <2>3. QED
    BY <2>1, <2>2
<1> HIDE DEF w
<1>4. InOrder(me2, q, r)
  BY <1>2, <1>3, Zenon DEF InOrder, w
<1>5. ~ Responds(me2, s) /\ ~ Reports(me2, h) /\ ~ Errs(me2, s) /\ ~ me2.got.active
  BY <1>2 DEF Responds, Reports, Errs, NoReply
<1>6. Echo(me2, s, h, me2.len)
  BY <1>5, Zenon DEF Echo
<1>7. QED
  BY <1>4, <1>5, <1>6, Zenon DEF Asked

\* The INIT that begins is of a message that nothing under way is about.
LEMMA InitHailed ==
  ASSUME NEW l, Log(l), NEW q, QueueOK(l, q), NEW r, r.active => Gathered(l, r),
         NEW s, NEW h, SpokenOK(l, s, h), NEW me2, me2.id = Len(l) + 1, Len(me2.toWrite) = 1
  PROVE  Hailed(me2, q, r, s, h)
<1> DEFINE m == me2.id
<1>1. m \notin 1 .. Len(l)
  <2>1. Len(l) \in Nat
    BY DEF Log
  <2>2. QED
    BY <2>1
<1>2. \A n \in 1 .. Len(q) : ~ Hails(me2, q[n])
  <2> SUFFICES ASSUME NEW n \in 1 .. Len(q), Hails(me2, q[n]) PROVE FALSE
    OBVIOUS
  <2>1. q[n].cmd # "cancel" /\ Of(q[n].data) = m
    BY DEF Hails, Asks
  <2>2. Of(q[n].data) \in 1 .. Len(l)
    BY <2>1, AskingPiece
  <2>3. QED
    BY <1>1, <2>1, <2>2
<1>3. ~ Welcome(me2, s, h)
  BY <1>1 DEF Welcome, Welcomes, SpokenOK
<1>4. r.active => Of(r.data) # m
  BY <1>1 DEF Gathered
<1>5. QED
  BY <1>2, <1>3, <1>4 DEF Hailed

\* A cancellation asks for no answer.
LEMMA CancelAsked ==
  ASSUME NEW me, NEW q, NEW r, NEW s, NEW h, Asked(me, q, r, s, h), NEW me2,
         me2.channel = me.channel, me2.id = me.id, me2.cmd = me.cmd, me2.len = me.len,
         me2.got = me.got, Len(me2.toWrite) = 1, me2.toWrite[1].cmd = "cancel"
  PROVE  Asked(me2, q, r, s, h)
<1> DEFINE w == me2.toWrite
<1>1. \A k \in 1 .. Len(w) : k = 1 /\ w[k].cmd = "cancel"
  OBVIOUS
<1>2. \A n, k \in 1 .. Len(w) : ~ (n < k)
  OBVIOUS
<1> HIDE DEF w
<1>3. InOrder(me2, q, r)
  <2>1. InOrder(me, q, r)
    BY DEF Asked
  <2>2. QED
    BY <1>1, <1>2, <2>1, Zenon DEF InOrder, w
<1>4. Settled(me, q, r) => Settled(me2, q, r)
  BY <1>1, Zenon DEF Settled, w
<1>5. \A n \in Nat : Echo(me, s, h, n) => Echo(me2, s, h, n)
  BY EchoKept, Zenon
<1>6. /\ Responds(me2, s) <=> Responds(me, s)
      /\ Reports(me2, h) <=> Reports(me, h)
      /\ Errs(me2, s) <=> Errs(me, s)
  BY Zenon DEF Responds, Reports, Errs
<1>7. QED
  BY <1>3, <1>4, <1>5, <1>6, Zenon DEF Asked

--------------------------------------------------------------------------------
(* A report read                                                             *)

\* The data of g with the packet p after it.
Longer(g, p) == g.data \o p.data

LEMMA PartJoins ==
  ASSUME NEW g, NEW p, NEW d \in Data, NEW k \in Nat \ {0}, Offset(k) < Len(d),
         g.data = Prefix(d, Offset(k)), p.data = Part(d, k)
  PROVE  Longer(g, p) = Prefix(d, Offset(k + 1))
<1> DEFINE a == Offset(k)
           b == Offset(k + 1)
           u == g.data
           v == p.data
           w == Prefix(d, b)
           l == Len(d)
<1>1. a \in Nat /\ b \in Nat /\ a < b /\ l \in Nat /\ a < l /\ d \in Seq(Units)
  BY OffsetProperty DEF Data
<1>2. u = Prefix(d, a) /\ v = Part(d, k) /\ a = Offset(k) /\ b = Offset(k + 1) /\ w = Prefix(d, b)
  OBVIOUS
<1>3. Longer(g, p) = u \o v
  BY DEF Longer
<1> HIDE DEF u, v, w, a, b
<1>4. u \in Data /\ Len(u) = a /\ \A j \in 1 .. Len(u) : u[j] = d[j]
  <2>1. /\ u \in Seq(Units) /\ Len(u) = (IF a <= Len(d) THEN a ELSE Len(d))
        /\ \A j \in 1 .. Len(u) : u[j] = d[j]
    BY <1>1, <1>2, PrefixProperty
  <2>2. QED
    BY <1>1, <2>1 DEF Data
<1>5. w \in Data /\ Len(w) = (IF b <= l THEN b ELSE l) /\ \A j \in 1 .. Len(w) : w[j] = d[j]
  <2>1. /\ w \in Seq(Units) /\ Len(w) = (IF b <= Len(d) THEN b ELSE Len(d))
        /\ \A j \in 1 .. Len(w) : w[j] = d[j]
    BY <1>1, <1>2, PrefixProperty
  <2>2. QED
    BY <2>1 DEF Data
<1>6. v \in Data /\ Len(v) = (IF b <= l THEN b ELSE l) - a /\ \A j \in 1 .. Len(v) : v[j] = d[a + j]
  BY <1>2, PartProperty
<1> HIDE DEF l
<1>7. Len(w) = Len(u) + Len(v)
  BY <1>1, <1>4, <1>5, <1>6
<1>8. \A j \in 1 .. Len(u) : w[j] = u[j]
  <2>1. \A j \in 1 .. Len(u) : j \in 1 .. Len(w)
    BY <1>1, <1>4, <1>5
  <2>2. QED
    BY <1>4, <1>5, <2>1
<1>9. \A j \in 1 .. Len(v) : w[Len(u) + j] = v[j]
  <2>1. \A j \in 1 .. Len(v) : a + j \in 1 .. Len(w)
    BY <1>1, <1>5, <1>6
  <2>2. QED
    BY <1>4, <1>5, <1>6, <2>1
<1>10. u \o v = w
  BY <1>4, <1>5, <1>6, <1>7, <1>8, <1>9, Joined
<1>11. QED
  BY <1>2, <1>3, <1>10

LEMMA EchoHeard ==
  ASSUME NEW me \in Programs, NEW n \in Nat, NEW p \in Packets, IsEcho(me, p, n, Rank(p)),
         me.got.active => PartEcho(me, me.got, n), NEW g, g = Assemble(me.got, p)
  PROVE  g = me.got \/ (PartEcho(me, g, n) /\ g.seq = Rank(p))
<1> DEFINE d == Message(me.id, n)
<1>0. me.id \in 0 .. MaxSent /\ me.got \in Replies /\ p.seq \in Nat
  BY DEF Programs, Packets
<1>1. d \in Data /\ Len(d) = n
  BY <1>0, MessageProperty
<1>2. CASE p.init
  <2>1. Rank(p) = 0
    BY <1>2 DEF Rank
  <2>2. g = [active |-> TRUE, cid |-> p.cid, cmd |-> p.cmd, seq |-> 0, sent |-> p.len, data |-> p.data]
    BY <1>2 DEF Assemble
  <2>3. g.active /\ g.cmd = p.cmd /\ g.seq = 0 /\ g.sent = p.len /\ g.data = p.data
    BY <2>2
  <2>4. p.cmd = me.cmd /\ p.len = n /\ p.data = Prefix(d, InitPayload)
    BY <2>1 DEF IsEcho
  <2>5. Offset(0 + 1) = InitPayload
    BY OffsetProperty
  <2> HIDE DEF d
  <2>6. PartEcho(me, g, n)
    BY <2>3, <2>4, <2>5 DEF PartEcho, d
  <2>7. QED
    BY <2>1, <2>3, <2>6
<1>3. CASE ~ p.init /\ me.got.active /\ p.seq = me.got.seq
  <2> DEFINE k == me.got.seq + 1
  <2>1. k \in Nat \ {0} /\ Rank(p) = k
    BY <1>0, <1>3 DEF Rank
  <2>2. g = [me.got EXCEPT !.seq = @ + 1, !.data = @ \o p.data]
    BY <1>3, Zenon DEF Assemble
  <2>3. g.active = me.got.active /\ g.cmd = me.got.cmd /\ g.sent = me.got.sent /\ g.seq = k /\ g.data = Longer(me.got, p)
    BY <1>0, <2>2 DEF Replies, Longer
  <2>4. /\ me.got.cmd = me.cmd /\ me.got.sent = n /\ me.got.data = Prefix(d, Offset(k))
    BY <1>3 DEF PartEcho
  <2>5. Offset(k) < n /\ p.data = Part(d, k)
    BY <2>1 DEF IsEcho
  <2> HIDE DEF d, k
  <2>6. Longer(me.got, p) = Prefix(d, Offset(k + 1))
    BY <1>1, <2>1, <2>4, <2>5, PartJoins
  <2>7. PartEcho(me, g, n)
    BY <1>3, <2>1, <2>3, <2>4, <2>6 DEF PartEcho, d
  <2>8. QED
    BY <2>1, <2>3, <2>7
<1>4. CASE ~ p.init /\ ~ (me.got.active /\ p.seq = me.got.seq)
  BY <1>4 DEF Assemble
<1>5. QED
  BY <1>2, <1>3, <1>4

\* It is whole when there are no more packets.
LEMMA EchoWhole ==
  ASSUME NEW me \in Programs, NEW n \in Nat, NEW g, PartEcho(me, g, n)
  PROVE  /\ Offset(g.seq + 1) \in Nat
         /\ Len(g.data) >= g.sent => g.data = Message(me.id, n) /\ ~ (Offset(g.seq + 1) < n)
         /\ ~ (Len(g.data) >= g.sent) => Offset(g.seq + 1) < n
<1> DEFINE d == Message(me.id, n)
           k == Offset(g.seq + 1)
<1>1. d \in Data /\ Len(d) = n
  <2>1. me.id \in 0 .. MaxSent
    BY DEF Programs
  <2>2. QED
    BY <2>1, MessageProperty
<1>2. g.data = Prefix(d, k) /\ g.sent = n
  BY DEF PartEcho
<1>3. k \in Nat
  <2>1. g.seq + 1 \in Nat
    BY DEF PartEcho
  <2>2. QED
    BY <2>1, OffsetProperty
<1> HIDE DEF d, k
<1>4. Len(Prefix(d, k)) = IF k <= Len(d) THEN k ELSE Len(d)
  BY <1>1, <1>3, PrefixProperty DEF Data
<1>5. Len(g.data) >= g.sent => n <= k
  BY <1>1, <1>2, <1>3, <1>4
<1>6. ~ (Len(g.data) >= g.sent) => k < n
  BY <1>1, <1>2, <1>3, <1>4
<1>7. n <= k => Prefix(d, k) = d
  BY <1>1, <1>3, PrefixWhole
<1>8. QED
  BY <1>2, <1>3, <1>5, <1>6, <1>7 DEF d, k

\* What a program makes of a report, with which it has put together g.
Heard(me, p, g, x) ==
  \/ x = me
  \/ /\ x.id = me.id /\ x.cmd = me.cmd /\ x.len = me.len
     /\ me.phase = "waiting" /\ p.cid = Post(me) /\ p.cmd # "keepalive"
     /\ \/ /\ x.phase = "waiting" /\ x.channel = me.channel /\ x.toWrite = me.toWrite
           /\ \/ x.got = g /\ ~ (g.active /\ Len(g.data) >= g.sent)
              \/ me.cmd = "init"
        \/ /\ x.phase = "ready" /\ me.cmd = "init" /\ p.cmd = "init" /\ Of(p.data) = me.id
           /\ x.channel = p.data[NonceLength + 1].at /\ x.toWrite = me.toWrite
        \/ /\ me.cmd # "init" /\ g.active /\ Len(g.data) >= g.sent
           /\ x.channel = me.channel /\ x.toWrite = <<>>
           /\ \/ x.phase = "answered" /\ g.cmd = me.cmd /\ x.got = g
              \/ x.phase = "failed" /\ g.cmd # me.cmd

LEMMA HearCases ==
  ASSUME ProgramTypes, NEW a \in Apps, NEW p \in Packets, ReportOK(p), NEW x, x = Hear(a, p),
         NEW me, me = app[a], NEW g, g = Assemble(me.got, p)
  PROVE  Heard(me, p, g, x)
<1>1. me \in Programs /\ ProgramOK(me)
  BY DEF ProgramTypes
<1>2. me.got \in Replies /\ me.got.cmd # "init"
  BY <1>1 DEF Programs, ProgramOK
<1>3. g.cmd = "init" => p.cmd = "init" /\ g.active /\ g.data = p.data
  BY <1>2, AssembleType
<1>4. CASE x = me
  BY <1>4 DEF Heard
<1>5. CASE /\ me.phase = "waiting" /\ p.cid = Post(me) /\ p.cmd # "keepalive"
           /\ g.active /\ Len(g.data) >= g.sent /\ x = Conclude(me, g)
  <2>1. CASE me.cmd = "init" /\ g.cmd = "init" /\ g.data[1].of = me.id
    <3> DEFINE c == g.data[Len(g.data)].at
    <3>1. p.cmd = "init" /\ g.data = p.data
      BY <1>3, <2>1
    <3>2. c = p.data[NonceLength + 1].at
      BY <3>1 DEF ReportOK, IsHandshake
    <3>3. x = [me EXCEPT !.phase = "ready", !.channel = c, !.got = NoReply]
      BY <1>5, <2>1 DEF Conclude
    <3> HIDE DEF c
    <3>4. x \in [phase : {"ready"}, channel : {c}, id : {me.id}, cmd : {me.cmd}, len : {me.len},
                 toWrite : {me.toWrite}, got : {NoReply}, cancelled : {me.cancelled}]
      BY <1>1, <3>3 DEF Programs
    <3>5. /\ x.phase = "ready" /\ x.channel = c /\ x.id = me.id /\ x.cmd = me.cmd /\ x.len = me.len
          /\ x.toWrite = me.toWrite
      BY <3>4
    <3>6. QED
      BY <1>5, <2>1, <3>1, <3>2, <3>5 DEF Heard, Of
  <2>2. CASE me.cmd = "init" /\ x = [me EXCEPT !.got = NoReply]
    <3>1. x \in [phase : {me.phase}, channel : {me.channel}, id : {me.id}, cmd : {me.cmd},
                 len : {me.len}, toWrite : {me.toWrite}, got : {NoReply}, cancelled : {me.cancelled}]
      BY <1>1, <2>2 DEF Programs
    <3>2. /\ x.phase = me.phase /\ x.channel = me.channel /\ x.id = me.id /\ x.cmd = me.cmd
          /\ x.len = me.len /\ x.toWrite = me.toWrite
      BY <3>1
    <3>3. QED
      BY <1>5, <2>2, <3>2 DEF Heard
  <2>3. CASE /\ me.cmd # "init" /\ g.cmd = me.cmd
             /\ x = [me EXCEPT !.phase = "answered", !.got = g, !.toWrite = <<>>]
    <3>1. x \in [phase : {"answered"}, channel : {me.channel}, id : {me.id}, cmd : {me.cmd},
                 len : {me.len}, toWrite : {<<>>}, got : {g}, cancelled : {me.cancelled}]
      BY <1>1, <2>3 DEF Programs
    <3>2. /\ x.phase = "answered" /\ x.channel = me.channel /\ x.id = me.id /\ x.cmd = me.cmd
          /\ x.len = me.len /\ x.toWrite = <<>> /\ x.got = g
      BY <3>1
    <3>3. QED
      BY <1>5, <2>3, <3>2 DEF Heard
  <2>4. CASE /\ me.cmd # "init" /\ g.cmd # me.cmd
             /\ x = [me EXCEPT !.phase = "failed", !.got = NoReply, !.toWrite = <<>>]
    <3>1. x \in [phase : {"failed"}, channel : {me.channel}, id : {me.id}, cmd : {me.cmd},
                 len : {me.len}, toWrite : {<<>>}, got : {NoReply}, cancelled : {me.cancelled}]
      BY <1>1, <2>4 DEF Programs
    <3>2. /\ x.phase = "failed" /\ x.channel = me.channel /\ x.id = me.id /\ x.cmd = me.cmd
          /\ x.len = me.len /\ x.toWrite = <<>>
      BY <3>1
    <3>3. QED
      BY <1>5, <2>4, <3>2 DEF Heard
  <2>5. QED
    BY <1>5, <2>1, <2>2, <2>3, <2>4, Zenon DEF Conclude
<1>6. CASE /\ me.phase = "waiting" /\ p.cid = Post(me) /\ p.cmd # "keepalive"
           /\ x = [me EXCEPT !.got = g] /\ ~ (g.active /\ Len(g.data) >= g.sent)
  <2>1. x \in [phase : {me.phase}, channel : {me.channel}, id : {me.id}, cmd : {me.cmd},
               len : {me.len}, toWrite : {me.toWrite}, got : {g}, cancelled : {me.cancelled}]
    BY <1>1, <1>6 DEF Programs
  <2>2. /\ x.phase = me.phase /\ x.channel = me.channel /\ x.id = me.id /\ x.cmd = me.cmd
        /\ x.len = me.len /\ x.toWrite = me.toWrite /\ x.got = g
    BY <2>1
  <2>3. QED
    BY <1>6, <2>2 DEF Heard
<1>7. Address(a) = Post(me)
  BY DEF Address, Post
<1>8. QED
  BY <1>4, <1>5, <1>6, <1>7, Zenon DEF Hear

\* The report is gone.
LEMMA ReportDropped ==
  ASSUME NEW me, NEW q, NEW r, NEW s, NEW h, ProgramAnswered(me, q, r, s, h)
  PROVE  ProgramAnswered(me, q, r, s, <<>>)
<1>1. Quiet(me, q, r, s, h) => Quiet(me, q, r, s, <<>>)
  BY DEF Quiet
<1>2. ~ Reports(me, <<>>)
  BY DEF Reports
<1>3. Asked(me, q, r, s, h) => Asked(me, q, r, s, <<>>)
  <2>1. \A n \in Nat : Echo(me, s, h, n) => Echo(me, s, <<>>, n)
    BY <1>2, Zenon DEF Echo
  <2>2. QED
    BY <1>2, <2>1, Zenon DEF Asked
<1>4. Hailed(me, q, r, s, h) => Hailed(me, q, r, s, <<>>)
  <2>1. Welcome(me, s, <<>>) => Welcome(me, s, h)
    BY DEF Welcome
  <2>2. QED
    BY <2>1 DEF Hailed
<1>5. QED
  BY <1>1, <1>3, <1>4, Zenon DEF ProgramAnswered

\* A packet of the answer is put with the others, or ends it.
LEMMA AskedHeard ==
  ASSUME NEW l, NEW me \in Programs, NEW q, NEW r, NEW s, NEW p \in Packets,
         SpokenOK(l, s, <<p>>), Asked(me, q, r, s, <<p>>), me.cmd \in {"ping", "cbor"},
         p.cid = me.channel, p.cmd # "keepalive", NEW g, g = Assemble(me.got, p)
  PROVE  \/ g.active /\ Len(g.data) >= g.sent /\ g.cmd # me.cmd
         \/ g = me.got /\ ~ (g.active /\ Len(g.data) >= g.sent)
         \/ \E n \in Nat :
              /\ Echo(me, s, <<p>>, n) /\ PartEcho(me, g, n)
              /\ Settled(me, q, r) /\ ~ Errs(me, s)
              /\ Responds(me, s) => NextRank(s) = g.seq + 1
<1> DEFINE h == <<p>>
<1>0. h # <<>> /\ Head(h) = p
  OBVIOUS
<1> HIDE DEF h
<1>1. PICK n \in Nat : Echo(me, s, h, n)
  BY DEF Asked, h
<1>2. CASE p.cmd = "error"
  <2>1. p.init /\ Len(p.data) >= p.len
    BY <1>0, <1>2 DEF SpokenOK, h
  <2>2. g = [active |-> TRUE, cid |-> p.cid, cmd |-> p.cmd, seq |-> 0, sent |-> p.len, data |-> p.data]
    BY <2>1 DEF Assemble
  <2>3. g.active /\ Len(g.data) >= g.sent /\ g.cmd = "error"
    BY <1>2, <2>1, <2>2
  <2>4. QED
    BY <2>3
<1>3. CASE p.cmd # "error"
  <2>1. Reports(me, h)
    BY <1>0, <1>3 DEF Reports
  <2>2. Settled(me, q, r) /\ ~ Errs(me, s)
    BY <2>1 DEF Asked, h
  <2>3. IsEcho(me, p, n, Rank(p)) /\ (Responds(me, s) => NextRank(s) = Rank(p) + 1)
    BY <1>0, <1>1, <2>1, Zenon DEF Echo
  <2>4. me.got.active => PartEcho(me, me.got, n) /\ Offset(me.got.seq + 1) < n
    BY <1>1, Zenon DEF Echo
  <2>5. g = me.got \/ (PartEcho(me, g, n) /\ g.seq = Rank(p))
    BY <2>3, <2>4, EchoHeard
  <2>6. CASE PartEcho(me, g, n) /\ g.seq = Rank(p)
    BY <1>1, <2>2, <2>3, <2>6 DEF h
  <2>7. CASE g = me.got
    <3>1. ~ (g.active /\ Len(g.data) >= g.sent)
      <4> SUFFICES ASSUME g.active, Len(g.data) >= g.sent PROVE FALSE
        OBVIOUS
      <4>1. PartEcho(me, g, n) /\ Offset(g.seq + 1) < n
        BY <2>4, <2>7
      <4>2. ~ (Offset(g.seq + 1) < n)
        BY <4>1, EchoWhole
      <4>3. QED
        BY <4>1, <4>2
    <3>2. QED
      BY <2>7, <3>1
  <2>8. QED
    BY <2>5, <2>6, <2>7
<1>4. QED
  BY <1>2, <1>3

\* No packet, request or response is of channel c.
Unused(c, q, r, s) ==
  /\ \A n \in 1 .. Len(q) : q[n].cid # c
  /\ ~ (r.active /\ r.cid = c) /\ ~ (s.active /\ s.cid = c)

LEMMA ProgramHeard ==
  ASSUME NEW l, NEW me \in Programs, ProgramOK(me), Mine(l, me), NEW q, NEW r, NEW s,
         NEW p \in Packets, ReportOK(p), SpokenOK(l, s, <<p>>), ProgramAnswered(me, q, r, s, <<p>>),
         Gives(p) => Unused(Channel(p.data), q, r, s),
         NEW g, g = Assemble(me.got, p), NEW x, Heard(me, p, g, x)
  PROVE  ProgramAnswered(x, q, r, s, <<>>)
<1> DEFINE c == me.channel
           h == <<p>>
<1>0. h # <<>> /\ Head(h) = p
  OBVIOUS
<1> HIDE DEF h
<1>1. CASE x = me
  BY <1>1, ReportDropped
<1>2. CASE /\ x.id = me.id /\ x.cmd = me.cmd /\ x.len = me.len
           /\ me.phase = "waiting" /\ p.cid = Post(me) /\ p.cmd # "keepalive"
           /\ x.phase = "waiting" /\ x.channel = me.channel /\ x.toWrite = me.toWrite
           /\ me.cmd = "init"
  <2>1. Hailed(me, q, r, s, <<>>)
    BY <1>2, ReportDropped, Zenon DEF ProgramAnswered
  <2>2. Post(x) = Post(me) /\ (Welcome(x, s, <<>>) <=> Welcome(me, s, <<>>))
        /\ (Welcomes(x, Head(<<>>)) <=> Welcomes(me, Head(<<>>)))
        /\ \A y : Hails(x, y) <=> Hails(me, y)
    BY <1>2, Zenon DEF Post, Welcome, Welcomes, Hails
  <2>3. Hailed(x, q, r, s, <<>>)
    BY <1>2, <2>1, <2>2, Zenon DEF Hailed
  <2>4. QED
    BY <1>2, <2>3, Zenon DEF ProgramAnswered
<1>3. CASE /\ x.id = me.id /\ x.cmd = me.cmd /\ x.len = me.len
           /\ me.phase = "waiting" /\ p.cid = Post(me) /\ p.cmd # "keepalive"
           /\ x.phase = "ready" /\ me.cmd = "init" /\ p.cmd = "init" /\ Of(p.data) = me.id
           /\ x.channel = p.data[NonceLength + 1].at /\ x.toWrite = me.toWrite
  <2>1. Hailed(me, q, r, s, h)
    BY <1>3, Zenon DEF ProgramAnswered, h
  <2>2. Welcomes(me, Head(h)) /\ Welcome(me, s, h)
    BY <1>0, <1>3 DEF Welcome, Welcomes
  <2>3. me.toWrite = <<>>
    BY <2>1, <2>2, Zenon DEF Hailed
  <2>4. IsHandshake(p.cid, p.data)
    BY <1>3 DEF ReportOK
  <2>5. Unused(x.channel, q, r, s)
    <3>1. CASE c # 0
      <4>1. p.cid = c /\ c # Broadcast
        BY <1>3, <3>1, Sizes DEF Post, Programs
      <4>2. x.channel = c
        BY <1>3, <2>4, <4>1 DEF IsHandshake
      <4>3. /\ \A n \in 1 .. Len(q) : q[n].cid # c
            /\ ~ (r.active /\ r.cid = c) /\ ~ (s.active /\ s.cid = c)
        BY <1>0, <2>1, <2>2, <3>1, Zenon DEF Hailed
      <4>4. QED
        BY <4>2, <4>3 DEF Unused
    <3>2. CASE c = 0
      <4>1. Gives(p)
        BY <1>3, <3>2 DEF Gives, Post
      <4>2. QED
        BY <1>3, <4>1 DEF Channel
    <3>3. QED
      BY <3>1, <3>2
  <2>6. Quiet(x, q, r, s, <<>>)
    <3>1. \A n \in 1 .. Len(x.toWrite) : FALSE
      BY <1>3, <2>3
    <3>2. QED
      BY <2>5, <3>1 DEF Unused, Quiet, Settled, Asks
  <2>7. QED
    BY <1>3, <2>6 DEF ProgramAnswered
<1>4. CASE /\ x.id = me.id /\ x.cmd = me.cmd /\ x.len = me.len
           /\ me.phase = "waiting" /\ p.cid = Post(me) /\ p.cmd # "keepalive" /\ me.cmd # "init"
           /\ x.channel = me.channel
           /\ \/ /\ x.phase = "waiting" /\ x.toWrite = me.toWrite
                 /\ x.got = g /\ ~ (g.active /\ Len(g.data) >= g.sent)
              \/ /\ g.active /\ Len(g.data) >= g.sent /\ x.toWrite = <<>>
                 /\ \/ x.phase = "answered" /\ g.cmd = me.cmd /\ x.got = g
                    \/ x.phase = "failed" /\ g.cmd # me.cmd
  <2>1. c # 0 /\ Post(me) = c /\ me.cmd \in {"ping", "cbor"}
    BY <1>4 DEF ProgramOK, Post, Mine
  <2>2. Asked(me, q, r, s, h)
    BY <1>4, Zenon DEF ProgramAnswered, h
  <2>3. \/ g.active /\ Len(g.data) >= g.sent /\ g.cmd # me.cmd
        \/ g = me.got /\ ~ (g.active /\ Len(g.data) >= g.sent)
        \/ \E n \in Nat :
             /\ Echo(me, s, h, n) /\ PartEcho(me, g, n)
             /\ Settled(me, q, r) /\ ~ Errs(me, s)
             /\ Responds(me, s) => NextRank(s) = g.seq + 1
    BY <1>4, <2>1, <2>2, AskedHeard DEF h
  <2>4. InOrder(me, q, r)
    BY <2>2 DEF Asked
  <2>5. /\ Responds(x, s) <=> Responds(me, s)
        /\ Errs(x, s) <=> Errs(me, s)
        /\ ~ Reports(x, <<>>)
    BY <1>4 DEF Responds, Errs, Reports
  <2>6. CASE x.phase = "waiting" /\ x.toWrite = me.toWrite /\ x.got = g
             /\ ~ (g.active /\ Len(g.data) >= g.sent)
    <3>1. InOrder(x, q, r) /\ (Settled(me, q, r) => Settled(x, q, r))
      BY <1>4, <2>4, <2>6, Zenon DEF InOrder, Settled
    <3>2. CASE g = me.got
      <4>1. \A n \in Nat : Echo(me, s, h, n) => Echo(x, s, <<>>, n)
        BY <1>4, <2>5, <2>6, <3>2, Zenon DEF Echo, PartEcho
      <4>2. Asked(x, q, r, s, <<>>)
        BY <2>2, <2>5, <2>6, <3>1, <3>2, <4>1, Zenon DEF Asked
      <4>3. QED
        BY <1>4, <2>6, <4>2 DEF ProgramAnswered
    <3>3. ASSUME NEW n \in Nat, Echo(me, s, h, n), PartEcho(me, g, n), Settled(me, q, r), ~ Errs(me, s)
          PROVE  ProgramAnswered(x, q, r, s, <<>>)
      <4>1. PartEcho(x, g, n)
        BY <1>4, <3>3, Zenon DEF PartEcho
      <4>2. Offset(g.seq + 1) < n
        <5>1. g.active
          BY <3>3 DEF PartEcho
        <5>2. ~ (Len(g.data) >= g.sent)
          BY <2>6, <5>1
        <5>3. QED
          BY <3>3, <5>2, EchoWhole
      <4>3. Echo(x, s, <<>>, n)
        BY <1>4, <2>5, <2>6, <3>3, <4>1, <4>2, Zenon DEF Echo
      <4>4. Asked(x, q, r, s, <<>>)
        BY <2>5, <3>1, <3>3, <4>3, Zenon DEF Asked
      <4>5. QED
        BY <1>4, <2>6, <4>4 DEF ProgramAnswered
    <3>4. QED
      BY <2>3, <2>6, <3>2, <3>3
  <2>7. CASE x.phase = "answered" /\ g.cmd = me.cmd /\ x.got = g /\ x.toWrite = <<>>
             /\ g.active /\ Len(g.data) >= g.sent
    <3>1. PICK n \in Nat : /\ Echo(me, s, h, n) /\ PartEcho(me, g, n)
                           /\ Settled(me, q, r) /\ ~ Errs(me, s)
                           /\ Responds(me, s) => NextRank(s) = g.seq + 1
      BY <2>3, <2>7
    <3>2. g.data = Message(me.id, n) /\ ~ (Offset(g.seq + 1) < n) /\ Offset(g.seq + 1) \in Nat
      BY <2>7, <3>1, EchoWhole
    <3>3. ~ Responds(me, s)
      <4> SUFFICES ASSUME Responds(me, s) PROVE FALSE
        OBVIOUS
      <4>1. s.sent = Offset(NextRank(s)) /\ s.sent < n
        BY <3>1, Zenon DEF Echo
      <4>2. NextRank(s) = g.seq + 1
        BY <3>1
      <4>3. QED
        BY <3>2, <4>1, <4>2
    <3>4. ~ (s.active /\ s.cid = c)
      BY <3>1, <3>3 DEF Responds, Errs
    <3>5. Quiet(x, q, r, s, <<>>)
      <4>1. \A j \in 1 .. Len(x.toWrite) : FALSE
        BY <2>7
      <4>2. Settled(x, q, r)
        BY <1>4, <3>1, <4>1 DEF Settled
      <4>3. QED
        BY <1>4, <3>4, <4>2 DEF Quiet
    <3>6. Len(g.data) = n
      <4>1. me.id \in 0 .. MaxSent
        BY DEF Programs
      <4>2. QED
        BY <3>2, <4>1, MessageProperty
    <3>7. me.cmd = "ping" => n = me.len
      BY <3>1, Zenon DEF Echo
    <3>8. Answered(x)
      BY <1>4, <2>7, <3>2, <3>6, <3>7 DEF Answered
    <3>9. QED
      BY <2>7, <3>5, <3>8 DEF ProgramAnswered
  <2>8. CASE x.phase = "failed"
    BY <2>8 DEF ProgramAnswered
  <2>9. QED
    BY <1>4, <2>6, <2>7, <2>8
<1>5. QED
  BY <1>1, <1>2, <1>3, <1>4, Zenon DEF Heard

--------------------------------------------------------------------------------
(* What the programs have asked for                                          *)

\* What a program asks for, and the message that it sends for it.
LEMMA SubmittedAs ==
  ASSUME Types, WireInv, MineInv, NEW a \in Apps, Open(a) \/ Request(a) \/ Resync(a)
  PROVE  \E cid \in Cids, cmd \in Words, n \in Nat :
           /\ app'[a].channel = app[a].channel /\ app'[a].id = Len(sent) + 1
           /\ app'[a].phase = "waiting" /\ app'[a].cmd = cmd /\ app'[a].len = n
           /\ app'[a].got = NoReply
           /\ Message(Len(sent) + 1, n) \in Data
           /\ app'[a].toWrite = Cut(cid, cmd, Message(Len(sent) + 1, n))
           /\ Len(sent') = Len(sent) + 1
           /\ sent'[Len(sent) + 1] = [cid |-> cid, cmd |-> cmd, data |-> Message(Len(sent) + 1, n)]
           /\ cid = Post(app[a])
           /\ \/ cmd = "init" /\ n = NonceLength /\ Len(app'[a].toWrite) = 1
              \/ cmd \in {"ping", "cbor"} /\ app[a].phase \in {"ready", "answered"}
<1> DEFINE me == app[a]
<1>1. me \in Programs /\ ProgramOK(me) /\ ProgramTypes /\ Len(sent) \in Nat
  BY DEF Types, ProgramTypes
<1>2. me.channel \in 0 .. Broadcast - 1 /\ Post(me) \in Cids /\ NonceLength \in Nat
  BY <1>1, Sizes DEF Programs, Cids, Post
<1>3. Address(a) = Post(me)
  BY DEF Address, Post
<1>4. /\ "init" \in Words /\ "ping" \in Words /\ "cbor" \in Words
  BY DEF Words, Commands
<1>5. \E cmd \in Words, n \in Nat :
        /\ Submit(a, Post(me), cmd, n) /\ (me.channel = 0 => cmd = "init")
        /\ \/ cmd = "init" /\ n = NonceLength
           \/ cmd \in {"ping", "cbor"} /\ me.phase \in {"ready", "answered"}
  <2>1. CASE Open(a)
    <3>1. me.phase = "closed" /\ Submit(a, Broadcast, "init", NonceLength)
      BY <2>1 DEF Open
    <3>2. me.channel = 0 /\ Post(me) = Broadcast
      BY <3>1 DEF MineInv, Post
    <3>3. QED
      BY <1>2, <1>4, <3>1, <3>2
  <2>2. CASE Request(a)
    <3>1. me.phase \in {"ready", "answered"}
      BY <2>2 DEF Request
    <3>2. PICK cmd \in {"ping", "cbor"}, n \in Lengths : Submit(a, me.channel, cmd, n)
      BY <2>2 DEF Request
    <3>3. me.channel # 0
      BY <1>1, <3>1 DEF ProgramOK
    <3>4. Post(me) = me.channel /\ cmd \in Words /\ n \in Nat
      BY <1>4, <3>2, <3>3, Sizes DEF Post
    <3>5. QED
      BY <3>1, <3>2, <3>3, <3>4
  <2>3. CASE Resync(a)
    <3>1. Submit(a, Post(me), "init", NonceLength)
      BY <1>3, <2>3 DEF Resync
    <3>2. QED
      BY <1>2, <1>4, <3>1
  <2>4. QED
    BY <2>1, <2>2, <2>3
<1>6. PICK cmd \in Words, n \in Nat :
        /\ Submit(a, Post(me), cmd, n) /\ (me.channel = 0 => cmd = "init")
        /\ \/ cmd = "init" /\ n = NonceLength
           \/ cmd \in {"ping", "cbor"} /\ me.phase \in {"ready", "answered"}
  BY <1>5
<1> DEFINE cid == Post(me)
           m   == Len(sent) + 1
<1>7. /\ m \in 1 .. MaxSent /\ Len(sent') = m
      /\ sent'[m] = [cid |-> cid, cmd |-> cmd, data |-> Message(m, n)]
      /\ app'[a].channel = me.channel /\ app'[a].id = m
      /\ app'[a].toWrite = Cut(cid, cmd, Message(m, n))
      /\ app'[a].phase = "waiting" /\ app'[a].cmd = cmd /\ app'[a].len = n
      /\ app'[a].got = NoReply
  BY <1>1, <1>2, <1>6, Submitting
<1>8. Message(m, n) \in Data /\ Len(Message(m, n)) = n
  <2>1. m \in 0 .. MaxSent
    BY <1>7
  <2> HIDE DEF m
  <2>2. QED
    BY <2>1, MessageProperty
<1>9. cmd = "init" /\ n = NonceLength => Len(app'[a].toWrite) = 1
  <2> HAVE cmd = "init" /\ n = NonceLength
  <2> DEFINE d == Message(m, n)
  <2>1. d \in Data /\ Len(d) = NonceLength /\ app'[a].toWrite = Cut(cid, cmd, d)
    BY <1>7, <1>8
  <2> HIDE DEF d, m, cid
  <2>2. Continuations(NonceLength) = 0
    <3>1. Continuations(NonceLength) \in Nat
      BY <1>2, ContinuationsProperty
    <3>2. Offset(1) = InitPayload
      BY Sizes DEF Offset
    <3>3. QED
      BY <1>2, <3>1, <3>2, Sizes, ContinuationsProperty
  <2>3. Len(Cut(cid, cmd, d)) = Continuations(Len(d)) + 1
    BY <2>1, <2>2 DEF Cut
  <2>4. QED
    BY <2>1, <2>2, <2>3
<1>10. cid \in Cids /\ cid = Post(app[a])
  BY <1>2
<1> HIDE DEF cid
<1>11. QED
  BY <1>6, <1>7, <1>8, <1>9, <1>10

\* What a program waits for stays what it has sent.
LEMMA MineGrows ==
  ASSUME NEW s, NEW t, Len(s) \in Nat, Len(t) \in Nat, Len(s) <= Len(t),
         \A m \in 1 .. Len(s) : t[m] = s[m], NEW me, Mine(s, me),
         NEW x, x.id = me.id, x.cmd = me.cmd, x.len = me.len,
         x.phase # "closed" => me.phase # "closed",
         x.phase = "waiting" => me.phase = "waiting" /\ x.channel = me.channel
  PROVE  Mine(t, x)
<1> SUFFICES ASSUME x.phase # "closed" PROVE Mine(t, x)
  BY DEF Mine
<1>1. /\ me.id \in 1 .. Len(s) /\ me.cmd \in {"init", "ping", "cbor"}
      /\ s[me.id].cmd = me.cmd /\ s[me.id].data = Message(me.id, me.len)
      /\ me.phase = "waiting" => s[me.id].cid = Post(me)
      /\ me.cmd = "init" => me.len = NonceLength
  BY Zenon DEF Mine
<1>2. x.id \in 1 .. Len(t) /\ t[x.id] = s[me.id]
  BY <1>1
<1>3. x.phase = "waiting" => t[x.id].cid = Post(x)
  BY <1>1, <1>2 DEF Post
<1>4. t[x.id].data = Message(x.id, x.len)
  BY <1>1, <1>2
<1>5. QED
  BY <1>1, <1>2, <1>3, <1>4, Zenon DEF Mine

LEMMA MineInductive == Types /\ WireInv /\ MineInv /\ [SysNext]_sysVars => MineInv'
<1> SUFFICES ASSUME Types, WireInv, MineInv, [SysNext]_sysVars PROVE MineInv'
  OBVIOUS
<1> DEFINE Closing(me) == me.phase = "closed" => me.channel = 0
<1>0. /\ Len(sent) \in Nat /\ \A a \in Apps : Mine(sent, app[a]) /\ Closing(app[a])
      /\ ProgramTypes
  BY DEF Types, ProgramTypes, MineInv
<1>1. ASSUME UNCHANGED sent,
             NEW a \in Apps, app'[a].id = app[a].id, app'[a].cmd = app[a].cmd, app'[a].len = app[a].len,
             app'[a].phase = app[a].phase, app'[a].channel = app[a].channel
      PROVE  Mine(sent', app'[a]) /\ Closing(app'[a])
  <2> DEFINE me == app[a]
             x  == app'[a]
  <2>0. /\ Mine(sent, me) /\ x.id = me.id /\ x.cmd = me.cmd /\ x.len = me.len
        /\ x.phase = me.phase /\ x.channel = me.channel
    BY <1>0, <1>1
  <2> HIDE DEF me, x
  <2>1. Mine(sent, x)
    <3> DEFINE l == sent
    <3>1. Len(l) \in Nat /\ Len(l) <= Len(l) /\ \A m \in 1 .. Len(l) : l[m] = l[m]
      BY <1>0
    <3>2. Mine(l, me)
      BY <2>0
    <3> HIDE DEF l
    <3>3. Mine(l, x)
      BY <2>0, <3>1, <3>2, MineGrows
    <3>4. QED
      BY <3>3 DEF l
  <2>2. QED
    BY <1>0, <1>1, <2>1 DEF x
<1>2. CASE UNCHANGED <<app, sent>>
  BY <1>2 DEF MineInv
<1>3. ASSUME NEW a \in Apps, Open(a) \/ Request(a) \/ Resync(a) PROVE MineInv'
  <2>1. PICK cid \in Cids, cmd \in Words, n \in Nat :
           /\ app'[a].channel = app[a].channel /\ app'[a].id = Len(sent) + 1
           /\ app'[a].phase = "waiting" /\ app'[a].cmd = cmd /\ app'[a].len = n
           /\ Len(sent') = Len(sent) + 1
           /\ sent'[Len(sent) + 1] = [cid |-> cid, cmd |-> cmd, data |-> Message(Len(sent) + 1, n)]
           /\ cid = Post(app[a])
           /\ \/ cmd = "init" /\ n = NonceLength
              \/ cmd \in {"ping", "cbor"} /\ app[a].phase \in {"ready", "answered"}
    BY <1>3, SubmittedAs
  <2>2. /\ \A m \in 1 .. Len(sent) : sent'[m] = sent[m]
        /\ \A b \in Apps \ {a} : app'[b] = app[b]
    BY <1>3, Submitted
  <2>3. Mine(sent', app'[a])
    <3> DEFINE m == Len(sent) + 1
               x == app'[a]
               t == sent'
    <3>1. m \in 1 .. Len(t) /\ x.id = m /\ x.cmd = cmd /\ x.len = n
      BY <1>0, <2>1
    <3>2. t[m].cid = Post(x) /\ t[m].cmd = cmd /\ t[m].data = Message(m, n)
      BY <2>1 DEF Post
    <3> HIDE DEF m, x, t
    <3>3. cmd \in {"init", "ping", "cbor"} /\ (cmd = "init" => n = NonceLength)
      BY <2>1
    <3>4. Mine(t, x)
      BY <3>1, <3>2, <3>3 DEF Mine
    <3>5. QED
      BY <3>4 DEF t, x
  <2>4. ASSUME NEW b \in Apps \ {a} PROVE Mine(sent', app'[b])
    <3> DEFINE x == app[b]
    <3>1. Mine(sent, x) /\ app'[b] = x
      BY <1>0, <2>2
    <3> HIDE DEF x
    <3>2. Mine(sent', x)
      BY <1>0, <2>1, <2>2, <3>1, MineGrows
    <3>3. QED
      BY <3>1, <3>2
  <2>5. \A b \in Apps : Closing(app'[b])
    BY <1>0, <2>1, <2>2
  <2>6. QED
    BY <2>3, <2>4, <2>5 DEF MineInv
<1>4. ASSUME NEW a \in Apps, Cancel(a) PROVE MineInv'
  <2>1. /\ UNCHANGED sent /\ app'[a].id = app[a].id /\ app'[a].cmd = app[a].cmd
        /\ app'[a].len = app[a].len /\ app'[a].phase = app[a].phase
        /\ app'[a].channel = app[a].channel /\ \A b \in Apps \ {a} : app'[b] = app[b]
    BY <1>0, <1>4, Cancelling
  <2>2. QED
    BY <1>0, <1>1, <2>1 DEF MineInv
<1>5. ASSUME NEW a \in Apps, Write(a) PROVE MineInv'
  <2>1. /\ UNCHANGED sent /\ app'[a].id = app[a].id /\ app'[a].cmd = app[a].cmd
        /\ app'[a].len = app[a].len /\ app'[a].phase = app[a].phase
        /\ app'[a].channel = app[a].channel /\ \A b \in Apps \ {a} : app'[b] = app[b]
    BY <1>5, Writing
  <2>2. QED
    BY <1>0, <1>1, <2>1 DEF MineInv
<1>6. ASSUME NEW i \in Interfaces, Read(i) PROVE MineInv'
  <2>1. PICK p \in Packets :
              /\ ReportOK(p)
              /\ \A a \in Apps : app'[a] = IF Home[a] = i THEN Hear(a, p) ELSE app[a]
              /\ UNCHANGED sent
    BY <1>6, Reading, Zenon
  <2>2. ASSUME NEW a \in Apps PROVE Mine(sent, app'[a]) /\ Closing(app'[a])
    <3> DEFINE me == app[a]
               y == Hear(a, p)
               g == Assemble(me.got, p)
    <3>1. y = Hear(a, p) /\ (app'[a] = me \/ app'[a] = y) /\ g = Assemble(me.got, p) /\ me = app[a]
      BY <2>1
    <3> HIDE DEF y, g, me
    <3>2. Heard(me, p, g, y)
      BY <1>0, <2>1, <3>1, HearCases
    <3>3. y = me \/ (/\ y.id = me.id /\ y.cmd = me.cmd /\ y.len = me.len /\ me.phase = "waiting"
                     /\ y.phase \in {"waiting", "ready", "answered", "failed"}
                     /\ y.phase = "waiting" => y.channel = me.channel)
      BY <3>2 DEF Heard
    <3>4. Mine(sent, me) /\ Closing(me)
      BY <1>0, <3>1
    <3>5. Mine(sent, y) /\ Closing(y)
      <4>1. CASE y = me
        BY <3>4, <4>1
      <4>2. CASE y # me
        <5>1. Mine(sent, y)
          BY <1>0, <3>3, <3>4, <4>2, MineGrows
        <5>2. QED
          BY <3>3, <4>2, <5>1
      <4>3. QED
        BY <4>1, <4>2
    <3>6. QED
      BY <3>1, <3>4, <3>5
  <2>3. QED
    BY <2>1, <2>2 DEF MineInv
<1>7. CASE Umount
  <2>1. \A a \in Apps : app'[a].phase = "closed" /\ app'[a].channel = 0
    BY <1>7 DEF Umount, Closed
  <2>2. QED
    BY <2>1 DEF MineInv, Mine
<1>8. QED
  BY <1>2, <1>3, <1>4, <1>5, <1>6, <1>7, Zenon DEF SysNext, DeviceStep, sysVars

--------------------------------------------------------------------------------
(* The steps of the system                                                   *)

\* A program keeps the channel that it has.
LEMMA ChannelKept ==
  ASSUME Types, WireInv, [SysNext]_sysVars, ~ Umount, NEW a \in Apps
  PROVE  app'[a].channel = app[a].channel \/ app[a].channel = 0
<1>1. ASSUME NEW b \in Apps, Open(b) \/ Request(b) \/ Resync(b)
      PROVE  app'[a].channel = app[a].channel
  BY <1>1, Submitted
<1>2. ASSUME NEW b \in Apps, Cancel(b)
      PROVE  app'[a].channel = app[a].channel
  BY <1>2, Cancelled
<1>3. ASSUME NEW b \in Apps, Write(b)
      PROVE  app'[a].channel = app[a].channel
  BY <1>3, Writing
<1>4. ASSUME NEW i \in Interfaces, Read(i)
      PROVE  app'[a].channel = app[a].channel \/ app[a].channel = 0
  <2>1. PICK p \in Packets :
          ReportOK(p) /\ \A b \in Apps : app'[b] = IF Home[b] = i THEN Hear(b, p) ELSE app[b]
    BY <1>4, Reading
  <2> DEFINE y == Hear(a, p)
  <2>2. y = Hear(a, p) /\ (app'[a] = app[a] \/ app'[a] = y)
    BY <2>1
  <2> HIDE DEF y
  <2>3. y.channel = app[a].channel \/ app[a].channel = 0
    BY <2>1, <2>2, HearType DEF Types
  <2>4. QED
    BY <2>2, <2>3
<1>5. QED
  BY <1>1, <1>2, <1>3, <1>4, Zenon DEF SysNext, DeviceStep, sysVars

LEMMA OwnedKept ==
  ASSUME Types, WireInv, OwnedOK, [SysNext]_sysVars, ~ Umount,
         \A c \in Cids : InUse(c)' => InUse(c) \/ Known(c)
  PROVE  OwnedOK'
<1>1. \A c \in Cids : c # 0
  BY DEF Cids
<1>2. \A c \in Cids : Known(c) => Known(c)'
  BY <1>1, ChannelKept DEF Known
<1>3. QED
  BY <1>2 DEF OwnedOK

\* What is in use stays of the channels that were, or is of those of the programs.
LEMMA OwnedStep ==
  ASSUME Types, WireInv, StreamOK, OwnedOK, [SysNext]_sysVars, ~ Umount
  PROVE  OwnedOK'
<1>0. /\ request \in [Interfaces -> Requests] /\ response \in [Interfaces -> Replies]
      /\ toDevice \in [Interfaces -> Seq(Packets)]
      /\ \A i \in Interfaces : ReplyOK(response[i])
      /\ serving # NoInterface => request[serving].active
  BY DEF Types, RequestTypes, ReplyTypes, WireTypes
<1>1. CASE UNCHANGED <<toDevice, request, response>>
  <2>1. \A c \in Cids : InUse(c)' => InUse(c)
    BY <1>1 DEF InUse
  <2>2. QED
    BY <2>1, OwnedKept
<1>2. ASSUME NEW i \in Interfaces, Receive(i) PROVE OwnedOK'
  <2> DEFINE p == Head(toDevice[i])
  <2>1. /\ p = toDevice[i][1] /\ 1 \in 1 .. Len(toDevice[i])
        /\ \A j \in Interfaces \ {i} : toDevice'[j] = toDevice[j]
        /\ \A n \in 1 .. Len(toDevice'[i]) :
             n + 1 \in 1 .. Len(toDevice[i]) /\ toDevice'[i][n] = toDevice[i][n + 1]
    BY <1>2, Taken
  <2>2. /\ Effect(sent, p, request[i], response[i], request'[i], response'[i])
        /\ \A j \in Interfaces \ {i} : request'[j] = request[j] /\ response'[j] = response[j]
    BY <1>2, HandleEffect
  <2> HIDE DEF p
  <2>3. /\ request'[i].active =>
             request'[i].cid = p.cid \/ (request[i].active /\ request'[i].cid = request[i].cid)
        /\ response'[i].active =>
             response'[i].cid = p.cid \/ (response[i].active /\ response'[i].cid = response[i].cid)
    BY <2>2 DEF Effect, Gathers, Objects, Replied
  <2>4. InUse(p.cid)
    BY <2>1 DEF InUse
  <2>5. ASSUME NEW c \in Cids, InUse(c)' PROVE InUse(c)
    <3>1. PICK j \in Interfaces : \/ \E n \in 1 .. Len(toDevice'[j]) : toDevice'[j][n].cid = c
                                  \/ request'[j].active /\ request'[j].cid = c
                                  \/ response'[j].active /\ response'[j].cid = c
      BY <2>5, Zenon DEF InUse
    <3>2. CASE j # i
      <4>1. toDevice'[j] = toDevice[j] /\ request'[j] = request[j] /\ response'[j] = response[j]
        BY <2>1, <2>2, <3>2
      <4>2. QED
        BY <3>1, <4>1 DEF InUse
    <3>3. CASE j = i
      <4>1. CASE \E n \in 1 .. Len(toDevice'[i]) : toDevice'[i][n].cid = c
        BY <2>1, <4>1 DEF InUse
      <4>2. CASE request'[i].active /\ request'[i].cid = c
        BY <2>3, <2>4, <4>2 DEF InUse
      <4>3. CASE response'[i].active /\ response'[i].cid = c
        BY <2>3, <2>4, <4>3 DEF InUse
      <4>4. QED
        BY <3>1, <3>3, <4>1, <4>2, <4>3
    <3>4. QED
      BY <3>2, <3>3
  <2>6. QED
    BY <2>5, OwnedKept
<1>3. ASSUME NEW i \in Interfaces, SendNext(i) PROVE OwnedOK'
  <2> DEFINE x == Remaining(response[i])
  <2>1. /\ response[i].active /\ UNCHANGED <<request, toDevice>>
        /\ response' = [response EXCEPT ![i] = x]
    BY <1>3, Sending DEF Remaining
  <2>2. response'[i] = x /\ \A j \in Interfaces \ {i} : response'[j] = response[j]
    BY <1>0, <2>1
  <2>3. x.active => x.cid = response[i].cid
    <3> DEFINE s == response[i]
    <3>1. s \in Replies /\ ReplyOK(s) /\ s.active /\ x = Remaining(s)
      BY <1>0, <2>1
    <3> HIDE DEF s, x
    <3>2. x = NoReply \/ x.cid = s.cid
      BY <3>1, RemainingType
    <3>3. QED
      BY <3>2 DEF NoReply, s
  <2> HIDE DEF x
  <2>4. \A c \in Cids : InUse(c)' => InUse(c)
    BY <2>1, <2>2, <2>3 DEF InUse
  <2>5. QED
    BY <2>4, OwnedKept
<1>4. ASSUME NEW i \in Interfaces, FinishCbor(i) PROVE OwnedOK'
  <2>1. PICK n \in AnswerLengths : Reply(i, request[i].cid, "cbor", Answer(request[i], n))
    BY <1>4 DEF FinishCbor
  <2>2. /\ serving = i /\ request' = [request EXCEPT ![i] = Idle] /\ UNCHANGED toDevice
    BY <1>4 DEF FinishCbor
  <2>3. request'[i] = Idle /\ \A j \in Interfaces \ {i} : request'[j] = request[j]
    BY <1>0, <2>2
  <2>4. response'[i].cid = request[i].cid /\ \A j \in Interfaces \ {i} : response'[j] = response[j]
    BY <2>1, Queued DEF Types
  <2>5. request[i].active /\ Idle.active = FALSE
    BY <1>0, <2>2, Sizes DEF Idle
  <2>6. \A c \in Cids : InUse(c)' => InUse(c)
    BY <2>2, <2>3, <2>4, <2>5 DEF InUse
  <2>7. QED
    BY <2>6, OwnedKept
<1>5. ASSUME NEW a \in Apps, Write(a) PROVE OwnedOK'
  <2> DEFINE p == Head(app[a].toWrite)
             h == Home[a]
  <2>1. /\ UNCHANGED <<request, response>> /\ p \in Packets
        /\ toDevice' = [toDevice EXCEPT ![h] = Append(@, p)]
    BY <1>5, Writing
  <2>2. p.cid # Broadcast => p.cid = app[a].channel
    BY <1>5, Written
  <2> HIDE DEF p, h
  <2>3. Known(p.cid)
    BY <2>2 DEF Known
  <2>4. ASSUME NEW j \in Interfaces, NEW n \in 1 .. Len(toDevice'[j])
        PROVE  toDevice'[j][n] = p \/ (n \in 1 .. Len(toDevice[j]) /\ toDevice'[j][n] = toDevice[j][n])
    <3>1. CASE toDevice'[j] = toDevice[j]
      BY <2>4, <3>1
    <3>2. CASE toDevice'[j] = Append(toDevice[j], p)
      <4> DEFINE q == toDevice[j]
      <4>1. q \in Seq(Packets) /\ toDevice'[j] = Append(q, p)
        BY <1>0, <3>2
      <4> HIDE DEF q
      <4>2. Len(toDevice'[j]) = Len(q) + 1 /\ Len(q) \in Nat /\ toDevice'[j][Len(q) + 1] = p
            /\ \A k \in 1 .. Len(q) : toDevice'[j][k] = q[k]
        BY <2>1, <4>1, AppendProperties
      <4>3. n \in 1 .. Len(q) \/ n = Len(q) + 1
        BY <4>2
      <4>4. QED
        BY <4>2, <4>3 DEF q
    <3>3. QED
      BY <1>0, <2>1, <3>1, <3>2
  <2>5. \A c \in Cids : InUse(c)' => InUse(c) \/ Known(c)
    BY <2>1, <2>3, <2>4 DEF InUse
  <2>6. QED
    BY <2>5, OwnedKept
<1>6. ASSUME NEW a \in Apps, Open(a) \/ Request(a) \/ Resync(a) \/ Cancel(a)
      PROVE  UNCHANGED <<toDevice, request, response>>
  BY <1>6, Zenon DEF Open, Request, Resync, Submit, Cancel, vars
<1>7. ASSUME NEW i \in Interfaces, Read(i) \/ Keepalive(i) \/ EndpointDone(i)
      PROVE  UNCHANGED <<toDevice, request, response>>
  BY <1>7, Zenon DEF Read, Keepalive, EndpointDone
<1>8. CASE UNCHANGED sysVars
  BY <1>1, <1>8 DEF sysVars, vars
<1>9. QED
  BY <1>1, <1>2, <1>3, <1>4, <1>5, <1>6, <1>7, <1>8, Zenon DEF SysNext, DeviceStep, Device

\* What a step that changes one interface only has to keep for the programs that use it.
LEMMA AwaitsAt ==
  ASSUME NEW i \in Interfaces, UNCHANGED app, \A a \in Apps : Awaits(a),
         \A j \in Interfaces \ {i} : /\ toDevice'[j] = toDevice[j] /\ request'[j] = request[j]
                                     /\ response'[j] = response[j] /\ toHost'[j] = toHost[j],
         \A a \in Apps : ProgramAnswered(app[a], toDevice[i], request[i], response[i], toHost[i]) =>
                         ProgramAnswered(app[a], toDevice'[i], request'[i], response'[i], toHost'[i])
  PROVE  \A a \in Apps : Awaits(a)'
<1> TAKE a \in Apps
<1> DEFINE h == Home[a]
<1>1. h \in Interfaces
  BY Sizes
<1>2. ProgramAnswered(app[a], toDevice[h], request[h], response[h], toHost[h])
  BY Zenon DEF Awaits
<1> HIDE DEF h
<1>3. ProgramAnswered(app'[a], toDevice'[h], request'[h], response'[h], toHost'[h])
  <2>1. CASE h = i
    BY <1>2, <2>1, Zenon
  <2>2. CASE h # i
    <3>1. /\ toDevice'[h] = toDevice[h] /\ request'[h] = request[h]
          /\ response'[h] = response[h] /\ toHost'[h] = toHost[h]
      BY <1>1, <2>2
    <3>2. QED
      BY <1>2, <3>1, Zenon
  <2>3. QED
    BY <2>1, <2>2
<1>4. QED
  BY <1>3, Zenon DEF Awaits, h

LEMMA AnswersReceived ==
  ASSUME Types, WireInv, StreamOK, MineInv, AnswersOK, Types',
         NEW i \in Interfaces, Receive(i), UNCHANGED <<app, sent>>
  PROVE  DeviceOK' /\ \A a \in Apps : Awaits(a)'
<1> DEFINE q  == toDevice[i]
           t  == toDevice'[i]
           r  == request[i]
           r2 == request'[i]
           s  == response[i]
           s2 == response'[i]
           h  == toHost[i]
<1>1. /\ Rest(q, t) /\ serving = NoInterface /\ Head(q) = q[1]
      /\ UNCHANGED <<busy, toHost>> /\ \A j \in Interfaces \ {i} : toDevice'[j] = toDevice[j]
  BY Taken DEF Rest
<1>2. /\ Effect(sent, q[1], r, s, r2, s2)
      /\ \A j \in Interfaces \ {i} : request'[j] = request[j] /\ response'[j] = response[j]
      /\ serving' = serving \/ (serving' = i /\ Len(r2.data) >= r2.len)
  BY <1>1, HandleEffect, Zenon
<1>3. r2 \in Requests /\ (r2.active => Gathered(sent, r2))
  BY HandleStep DEF Types, RequestTypes
<1>4. QueueOK(sent, q) /\ Log(sent)
  BY DEF WireInv
<1>5. /\ \A j \in Interfaces : SpokenOK(sent, response[j], toHost[j])
      /\ \A a \in Apps : Awaits(a)
  BY DEF AnswersOK, DeviceOK
<1>6. SpokenOK(sent, s2, h)
  <2>1. SpokenOK(sent, s, h)
    BY <1>5
  <2> HIDE DEF q, r, r2, s, s2, h
  <2>2. s2 = s \/ Objects(q[1], s2) \/ Replied(sent, q[1], r2, s2)
    BY <1>2 DEF Effect
  <2>3. s2.active => /\ s2.cmd = "init" => Of(s2.data) \in 1 .. Len(sent)
                     /\ s2.cmd = "error" => s2.sent = 0 /\ Len(s2.data) = 1
    BY <2>1, <2>2 DEF SpokenOK, Objects, Replied
  <2>4. QED
    BY <2>1, <2>3 DEF SpokenOK
<1>7. DeviceOK'
  <2>1. \A j \in Interfaces : SpokenOK(sent, response'[j], toHost[j])
    BY <1>2, <1>5, <1>6
  <2>2. serving' # NoInterface => Len(request'[serving'].data) >= request'[serving'].len
    BY <1>1, <1>2
  <2>3. QED
    BY <1>1, <2>1, <2>2 DEF DeviceOK
<1>8. ASSUME NEW a \in Apps, ProgramAnswered(app[a], q, r, s, h)
      PROVE  ProgramAnswered(app[a], t, r2, s2, h)
  <2>1. app[a] \in Programs /\ Mine(sent, app[a]) /\ WritesOK(sent, app[a])
    BY DEF Types, ProgramTypes, MineInv, WireInv
  <2> HIDE DEF q, t, r, r2, s, s2, h
  <2>2. QED
    BY <1>1, <1>2, <1>3, <1>4, <1>8, <2>1, ProgramReceived
<1>9. \A a \in Apps : Awaits(a)'
  BY <1>1, <1>2, <1>5, <1>8, AwaitsAt
<1>10. QED
  BY <1>7, <1>9

\* What Report leaves, when the report before it has been taken.
LEMMA Reported ==
  ASSUME Types, NEW i \in Interfaces, ~ busy[i], NEW x, Report(i, x)
  PROVE  /\ toHost[i] = <<>> /\ toHost'[i] = <<x>>
         /\ \A j \in Interfaces \ {i} : toHost'[j] = toHost[j]
BY DEF Types, WireTypes, Plugged, Report

LEMMA AnswersSent ==
  ASSUME Types, AnswersOK, NEW i \in Interfaces, SendNext(i), UNCHANGED <<app, sent>>
  PROVE  DeviceOK' /\ \A a \in Apps : Awaits(a)'
<1> DEFINE s  == response[i]
           x  == NextPacket(s)
           s2 == Remaining(s)
<1>1. /\ s.active /\ Report(i, x) /\ UNCHANGED <<request, serving, toDevice>>
      /\ response' = [response EXCEPT ![i] = s2] /\ ~ busy[i]
  BY Sending DEF Remaining, SendNext
<1>2. /\ s \in Replies /\ ReplyOK(s) /\ response \in [Interfaces -> Replies]
      /\ x = NextPacket(s) /\ s2 = Remaining(s) /\ s = response[i]
  BY DEF Types, ReplyTypes
<1> HIDE DEF s, x, s2
<1>3. response'[i] = s2 /\ \A j \in Interfaces \ {i} : response'[j] = response[j]
  BY <1>1, <1>2
<1>4. /\ toHost[i] = <<>> /\ toHost'[i] = <<x>>
      /\ \A j \in Interfaces \ {i} : toHost'[j] = toHost[j]
  BY <1>1, Reported
<1>5. /\ \A j \in Interfaces : SpokenOK(sent, response[j], toHost[j])
      /\ serving # NoInterface => Len(request[serving].data) >= request[serving].len
      /\ \A a \in Apps : Awaits(a)
  BY DEF AnswersOK, DeviceOK
<1>6. SpokenOK(sent, s, <<>>)
  BY <1>2, <1>4, <1>5
<1>7. ASSUME NEW a \in Apps, ProgramAnswered(app[a], toDevice[i], request[i], response[i], toHost[i])
      PROVE  ProgramAnswered(app[a], toDevice'[i], request'[i], response'[i], toHost'[i])
  <2> DEFINE me == app[a]
             q  == toDevice[i]
             r  == request[i]
  <2>1. me \in Programs /\ ProgramOK(me) /\ me = app[a]
    BY DEF Types, ProgramTypes
  <2>2. ProgramAnswered(me, q, r, s, <<>>)
    BY <1>2, <1>4, <1>7, Zenon
  <2> HIDE DEF me, q, r
  <2>3. ProgramAnswered(me, q, r, s2, <<x>>)
    BY <1>1, <1>2, <1>6, <2>1, <2>2, ProgramSent
  <2>4. QED
    BY <1>1, <1>3, <1>4, <2>3, Zenon DEF me, q, r
<1>8. \A a \in Apps : Awaits(a)'
  BY <1>1, <1>3, <1>4, <1>5, <1>7, AwaitsAt
<1>9. DeviceOK'
  <2>1. SpokenOK(sent, s2, <<x>>)
    BY <1>1, <1>2, <1>6, SpokenSent
  <2>2. \A j \in Interfaces : SpokenOK(sent, response'[j], toHost'[j])
    BY <1>3, <1>4, <1>5, <2>1
  <2>3. QED
    BY <1>1, <1>5, <2>2 DEF DeviceOK
<1>10. QED
  BY <1>8, <1>9

LEMMA AnswersDelayed ==
  ASSUME Types, AnswersOK, NEW i \in Interfaces, Keepalive(i), UNCHANGED <<app, sent>>
  PROVE  DeviceOK' /\ \A a \in Apps : Awaits(a)'
<1> DEFINE x == Packet(request[i].cid, TRUE, "keepalive", 1, 0, <<[of |-> 0, at |-> 2]>>)
<1>1. /\ serving = i /\ ~ busy[i] /\ Report(i, x)
      /\ UNCHANGED <<request, response, serving, toDevice>>
  BY DEF Keepalive
<1>2. x.cid = request[i].cid /\ x.cmd = "keepalive"
  BY DEF Packet
<1> HIDE DEF x
<1>3. /\ toHost[i] = <<>> /\ toHost'[i] = <<x>>
      /\ \A j \in Interfaces \ {i} : toHost'[j] = toHost[j]
  BY <1>1, Reported
<1>4. request[i].active
  BY <1>1, Sizes DEF Types, RequestTypes
<1>5. /\ \A j \in Interfaces : SpokenOK(sent, response[j], toHost[j])
      /\ serving # NoInterface => Len(request[serving].data) >= request[serving].len
      /\ \A a \in Apps : Awaits(a)
  BY DEF AnswersOK, DeviceOK
<1>6. SpokenOK(sent, response[i], <<x>>)
  <2>1. SpokenOK(sent, response[i], <<>>)
    BY <1>3, <1>5
  <2> DEFINE h == <<x>>
  <2>2. Head(h) = x
    OBVIOUS
  <2> HIDE DEF h
  <2>3. SpokenOK(sent, response[i], h)
    BY <1>2, <2>1, <2>2 DEF SpokenOK
  <2>4. QED
    BY <2>3 DEF h
<1>7. DeviceOK'
  <2>1. \A j \in Interfaces : SpokenOK(sent, response[j], toHost'[j])
    BY <1>3, <1>5, <1>6
  <2>2. QED
    BY <1>1, <1>5, <2>1 DEF DeviceOK
<1>8. ASSUME NEW a \in Apps, ProgramAnswered(app[a], toDevice[i], request[i], response[i], toHost[i])
      PROVE  ProgramAnswered(app[a], toDevice'[i], request'[i], response'[i], toHost'[i])
  <2> DEFINE me == app[a]
             q  == toDevice[i]
             r  == request[i]
             s  == response[i]
  <2>1. ProgramAnswered(me, q, r, s, <<>>) /\ x.cid = r.cid /\ r.active
    BY <1>2, <1>3, <1>4, <1>8, Zenon
  <2> HIDE DEF me, q, r, s
  <2>2. ProgramAnswered(me, q, r, s, <<x>>)
    BY <1>2, <2>1, ProgramKept
  <2>3. QED
    BY <1>1, <1>3, <2>2, Zenon DEF me, q, r, s
<1>9. \A a \in Apps : Awaits(a)'
  BY <1>1, <1>3, <1>5, <1>8, AwaitsAt
<1>10. QED
  BY <1>7, <1>9

LEMMA AnswersFinished ==
  ASSUME Types, WireInv, StreamOK, MineInv, AnswersOK,
         NEW i \in Interfaces, FinishCbor(i), UNCHANGED <<app, sent>>
  PROVE  DeviceOK' /\ \A a \in Apps : Awaits(a)'
<1> DEFINE r  == request[i]
           s2 == response'[i]
<1>1. PICK n \in AnswerLengths : Reply(i, r.cid, "cbor", Answer(r, n))
  BY DEF FinishCbor
<1>2. /\ serving = i /\ request' = [request EXCEPT ![i] = Idle] /\ serving' = NoInterface
      /\ UNCHANGED <<toDevice, toHost>>
  BY DEF FinishCbor
<1>3. request'[i] = Idle /\ \A j \in Interfaces \ {i} : request'[j] = request[j]
  BY <1>2 DEF Types, RequestTypes
<1>4. /\ s2.active /\ s2.cid = r.cid /\ s2.cmd = "cbor" /\ s2.sent = 0
      /\ s2.data = Prefix(Answer(r, n), MaxMessage)
      /\ \A j \in Interfaces \ {i} : response'[j] = response[j]
  BY <1>1, Queued DEF Types
<1>5. /\ \A j \in Interfaces : SpokenOK(sent, response[j], toHost[j])
      /\ serving # NoInterface => Len(request[serving].data) >= request[serving].len
      /\ \A a \in Apps : Awaits(a)
  BY DEF AnswersOK, DeviceOK
<1>6. /\ r \in Requests /\ r.active /\ r.cmd = "cbor" /\ Gathered(sent, r) /\ Len(r.data) >= r.len
      /\ Log(sent) /\ QueueOK(sent, toDevice[i])
  <2>1. r \in Requests /\ r.active /\ r.cmd = "cbor" /\ Len(r.data) >= r.len
    BY <1>2, <1>5, Sizes DEF Types, RequestTypes
  <2>2. QED
    BY <2>1 DEF StreamOK, WireInv
<1> HIDE DEF r, s2
<1>7. DeviceOK'
  <2>1. \A j \in Interfaces : SpokenOK(sent, response'[j], toHost[j])
    <3>1. SpokenOK(sent, s2, toHost[i])
      BY <1>4, <1>5 DEF SpokenOK
    <3>2. QED
      BY <1>4, <1>5, <3>1 DEF s2
  <2>2. QED
    BY <1>2, <2>1 DEF DeviceOK
<1>8. ASSUME NEW a \in Apps, ProgramAnswered(app[a], toDevice[i], request[i], response[i], toHost[i])
      PROVE  ProgramAnswered(app[a], toDevice'[i], request'[i], response'[i], toHost'[i])
  <2> DEFINE me == app[a]
             q  == toDevice[i]
             s  == response[i]
             h  == toHost[i]
  <2>1. /\ me \in Programs /\ Mine(sent, me) /\ WritesOK(sent, me) /\ QueueOK(sent, q)
        /\ ProgramAnswered(me, q, r, s, h)
    BY <1>6, <1>8, Zenon DEF Types, ProgramTypes, MineInv, WireInv, r
  <2> HIDE DEF me, q, s, h
  <2>2. ProgramAnswered(me, q, Idle, s2, h)
    BY <1>4, <1>6, <2>1, ProgramFinished
  <2>3. QED
    BY <1>2, <1>3, <2>2, Zenon DEF me, q, s2, h
<1>9. \A a \in Apps : Awaits(a)'
  BY <1>2, <1>3, <1>4, <1>5, <1>8, AwaitsAt
<1>10. QED
  BY <1>7, <1>9

LEMMA SpokenGrows ==
  ASSUME NEW l, NEW t, Len(l) \in Nat, Len(t) \in Nat, Len(l) <= Len(t),
         NEW s, NEW h, SpokenOK(l, s, h)
  PROVE  SpokenOK(t, s, h)
<1>1. \A m \in 1 .. Len(l) : m \in 1 .. Len(t)
  OBVIOUS
<1>2. QED
  BY <1>1, Zenon DEF SpokenOK

\* What the programs that take no part in it wait for goes on as it was.
LEMMA AnswersSubmitted ==
  ASSUME Types, WireInv, StreamOK, MineInv, AnswersOK,
         NEW a \in Apps, Open(a) \/ Request(a) \/ Resync(a)
  PROVE  DeviceOK' /\ \A b \in Apps : Awaits(b)'
<1>1. PICK cid \in Cids, cmd \in Words, n \in Nat :
           /\ app'[a].channel = app[a].channel /\ app'[a].id = Len(sent) + 1
           /\ app'[a].phase = "waiting" /\ app'[a].cmd = cmd /\ app'[a].len = n
           /\ app'[a].got = NoReply
           /\ Message(Len(sent) + 1, n) \in Data
           /\ app'[a].toWrite = Cut(cid, cmd, Message(Len(sent) + 1, n))
           /\ Len(sent') = Len(sent) + 1
           /\ \/ cmd = "init" /\ n = NonceLength /\ Len(app'[a].toWrite) = 1
              \/ cmd \in {"ping", "cbor"} /\ app[a].phase \in {"ready", "answered"}
  BY SubmittedAs
<1>2. UNCHANGED vars /\ \A b \in Apps \ {a} : app'[b] = app[b]
  BY Submitted
<1>3. UNCHANGED <<toDevice, request, response, toHost, serving>>
  BY <1>2 DEF vars
<1>4. /\ \A j \in Interfaces : SpokenOK(sent, response[j], toHost[j])
      /\ serving # NoInterface => Len(request[serving].data) >= request[serving].len
      /\ \A b \in Apps : Awaits(b)
  BY DEF AnswersOK, DeviceOK
<1>5. Len(sent) \in Nat /\ Len(sent') \in Nat /\ Len(sent) <= Len(sent')
  BY <1>1 DEF Types, ProgramTypes
<1>6. DeviceOK'
  <2>1. \A j \in Interfaces : SpokenOK(sent', response[j], toHost[j])
    BY <1>4, <1>5, SpokenGrows
  <2>2. QED
    BY <1>3, <1>4, <2>1 DEF DeviceOK
<1>7. Awaits(a)'
  <2> DEFINE i  == Home[a]
             q  == toDevice[i]
             r  == request[i]
             s  == response[i]
             h  == toHost[i]
             me == app[a]
             x  == app'[a]
             d  == Message(Len(sent) + 1, n)
  <2>1. /\ i \in Interfaces /\ Log(sent) /\ QueueOK(sent, q) /\ (r.active => Gathered(sent, r))
        /\ SpokenOK(sent, s, h)
    BY <1>4, Sizes DEF WireInv, StreamOK
  <2>2. ProgramAnswered(me, q, r, s, h)
    BY <1>4, Zenon DEF Awaits
  <2>3. /\ x.channel = me.channel /\ x.id = Len(sent) + 1 /\ x.phase = "waiting" /\ x.cmd = cmd
        /\ x.len = n /\ x.got = NoReply /\ x.toWrite = Cut(cid, cmd, d) /\ d \in Data
        /\ \/ cmd = "init" /\ Len(x.toWrite) = 1
           \/ cmd \in {"ping", "cbor"} /\ me.phase \in {"ready", "answered"}
    BY <1>1
  <2> HIDE DEF i, q, r, s, h, me, x, d
  <2>4. CASE cmd = "init" /\ Len(x.toWrite) = 1
    <3>1. Hailed(x, q, r, s, h)
      BY <2>1, <2>3, <2>4, InitHailed
    <3>2. QED
      BY <1>3, <2>3, <2>4, <3>1, Zenon DEF ProgramAnswered, Awaits, i, q, r, s, h, x
  <2>5. CASE cmd \in {"ping", "cbor"} /\ me.phase \in {"ready", "answered"}
    <3>1. Quiet(me, q, r, s, h)
      BY <2>2, <2>5 DEF ProgramAnswered
    <3>2. Asked(x, q, r, s, h)
      BY <2>3, <3>1, RequestAsked
    <3>3. cmd # "init"
      BY <2>5
    <3>4. QED
      BY <1>3, <2>3, <3>2, <3>3, Zenon DEF ProgramAnswered, Awaits, i, q, r, s, h, x
  <2>6. QED
    BY <2>3, <2>4, <2>5
<1>8. ASSUME NEW b \in Apps \ {a} PROVE Awaits(b)'
  <2>1. Awaits(b) /\ app'[b] = app[b]
    BY <1>2, <1>4
  <2>2. QED
    BY <1>3, <2>1, Zenon DEF Awaits
<1>9. QED
  BY <1>6, <1>7, <1>8

LEMMA AnswersCancelled ==
  ASSUME Types, AnswersOK, NEW a \in Apps, Cancel(a)
  PROVE  DeviceOK' /\ \A b \in Apps : Awaits(b)'
<1>1. /\ UNCHANGED <<vars, sent>> /\ app[a].channel \in 1 .. Broadcast - 1
      /\ app'[a].toWrite = Cut(app[a].channel, "cancel", <<>>)
      /\ app'[a].channel = app[a].channel /\ app'[a].id = app[a].id
      /\ app[a].phase = "waiting" /\ app[a].cmd = "cbor"
      /\ app'[a].phase = app[a].phase /\ app'[a].cmd = app[a].cmd
      /\ app'[a].len = app[a].len /\ app'[a].got = app[a].got
      /\ \A b \in Apps \ {a} : app'[b] = app[b]
  BY Cancelling DEF Types
<1>2. UNCHANGED <<toDevice, request, response, toHost, serving, sent>>
  BY <1>1 DEF vars
<1>3. DeviceOK' /\ \A b \in Apps : Awaits(b)
  BY <1>2 DEF AnswersOK, DeviceOK
<1>4. Awaits(a)'
  <2> DEFINE q  == toDevice[Home[a]]
             r  == request[Home[a]]
             s  == response[Home[a]]
             h  == toHost[Home[a]]
             me == app[a]
             x  == app'[a]
  <2>1. Len(x.toWrite) = 1 /\ x.toWrite[1].cmd = "cancel"
    <3> DEFINE cut == x.toWrite
    <3>1. cut = Cut(app[a].channel, "cancel", <<>>)
      BY <1>1
    <3> HIDE DEF cut
    <3>2. Len(cut) = 1 /\ IsCancel(cut[1])
      BY <1>1, <3>1, CancelPacket
    <3>3. QED
      BY <3>2 DEF IsCancel, cut
  <2>2. ProgramAnswered(me, q, r, s, h)
    BY <1>3, Zenon DEF Awaits
  <2>3. /\ x.channel = me.channel /\ x.id = me.id /\ x.cmd = me.cmd /\ x.len = me.len
        /\ x.got = me.got /\ x.phase = "waiting" /\ me.phase = "waiting" /\ me.cmd # "init"
    BY <1>1
  <2> HIDE DEF q, r, s, h, me, x
  <2>4. Asked(me, q, r, s, h)
    BY <2>2, <2>3 DEF ProgramAnswered
  <2>5. Asked(x, q, r, s, h)
    BY <2>1, <2>3, <2>4, CancelAsked
  <2>6. QED
    BY <1>2, <2>3, <2>5, Zenon DEF ProgramAnswered, Awaits, q, r, s, h, x
<1>5. ASSUME NEW b \in Apps \ {a} PROVE Awaits(b)'
  <2>1. Awaits(b) /\ app'[b] = app[b]
    BY <1>1, <1>3
  <2>2. QED
    BY <1>2, <2>1, Zenon DEF Awaits
<1>6. QED
  BY <1>3, <1>4, <1>5

\* The packet of a program is on its own channel, or carries the number of its message.
LEMMA AnswersWritten ==
  ASSUME ChannelInv, ~ Wrapped, AnswersOK, NEW a \in Apps, Write(a)
  PROVE  DeviceOK' /\ \A b \in Apps : Awaits(b)'
<1> DEFINE p == Head(app[a].toWrite)
           i == Home[a]
           q == toDevice[i]
           t == toDevice'[i]
<1>0. Types /\ WireInv /\ i \in Interfaces
  BY Sizes DEF ChannelInv
<1>1. /\ app[a].toWrite # <<>> /\ p \in Packets
      /\ toDevice' = [toDevice EXCEPT ![i] = Append(@, p)]
      /\ UNCHANGED <<request, response, toHost, serving, sent>>
      /\ app'[a] \in [phase : {app[a].phase}, channel : {app[a].channel}, id : {app[a].id},
                      cmd : {app[a].cmd}, len : {app[a].len}, toWrite : {Tail(app[a].toWrite)},
                      got : {app[a].got}, cancelled : {app[a].cancelled}]
      /\ \A b \in Apps \ {a} : app'[b] = app[b]
  BY <1>0, Writing
<1>2. /\ IsPiece(sent, p, app[a].id) \/ IsCancel(p)
      /\ p.cid # Broadcast => p.cid = app[a].channel
      /\ Of(p.data) = app[a].id \/ IsCancel(p)
  BY <1>0, Written
<1>3. /\ q \in Seq(Packets) /\ t = Append(q, p)
      /\ \A j \in Interfaces \ {i} : toDevice'[j] = toDevice[j]
  BY <1>0, <1>1 DEF Types, WireTypes
<1>4. p = Head(app[a].toWrite) /\ i = Home[a] /\ q = toDevice[i] /\ t = toDevice'[i]
  OBVIOUS
<1> HIDE DEF p, i, q, t
<1>5. Grown(q, t, p)
  <2>1. /\ Len(q) \in Nat /\ Len(t) = Len(q) + 1 /\ t[Len(q) + 1] = p
        /\ \A n \in 1 .. Len(q) : t[n] = q[n]
    BY <1>1, <1>3, AppendProperties
  <2>2. QED
    BY <2>1 DEF Grown
<1>6. DeviceOK' /\ \A b \in Apps : Awaits(b)
  BY <1>1 DEF AnswersOK, DeviceOK
<1>7. Awaits(a)'
  <2> DEFINE me == app[a]
             x  == app'[a]
             r  == request[i]
             s  == response[i]
             h  == toHost[i]
  <2>1. me \in Programs /\ WritesOK(sent, me) /\ Log(sent) /\ me.toWrite # <<>>
    BY <1>0, <1>1 DEF Types, ProgramTypes, WireInv
  <2>2. ProgramAnswered(me, q, r, s, h)
    BY <1>4, <1>6, Zenon DEF Awaits
  <2>3. /\ x.phase = me.phase /\ x.channel = me.channel /\ x.id = me.id /\ x.cmd = me.cmd
        /\ x.len = me.len /\ x.got = me.got /\ x.toWrite = Tail(me.toWrite)
    BY <1>1
  <2>4. p = me.toWrite[1]
    <3>1. me.toWrite \in Seq(Packets)
      BY <2>1 DEF Programs
    <3>2. QED
      BY <1>1, <1>4, <3>1
  <2> HIDE DEF me, x, r, s, h
  <2>5. ProgramAnswered(x, t, r, s, h)
    BY <1>5, <2>1, <2>2, <2>3, <2>4, ProgramWrote
  <2>6. QED
    BY <1>1, <1>4, <2>5, Zenon DEF Awaits, x, r, s, h
<1>8. ASSUME NEW b \in Apps \ {a} PROVE Awaits(b)'
  <2> DEFINE me == app[b]
             k  == Home[b]
  <2>1. Awaits(b) /\ app'[b] = me /\ k \in Interfaces /\ me = app[b] /\ me \in Programs
    BY <1>0, <1>1, <1>6, Sizes DEF Types, ProgramTypes
  <2>2. CASE k # i
    <3>1. toDevice'[k] = toDevice[k]
      BY <1>3, <2>1, <2>2
    <3>2. QED
      BY <1>1, <2>1, <3>1, Zenon DEF Awaits
  <2>3. CASE k = i
    <3>1. p.cid # me.channel
      <4> SUFFICES ASSUME p.cid = me.channel PROVE FALSE
        OBVIOUS
      <4>1. p.cid # 0 /\ p.cid # Broadcast
        BY <1>1, <2>1, Sizes DEF Packets, Cids, Programs
      <4>2. app[a].channel = app[b].channel /\ app[a].channel # 0
        BY <1>2, <4>1
      <4>3. QED
        BY <4>2, DistinctChannels
    <3>2. ~ Hails(me, p)
      <4> SUFFICES ASSUME Hails(me, p) PROVE FALSE
        OBVIOUS
      <4>1. p.cmd # "cancel" /\ Of(p.data) = app[b].id
        BY <2>1 DEF Hails, Asks
      <4>2. IsPiece(sent, p, app[a].id) /\ Of(p.data) = app[a].id
        BY <1>2, <4>1 DEF IsCancel
      <4>3. app[a].id # 0
        BY <4>2 DEF IsPiece
      <4>4. QED
        BY <1>0, <4>1, <4>2, <4>3 DEF WireInv
    <3> DEFINE r == request[i]
               s == response[i]
               h == toHost[i]
    <3>3. ProgramAnswered(me, q, r, s, h)
      BY <1>4, <2>1, <2>3, Zenon DEF Awaits
    <3> HIDE DEF me, r, s, h
    <3>4. ProgramAnswered(me, t, r, s, h)
      BY <1>5, <3>1, <3>2, <3>3, ProgramBeside
    <3>5. QED
      BY <1>1, <1>4, <2>1, <2>3, <3>4, Zenon DEF Awaits, r, s, h
  <2>4. QED
    BY <2>2, <2>3
<1>9. QED
  BY <1>6, <1>7, <1>8

\* A channel that is being given out is not in use.
LEMMA GivenUnused ==
  ASSUME Types, ClaimsOK, OwnedOK, NEW i \in Interfaces, NEW p, toHost[i] = <<p>>,
         ReportOK(p), Gives(p)
  PROVE  Unused(Channel(p.data), toDevice[i], request[i], response[i])
<1> DEFINE c == Channel(p.data)
<1>1. c \in 1 .. Broadcast - 1
  BY DEF Gives, ReportOK, IsHandshake, Channel
<1>2. c \in Cids /\ c # Broadcast /\ c # 0
  BY <1>1, Sizes DEF Cids
<1>3. Claim("report", i, c)
  BY DEF Claim
<1> HIDE DEF c
<1>4. ~ InUse(c)
  <2> SUFFICES ASSUME InUse(c) PROVE FALSE
    OBVIOUS
  <2>1. PICK b \in Apps : app[b].channel = c
    BY <1>2 DEF OwnedOK, Known
  <2>2. Claim("app", b, c)
    BY <1>2, <2>1 DEF Claim
  <2>3. QED
    BY <1>3, <2>2 DEF ClaimsOK
<1>5. QED
  BY <1>4 DEF InUse, Unused, c

LEMMA AnswersRead ==
  ASSUME Types, ClaimsOK, MineInv, AnswersOK, NEW i \in Interfaces, Read(i)
  PROVE  DeviceOK' /\ \A a \in Apps : Awaits(a)'
<1>1. PICK p \in Packets :
              /\ ReportOK(p) /\ toHost[i] = <<p>> /\ toHost' = [toHost EXCEPT ![i] = <<>>]
              /\ \A a \in Apps : app'[a] = IF Home[a] = i THEN Hear(a, p) ELSE app[a]
              /\ UNCHANGED <<request, response, serving, toDevice, sent>>
  BY Reading, Zenon
<1>2. toHost'[i] = <<>> /\ \A j \in Interfaces \ {i} : toHost'[j] = toHost[j]
  BY <1>1 DEF Types, WireTypes
<1>3. /\ \A j \in Interfaces : SpokenOK(sent, response[j], toHost[j])
      /\ serving # NoInterface => Len(request[serving].data) >= request[serving].len
      /\ \A a \in Apps : Awaits(a)
      /\ OwnedOK
  BY DEF AnswersOK, DeviceOK
<1>4. DeviceOK'
  <2>1. SpokenOK(sent, response[i], <<>>)
    BY <1>3 DEF SpokenOK
  <2>2. \A j \in Interfaces : SpokenOK(sent, response[j], toHost'[j])
    BY <1>2, <1>3, <2>1
  <2>3. QED
    BY <1>1, <1>3, <2>2 DEF DeviceOK
<1>5. ASSUME NEW a \in Apps PROVE Awaits(a)'
  <2>1. Awaits(a) /\ Home[a] \in Interfaces
    BY <1>3, Sizes
  <2>2. CASE Home[a] # i
    <3>1. toHost'[Home[a]] = toHost[Home[a]] /\ app'[a] = app[a]
      BY <1>1, <1>2, <2>1, <2>2
    <3>2. QED
      BY <1>1, <2>1, <3>1, Zenon DEF Awaits
  <2>3. CASE Home[a] = i
    <3> DEFINE me == app[a]
               x  == Hear(a, p)
               g  == Assemble(me.got, p)
               q  == toDevice[i]
               r  == request[i]
               s  == response[i]
    <3>1. /\ me = app[a] /\ x = Hear(a, p) /\ g = Assemble(me.got, p) /\ app'[a] = x
          /\ me \in Programs /\ ProgramOK(me) /\ Mine(sent, me)
      BY <1>1, <2>3 DEF Types, ProgramTypes, MineInv
    <3>2. ProgramAnswered(me, q, r, s, <<p>>) /\ SpokenOK(sent, s, <<p>>)
      BY <1>1, <1>3, <2>1, <2>3, Zenon DEF Awaits
    <3>3. Gives(p) => Unused(Channel(p.data), q, r, s)
      BY <1>1, <1>3, GivenUnused
    <3> HIDE DEF me, x, g, q, r, s
    <3>4. Heard(me, p, g, x)
      BY <1>1, <3>1, HearCases DEF Types
    <3>5. ProgramAnswered(x, q, r, s, <<>>)
      BY <1>1, <3>1, <3>2, <3>3, <3>4, ProgramHeard
    <3>6. QED
      BY <1>1, <1>2, <2>3, <3>1, <3>5, Zenon DEF Awaits, q, r, s
  <2>4. QED
    BY <2>2, <2>3
<1>6. QED
  BY <1>4, <1>5

LEMMA AnswersStep ==
  ASSUME ChannelInv, ~ Wrapped, StreamOK, MineInv, AnswersOK, Types', [SysNext]_sysVars, ~ Umount
  PROVE  AnswersOK'
<1>0. Types /\ WireInv /\ ClaimsOK
  BY DEF ChannelInv, ClaimsInv
<1>1. OwnedOK'
  BY <1>0, OwnedStep DEF AnswersOK
<1>2. DeviceOK' /\ \A a \in Apps : Awaits(a)'
  <2>1. CASE UNCHANGED <<request, response, toDevice, toHost, serving, app, sent>>
    <3>1. DeviceOK'
      BY <2>1 DEF AnswersOK, DeviceOK
    <3>2. \A a \in Apps : Awaits(a)'
      BY <2>1, Zenon DEF AnswersOK, Awaits
    <3>3. QED
      BY <3>1, <3>2
  <2>2. CASE DeviceStep
    <3>1. UNCHANGED <<app, sent>>
      BY <2>2 DEF DeviceStep
    <3>2. PICK i \in Interfaces :
            Receive(i) \/ SendNext(i) \/ EndpointDone(i) \/ Keepalive(i) \/ FinishCbor(i)
      BY <2>2 DEF DeviceStep, Device
    <3>3. CASE Receive(i)
      BY <1>0, <3>1, <3>3, AnswersReceived
    <3>4. CASE SendNext(i)
      BY <1>0, <3>1, <3>4, AnswersSent
    <3>5. CASE EndpointDone(i)
      BY <2>1, <3>1, <3>5 DEF EndpointDone
    <3>6. CASE Keepalive(i)
      BY <1>0, <3>1, <3>6, AnswersDelayed
    <3>7. CASE FinishCbor(i)
      BY <1>0, <3>1, <3>7, AnswersFinished
    <3>8. QED
      BY <3>2, <3>3, <3>4, <3>5, <3>6, <3>7
  <2>3. ASSUME NEW a \in Apps, Open(a) \/ Request(a) \/ Resync(a)
        PROVE  DeviceOK' /\ \A b \in Apps : Awaits(b)'
    BY <1>0, <2>3, AnswersSubmitted
  <2>4. ASSUME NEW a \in Apps, Cancel(a) PROVE DeviceOK' /\ \A b \in Apps : Awaits(b)'
    BY <1>0, <2>4, AnswersCancelled
  <2>5. ASSUME NEW a \in Apps, Write(a) PROVE DeviceOK' /\ \A b \in Apps : Awaits(b)'
    BY <2>5, AnswersWritten
  <2>6. ASSUME NEW i \in Interfaces, Read(i) PROVE DeviceOK' /\ \A b \in Apps : Awaits(b)'
    BY <1>0, <2>6, AnswersRead
  <2>7. CASE UNCHANGED sysVars
    BY <2>1, <2>7 DEF sysVars, vars
  <2>8. QED
    BY <2>2, <2>3, <2>4, <2>5, <2>6, <2>7, Zenon DEF SysNext
<1>3. QED
  BY <1>1, <1>2 DEF AnswersOK

LEMMA FreshAnswers == Fresh => MineInv /\ AnswersInv
<1> SUFFICES ASSUME Fresh PROVE MineInv /\ AnswersOK
  BY DEF AnswersInv
<1>1. /\ \A i \in Interfaces : /\ toDevice[i] = <<>> /\ Len(toDevice[i]) = 0 /\ toHost[i] = <<>>
                               /\ ~ request[i].active /\ ~ response[i].active
      /\ \A a \in Apps : app[a].phase = "closed" /\ app[a].channel = 0
      /\ serving = NoInterface
  BY DEF Fresh, Idle, NoReply, Closed
<1>2. MineInv
  BY <1>1 DEF MineInv, Mine
<1>3. OwnedOK /\ DeviceOK
  BY <1>1 DEF OwnedOK, InUse, DeviceOK, SpokenOK
<1>4. \A a \in Apps : Awaits(a)
  BY <1>1 DEF Awaits, ProgramAnswered
<1>5. QED
  BY <1>2, <1>3, <1>4 DEF AnswersOK

LEMMA AnswersInductive ==
  ChannelInv /\ StreamInv /\ MineInv /\ AnswersInv /\ [SysNext]_sysVars => MineInv' /\ AnswersInv'
<1> SUFFICES ASSUME ChannelInv, StreamInv, MineInv, AnswersInv, [SysNext]_sysVars
             PROVE  MineInv' /\ AnswersInv'
  OBVIOUS
<1>1. CASE Umount
  BY <1>1, FreshStates, FreshAnswers, PTL
<1>2. CASE ~ Umount
  <2>1. MineInv' /\ Types'
    BY MineInductive, TypesInductive DEF ChannelInv
  <2>2. ASSUME ~ Wrapped' PROVE AnswersOK'
    <3>1. ~ Wrapped /\ StreamOK /\ AnswersOK
      BY <1>2, <2>2, CountStep DEF ChannelInv, StreamInv, AnswersInv
    <3>2. QED
      BY <1>2, <2>1, <3>1, AnswersStep
  <2>3. QED
    BY <2>1, <2>2 DEF AnswersInv
<1>3. QED
  BY <1>1, <1>2

\* What a program takes for the answer to its request is the answer to that request, and to
\* the end: whatever the others ask at the same time, however many of its own requests it
\* has given up, and in whichever order the reports cross.
THEOREM MatchCorrect == SysSpec => []AnswersMatch
<1>1. ChannelInv /\ MineInv /\ AnswersInv => AnswersMatch
  <2> SUFFICES ASSUME ChannelInv, MineInv, AnswersInv, NEW a \in Apps,
                      app[a].phase = "answered", ~ Wrapped
               PROVE  IF app[a].cmd = "ping"
                      THEN app[a].got.data = Message(app[a].id, app[a].len)
                      ELSE app[a].got.data =
                             Answer([data |-> Message(app[a].id, app[a].len)], Len(app[a].got.data))
    BY Zenon DEF AnswersMatch
  <2> DEFINE me == app[a]
             l  == sent
  <2>1. Mine(l, me) /\ Awaits(a) /\ Log(l)
    BY DEF ChannelInv, WireInv, MineInv, AnswersInv, AnswersOK
  <2>2. Answered(me)
    BY <2>1 DEF Awaits, ProgramAnswered
  <2>3. me.phase # "closed"
    OBVIOUS
  <2>4. me \in Programs
    BY DEF ChannelInv, Types, ProgramTypes
  <2> HIDE DEF me, l
  <2>5. me.id \in 1 .. Len(l) /\ l[me.id].data = Message(me.id, me.len)
    BY <2>1, <2>3 DEF Mine
  <2>6. me.got.data = Message(me.id, Len(me.got.data)) /\ (me.cmd = "ping" => Len(me.got.data) = me.len)
    BY <2>2, Zenon DEF Answered
  <2>7. Answer([data |-> Message(me.id, me.len)], Len(me.got.data)) = Message(me.id, Len(me.got.data))
    <3> DEFINE d == Message(me.id, me.len)
               m == me.id
    <3>1. m \in 1 .. Len(l) /\ d = l[m].data
      BY <2>5
    <3> HIDE DEF d, m
    <3>2. d \in Data /\ Len(d) \in Nat \ {0} /\ d[1] = [of |-> m, at |-> 1]
      BY <2>1, <3>1, SentType
    <3>3. d # <<>> /\ Of(d) = m
      BY <3>2 DEF Of
    <3> DEFINE r == [data |-> d]
    <3>4. r.data = d
      OBVIOUS
    <3> HIDE DEF r
    <3>5. Answer(r, Len(me.got.data)) = Message(Of(r.data), Len(me.got.data))
      BY <3>3, <3>4, AnswerMessage
    <3>6. QED
      BY <3>3, <3>4, <3>5 DEF r, d, m
  <2>8. QED
    BY <2>6, <2>7, Zenon DEF me
<1>2. SysInit => ChannelInv /\ StreamInv /\ MineInv /\ AnswersInv
  BY FreshStates, FreshChannels, FreshStreams, FreshAnswers
<1>3. QED
  BY <1>1, <1>2, ChannelsInductive, StreamInductive, AnswersInductive, PTL DEF SysSpec
================================================================================
