----------------------------- MODULE CtapHidProofs -----------------------------
(***************************************************************************)
(* Theorems about CtapHidSystem, for any interfaces and programs, and any  *)
(* sizes of packets and messages.                                          *)
(***************************************************************************)
EXTENDS CtapHidSystem, FiniteSetTheorems, SequenceTheorems, TLAPS

--------------------------------------------------------------------------------
(* Packets                                                                   *)

LEMMA MinTwo ==
  ASSUME NEW a \in Int, NEW b \in Int
  PROVE  Min({a, b}) = IF a <= b THEN a ELSE b
<1>1. \E x \in {a, b} : \A y \in {a, b} : x <= y
  OBVIOUS
<1>2. Min({a, b}) \in {a, b} /\ \A y \in {a, b} : Min({a, b}) <= y
  BY <1>1 DEF Min
<1>3. QED
  BY <1>2

\* The beginning of a sequence.
LEMMA PrefixProperty ==
  ASSUME NEW S, NEW s \in Seq(S), NEW n \in Nat
  PROVE  /\ Prefix(s, n) \in Seq(S)
         /\ Len(Prefix(s, n)) = IF n <= Len(s) THEN n ELSE Len(s)
         /\ \A k \in 1 .. Len(Prefix(s, n)) : Prefix(s, n)[k] = s[k]
<1> DEFINE m == IF n <= Len(s) THEN n ELSE Len(s)
<1>1. Prefix(s, n) = SubSeq(s, 1, m) /\ m \in 0 .. Len(s)
  BY MinTwo DEF Prefix
<1>2. \A k \in 1 .. m : s[k] \in S
  BY <1>1
<1> HIDE DEF m
<1>3. /\ SubSeq(s, 1, m) \in Seq(S) /\ Len(SubSeq(s, 1, m)) = m
      /\ \A k \in 1 .. m : SubSeq(s, 1, m)[k] = s[k]
  BY <1>1, <1>2, SubSeqProperties
<1>4. QED
  BY <1>1, <1>3 DEF m

\* The packets of a message begin one after the other.
LEMMA OffsetProperty ==
  /\ Offset(0) = 0 /\ Offset(1) = InitPayload
  /\ \A k \in Nat : Offset(k) \in Nat /\ Offset(k) < Offset(k + 1)
  /\ \A k \in Nat \ {0} : Offset(k + 1) = Offset(k) + ContPayload
  /\ \A j, k \in Nat : j <= k => Offset(j) <= Offset(k)
<1>1. InitPayload \in Nat \ {0} /\ ContPayload \in Nat \ {0}
  BY ConstantsOK
<1>2. \A j, k \in Nat : /\ j * ContPayload \in Nat /\ (j + 1) * ContPayload = j * ContPayload + ContPayload
                        /\ j <= k => j * ContPayload <= k * ContPayload
  BY <1>1, Z3
<1>3. /\ \A k \in Nat : Offset(k + 1) = InitPayload + k * ContPayload
      /\ Offset(0) = 0
  BY <1>1 DEF Offset
<1>4. \A k \in Nat : k = 0 \/ (k - 1 \in Nat /\ Offset(k) = InitPayload + (k - 1) * ContPayload)
  BY <1>1 DEF Offset
<1>5. \A k \in Nat \ {0} : Offset(k + 1) = Offset(k) + ContPayload
  BY <1>1, <1>2, <1>3, <1>4
<1>6. \A k \in Nat : Offset(k) \in Nat
  BY <1>1, <1>2, <1>3, <1>4
<1>7. Offset(1) = InitPayload
  BY <1>1, <1>3
<1>8. \A k \in Nat : Offset(k) < Offset(k + 1)
  BY <1>1, <1>3, <1>5, <1>6, <1>7
<1>9. \A j, k \in Nat : j <= k => Offset(j) <= Offset(k)
  <2> SUFFICES ASSUME NEW j \in Nat, NEW k \in Nat, j <= k PROVE Offset(j) <= Offset(k)
    OBVIOUS
  <2>1. CASE j = 0
    BY <2>1, <1>3, <1>6
  <2>2. CASE j # 0
    <3>1. j - 1 \in Nat /\ k - 1 \in Nat /\ j - 1 <= k - 1
      BY <2>2
    <3>2. (j - 1) * ContPayload <= (k - 1) * ContPayload
      BY <3>1, <1>2
    <3>3. (j - 1) * ContPayload \in Nat /\ (k - 1) * ContPayload \in Nat
      BY <3>1, <1>2
    <3>4. QED
      BY <2>2, <3>2, <3>3, <1>1, <1>4
  <2>3. QED
    BY <2>1, <2>2
<1>10. QED
  BY <1>3, <1>5, <1>6, <1>7, <1>8, <1>9

\* The last packet of a message is the one that ends it.
LEMMA ContinuationsProperty ==
  ASSUME NEW n \in Nat
  PROVE  /\ Continuations(n) \in 0 .. n
         /\ n <= Offset(Continuations(n) + 1)
         /\ \A k \in 1 .. Continuations(n) : Offset(k) < n
         /\ n <= InitPayload => Continuations(n) = 0
<1> DEFINE S == {k \in 0 .. n : n <= Offset(k + 1)}
<1>1. InitPayload \in Nat \ {0} /\ ContPayload \in Nat \ {0}
  BY ConstantsOK
<1>2. \E x \in S : \A y \in S : x <= y
  <2>1. CASE n <= InitPayload
    <3>1. 0 \in S
      BY <2>1, OffsetProperty
    <3>2. QED
      BY <3>1
  <2>2. CASE n > InitPayload
    <3> DEFINE q == (n - InitPayload - 1) \div ContPayload
    <3>1. n - InitPayload - 1 \in Nat
      BY <1>1, <2>2
    <3>2. \A u \in Nat, v \in Nat \ {0} : /\ u \div v \in Nat /\ u \div v <= u
                                          /\ (u \div v) * v <= u /\ u < (u \div v) * v + v
      BY Z3
    <3>3. /\ q \in Nat /\ q <= n - InitPayload - 1
          /\ q * ContPayload <= n - InitPayload - 1 /\ n - InitPayload - 1 < q * ContPayload + ContPayload
      BY <3>1, <3>2, <1>1
    <3> HIDE DEF q
    <3>4. q * ContPayload \in Nat
      BY <3>3, <1>1, Z3
    <3>5. Offset(q + 1) = InitPayload + q * ContPayload
      BY <3>3 DEF Offset
    <3>6. Offset(q + 1) < n /\ n <= Offset(q + 2)
      <4>1. Offset(q + 1 + 1) = Offset(q + 1) + ContPayload
        BY <3>3, OffsetProperty
      <4>2. q + 1 + 1 = q + 2
        BY <3>3
      <4>3. QED
        BY <4>1, <4>2, <3>3, <3>4, <3>5, <1>1
    <3>7. q + 1 \in S
      <4>1. q + 1 \in 0 .. n /\ q + 1 + 1 = q + 2
        BY <3>3, <1>1
      <4>2. QED
        BY <4>1, <3>6
    <3>8. \A y \in S : q + 1 <= y
      <4> SUFFICES ASSUME NEW y \in S, y < q + 1 PROVE FALSE
        BY <3>3
      <4>1. y + 1 \in Nat /\ y + 1 <= q + 1 /\ q + 1 \in Nat
        BY <3>3
      <4>2. Offset(y + 1) <= Offset(q + 1)
        BY <4>1, OffsetProperty
      <4>3. n <= Offset(y + 1) /\ Offset(y + 1) \in Nat /\ Offset(q + 1) \in Nat
        BY <4>1, OffsetProperty
      <4>4. QED
        BY <4>2, <4>3, <3>6
    <3>9. QED
      BY <3>7, <3>8
  <2>3. QED
    BY <2>1, <2>2, <1>1
<1>3. Continuations(n) \in S /\ \A y \in S : Continuations(n) <= y
  BY <1>2 DEF Continuations, Min
<1>4. \A k \in 1 .. Continuations(n) : Offset(k) < n
  <2> SUFFICES ASSUME NEW k \in 1 .. Continuations(n), Offset(k) >= n PROVE FALSE
    <3>1. \A k \in 1 .. Continuations(n) : Offset(k) \in Nat
      BY OffsetProperty
    <3>2. QED
      BY <3>1
  <2>1. Continuations(n) \in 0 .. n
    BY <1>3
  <2>2. k - 1 \in 0 .. n /\ k - 1 + 1 = k /\ k - 1 < Continuations(n)
    BY <2>1
  <2>3. k - 1 \in S
    BY <2>2
  <2>4. QED
    BY <1>3, <2>1, <2>2, <2>3
<1>5. n <= InitPayload => Continuations(n) = 0
  <2>1. n <= InitPayload => 0 \in S
    BY OffsetProperty
  <2>2. QED
    BY <1>3, <2>1
<1>6. QED
  BY <1>3, <1>4, <1>5

--------------------------------------------------------------------------------
(* Types                                                                     *)

Data     == Seq(Units)
Cids     == 1 .. Broadcast
Words    == Commands \cup {"none"}
Packets  == [cid : Cids, init : BOOLEAN, cmd : Words, len : Nat, seq : Nat, data : Data]
Messages == [cid : Cids, cmd : Words, data : Data]
Requests == [active : BOOLEAN, cid : Channels, cmd : Words, len : 0 .. MaxMessage, seq : Nat,
             data : Data]
Replies  == [active : BOOLEAN, cid : Channels, cmd : Words, seq : Nat, sent : Nat, data : Data]
Phases   == {"closed", "waiting", "ready", "answered", "failed"}
Programs == [phase : Phases, channel : 0 .. Broadcast - 1, id : 0 .. MaxSent, cmd : Words,
             len : Nat, toWrite : Seq(Packets), got : Replies, cancelled : BOOLEAN]

\* The reply to an INIT ends with a channel: one that may be given out, or its own.
IsHandshake(cid, data) ==
  /\ Len(data) = NonceLength + 1
  /\ data[NonceLength + 1].at \in 1 .. Broadcast - 1
  /\ cid # Broadcast => data[NonceLength + 1].at = cid

RequestOK(r) == r.active => r.cid # 0 /\ Len(r.data) <= r.len

ReplyOK(r) ==
  /\ Len(r.data) <= MaxMessage /\ r.sent <= Len(r.data)
  /\ r.active => r.cid # 0
  /\ r.cmd = "init" => IsHandshake(r.cid, r.data) /\ r.sent = 0

ReportOK(p) == p.cmd = "init" => p.init /\ IsHandshake(p.cid, p.data) /\ p.len = NonceLength + 1

\* A program without a channel is closed, or has asked for one.
ProgramOK(me) ==
  /\ me.got.cmd # "init"
  /\ me.id = 0 => me.phase = "closed"
  /\ me.channel = 0 => me.phase = "closed" \/ (me.phase = "waiting" /\ me.cmd = "init")

RequestTypes ==
  /\ request \in [Interfaces -> Requests] /\ \A i \in Interfaces : RequestOK(request[i])
  /\ serving \in Interfaces \cup {NoInterface}
  /\ serving # NoInterface => request[serving].active /\ request[serving].cmd = "cbor"
  /\ nextChannel \in Channels
  /\ served \in SUBSET Messages /\ IsFiniteSet(served)

ReplyTypes == response \in [Interfaces -> Replies] /\ \A i \in Interfaces : ReplyOK(response[i])

WireTypes ==
  /\ busy \in [Interfaces -> BOOLEAN]
  /\ toDevice \in [Interfaces -> Seq(Packets)]
  /\ toHost \in [Interfaces -> Seq(Packets)]
  /\ \A i \in Interfaces : toHost[i] = <<>> \/ \E p \in Packets : toHost[i] = <<p>> /\ ReportOK(p)

Plugged == \A i \in Interfaces : toHost[i] # <<>> => busy[i]

ProgramTypes ==
  /\ app \in [Apps -> Programs] /\ \A a \in Apps : ProgramOK(app[a])
  /\ sent \in Seq(Messages) /\ Len(sent) <= MaxSent

Types == RequestTypes /\ ReplyTypes /\ WireTypes /\ Plugged /\ ProgramTypes

LEMMA Sizes ==
  /\ InitPayload \in Nat \ {0} /\ ContPayload \in Nat \ {0}
  /\ MaxMessage \in Nat /\ NonceLength \in Nat \ {0}
  /\ NonceLength < InitPayload /\ NonceLength < MaxMessage
  /\ Broadcast \in Nat /\ Broadcast > 1 /\ MaxSent \in Nat
  /\ AnswerLengths \subseteq 1 .. MaxMessage /\ Lengths \subseteq Nat \ {0}
  /\ NoInterface \notin Interfaces
  /\ \A a \in Apps : Home[a] \in Interfaces
BY ConstantsOK, AppsOK DEF NoInterface

LEMMA UnitType ==
  /\ \A n \in Nat : [of |-> 0, at |-> n] \in Units
  /\ \A u \in Units : u.of \in 0 .. MaxSent /\ u.at \in Nat
BY Sizes DEF Units

\* A message made by a program or the device.
LEMMA MessageProperty ==
  ASSUME NEW m \in 0 .. MaxSent, NEW n \in Nat
  PROVE  /\ Message(m, n) \in Data /\ Len(Message(m, n)) = n
         /\ \A k \in 1 .. n : Message(m, n)[k] = [of |-> m, at |-> k]
<1>1. \A k \in 1 .. n : [of |-> m, at |-> k] \in Units
  BY DEF Units
<1>2. Message(m, n) \in [1 .. n -> Units]
  BY <1>1 DEF Message
<1>3. QED
  BY <1>2 DEF Message, Data

LEMMA AnswerType ==
  ASSUME NEW r, r.data \in Data, NEW n \in AnswerLengths
  PROVE  Answer(r, n) \in Data /\ Len(Answer(r, n)) = n /\ n \in 1 .. MaxMessage
<1>1. n \in 1 .. MaxMessage /\ n \in Nat
  BY Sizes
<1> DEFINE m == IF r.data = <<>> THEN 0 ELSE r.data[1].of
<1>2. m \in 0 .. MaxSent
  <2>1. r.data # <<>> => r.data[1] \in Units
    BY DEF Data
  <2>2. QED
    BY <2>1, UnitType, Sizes
<1>3. Answer(r, n) = Message(m, n)
  BY DEF Answer, Message
<1> HIDE DEF m
<1>4. QED
  BY <1>1, <1>2, <1>3, MessageProperty

\* The packets of a message.
LEMMA PieceProperty ==
  ASSUME NEW cid \in Cids, NEW cmd \in Words, NEW data \in Data, NEW k \in Nat,
         k <= Continuations(Len(data))
  PROVE  /\ Piece(cid, cmd, data, k) \in Packets /\ Piece(cid, cmd, data, k).cid = cid
         /\ k = 0 => /\ Piece(cid, cmd, data, k).init = TRUE
                     /\ Piece(cid, cmd, data, k).cmd = cmd
                     /\ Piece(cid, cmd, data, k).len = Len(data)
                     /\ Piece(cid, cmd, data, k).data = Prefix(data, InitPayload)
         /\ k > 0 => /\ Piece(cid, cmd, data, k).init = FALSE
                     /\ Piece(cid, cmd, data, k).cmd = "none"
                     /\ Piece(cid, cmd, data, k).seq = k - 1
                     /\ Piece(cid, cmd, data, k).data
                          = SubSeq(data, Offset(k) + 1, Min({Len(data), Offset(k + 1)}))
<1> DEFINE p == Piece(cid, cmd, data, k)
<1>0. p = Piece(cid, cmd, data, k)
  OBVIOUS
<1> HIDE DEF p
<1>1. Len(data) \in Nat
  BY DEF Data
<1>2. CASE k = 0
  <2>1. Prefix(data, InitPayload) \in Data
    BY Sizes, PrefixProperty DEF Data
  <2>2. p = [cid |-> cid, init |-> TRUE, cmd |-> cmd, len |-> Len(data), seq |-> 0,
             data |-> Prefix(data, InitPayload)]
    BY <1>0, <1>2 DEF Piece, Packet
  <2>3. /\ p.cid = cid /\ p.init = TRUE /\ p.cmd = cmd /\ p.len = Len(data)
        /\ p.data = Prefix(data, InitPayload)
    BY <2>2
  <2>4. p \in Packets
    BY <1>1, <2>1, <2>2 DEF Packets, Words
  <2>5. ~ (k > 0)
    BY <1>2
  <2>6. QED
    BY <1>0, <1>2, <2>3, <2>4, <2>5, Zenon
<1>3. CASE k > 0
  <2> DEFINE from == Offset(k) + 1
             end  == Min({Len(data), Offset(k + 1)})
             d    == SubSeq(data, from, end)
  <2>1. Offset(k) \in Nat /\ Offset(k + 1) \in Nat
    BY OffsetProperty
  <2>2. end \in 0 .. Len(data) /\ from \in Nat \ {0}
    BY <1>1, <2>1, MinTwo
  <2> HIDE DEF end, from
  <2>3. \A l \in from .. end : data[l] \in Units
    BY <2>2 DEF Data
  <2>4. d \in Data
    BY <2>2, <2>3, SubSeqProperties DEF Data
  <2> HIDE DEF d
  <2>5. p = [cid |-> cid, init |-> FALSE, cmd |-> "none", len |-> 0, seq |-> k - 1, data |-> d]
    BY <1>0, <1>3 DEF Piece, Packet, d, end, from
  <2>6. k - 1 \in Nat /\ ~ (k = 0)
    BY <1>3
  <2>7. p \in Packets
    BY <2>4, <2>5, <2>6 DEF Packets, Words
  <2>8. d = SubSeq(data, Offset(k) + 1, Min({Len(data), Offset(k + 1)}))
    BY DEF d, end, from
  <2>9. /\ p.cid = cid /\ p.init = FALSE /\ p.cmd = "none" /\ p.seq = k - 1 /\ p.data = d
    BY <2>5
  <2>10. QED
    BY <1>0, <1>3, <2>6, <2>7, <2>8, <2>9, Zenon
<1>4. k = 0 \/ k > 0
  OBVIOUS
<1>5. QED
  BY <1>2, <1>3, <1>4, Zenon

LEMMA CutType ==
  ASSUME NEW cid \in Cids, NEW cmd \in Words, NEW data \in Data
  PROVE  /\ Cut(cid, cmd, data) \in Seq(Packets)
         /\ Len(Cut(cid, cmd, data)) = Continuations(Len(data)) + 1
<1> DEFINE n == Continuations(Len(data)) + 1
<1>1. Len(data) \in Nat
  BY DEF Data
<1>4. Continuations(Len(data)) \in 0 .. Len(data)
  BY <1>1, ContinuationsProperty, Zenon
<1>5. n \in Nat /\ n = Continuations(Len(data)) + 1
  BY <1>1, <1>4
<1>2. \A k \in 1 .. n : Piece(cid, cmd, data, k - 1) \in Packets
  <2> TAKE k \in 1 .. n
  <2>1. k - 1 \in Nat /\ k - 1 <= Continuations(Len(data))
    BY <1>1, <1>4
  <2>2. \A j \in Nat : j <= Continuations(Len(data)) => Piece(cid, cmd, data, j) \in Packets
    BY PieceProperty
  <2>3. QED
    BY <2>1, <2>2
<1>3. Cut(cid, cmd, data) \in [1 .. n -> Packets]
  BY <1>2 DEF Cut
<1>6. QED
  BY <1>5, <1>3 DEF Cut

LEMMA Idling ==
  /\ Idle \in Requests /\ RequestOK(Idle)
  /\ NoReply \in Replies /\ ReplyOK(NoReply)
<1>1. <<>> \in Data /\ 0 \in Channels /\ 0 \in 0 .. MaxMessage /\ Len(<<>>) = 0 /\ 0 <= MaxMessage
  BY Sizes DEF Data, Channels
<1>2. QED
  BY <1>1 DEF Idle, Requests, RequestOK, NoReply, Replies, ReplyOK, Words

LEMMA ReplyTyped ==
  ASSUME ReplyTypes, NEW i \in Interfaces, NEW cid \in Cids, NEW cmd \in Words, NEW data \in Data,
         cmd = "init" => IsHandshake(cid, data), Reply(i, cid, cmd, data)
  PROVE  ReplyTypes'
<1> DEFINE d == Prefix(data, MaxMessage)
           r == [active |-> TRUE, cid |-> cid, cmd |-> cmd, seq |-> 0, sent |-> 0, data |-> d]
<1>1. response' = [response EXCEPT ![i] = r]
  BY DEF Reply
<1>2. d \in Data /\ Len(d) \in 0 .. MaxMessage
  <2>1. Len(data) \in Nat
    BY DEF Data
  <2>2. QED
    BY <2>1, Sizes, PrefixProperty DEF Data
<1>3. cmd = "init" => IsHandshake(cid, d)
  <2> SUFFICES ASSUME cmd = "init" PROVE IsHandshake(cid, d)
    OBVIOUS
  <2>1. Len(data) = NonceLength + 1 /\ NonceLength + 1 <= MaxMessage /\ NonceLength + 1 \in Nat \ {0}
    BY Sizes DEF IsHandshake
  <2>2. Len(d) = NonceLength + 1 /\ d[NonceLength + 1] = data[NonceLength + 1]
    BY <2>1, Sizes, PrefixProperty DEF Data
  <2>3. QED
    BY <2>2 DEF IsHandshake
<1> HIDE DEF d
<1>4. r \in Replies
  <2>1. cid \in Channels
    BY Sizes DEF Cids, Channels
  <2>2. QED
    BY <1>2, <2>1 DEF Replies
<1>5. ReplyOK(r)
  <2>1. cid # 0 /\ Len(d) <= MaxMessage /\ 0 <= Len(d)
    BY <1>2, Sizes DEF Cids
  <2>2. /\ r.cid = cid /\ r.cmd = cmd /\ r.data = d /\ r.sent = 0
    OBVIOUS
  <2> HIDE DEF r
  <2>3. QED
    BY <1>3, <2>1, <2>2 DEF ReplyOK
<1> HIDE DEF r
<1>6. response' \in [Interfaces -> Replies] /\ \A j \in Interfaces : ReplyOK(response'[j])
  BY <1>1, <1>4, <1>5 DEF ReplyTypes
<1>7. QED
  BY <1>6 DEF ReplyTypes

LEMMA ErrorTyped ==
  ASSUME ReplyTypes, NEW i \in Interfaces, NEW cid \in Cids, Error(i, cid)
  PROVE  ReplyTypes'
<1> DEFINE d == <<[of |-> 0, at |-> 0]>>
<1>1. d \in Data
  BY UnitType DEF Data
<1>2. Reply(i, cid, "error", d)
  BY DEF Error
<1> HIDE DEF d
<1>3. "error" \in Words /\ "error" # "init"
  BY DEF Words, Commands
<1>4. QED
  BY <1>1, <1>2, <1>3, ReplyTyped

\* allocate_channel never gives out one of the two reserved numbers.
LEMMA AllocateProperty ==
  ASSUME NEW n \in Channels
  PROVE  /\ Allocate(n).cid \in 1 .. Broadcast - 1 /\ Allocate(n).counter \in Channels
         /\ n \in 1 .. Broadcast - 1 => Allocate(n).cid = n /\ Allocate(n).counter = n + 1
<1>1. Broadcast \in Nat /\ Broadcast > 1 /\ n \in 0 .. Broadcast
  BY Sizes DEF Channels
<1>2. CASE n \in {0, Broadcast}
  <2>1. Allocate(n) = [cid |-> 1, counter |-> 2]
    BY <1>2 DEF Allocate
  <2>2. 2 \in Channels /\ 1 \in 1 .. Broadcast - 1 /\ n \notin 1 .. Broadcast - 1
    BY <1>1, <1>2 DEF Channels
  <2>3. QED
    BY <2>1, <2>2
<1>3. CASE n \notin {0, Broadcast}
  <2>1. Allocate(n) = [cid |-> n, counter |-> (n + 1) % (Broadcast + 1)]
    BY <1>3 DEF Allocate
  <2>2. n \in 1 .. Broadcast - 1 /\ n + 1 \in 0 .. Broadcast
    BY <1>1, <1>3
  <2>3. \A a, b \in Nat : a < b => a % b = a
    BY Z3
  <2>4. (n + 1) % (Broadcast + 1) = n + 1
    BY <1>1, <2>2, <2>3
  <2>5. QED
    BY <2>1, <2>2, <2>4 DEF Channels
<1>4. QED
  BY <1>2, <1>3

\* The command of a request decides what becomes of it.
LEMMA Dispatching ==
  ASSUME NEW i, NEW r, Dispatch(i, r)
  PROVE  \/ r.cmd = "init" /\ HandleInit(i, r.cid, r.data)
         \/ r.cmd # "init" /\ r.cmd \in {"cbor", "cancel"} /\ UNCHANGED <<response, nextChannel>>
         \/ r.cmd = "ping" /\ Reply(i, r.cid, "ping", r.data) /\ UNCHANGED nextChannel
         \/ /\ r.cmd = "diag" /\ UNCHANGED nextChannel
            /\ \E n \in AnswerLengths : Reply(i, r.cid, "diag", Answer(r, n))
         \/ /\ r.cmd \notin {"init", "cbor", "cancel", "ping"}
            /\ Error(i, r.cid) /\ UNCHANGED nextChannel
<1>1. CASE r.cmd = "init"
  BY <1>1 DEF Dispatch
<1>2. CASE r.cmd \in {"cbor", "cancel"}
  BY <1>2, Zenon DEF Dispatch
<1>3. CASE r.cmd = "ping"
  BY <1>3, Zenon DEF Dispatch
<1>4. CASE r.cmd = "diag" /\ i = "DEBUG"
  BY <1>4, Zenon DEF Dispatch
<1>5. CASE r.cmd \notin {"init", "cbor", "cancel", "ping"} /\ ~ (r.cmd = "diag" /\ i = "DEBUG")
  BY <1>5, Zenon DEF Dispatch
<1>6. QED
  BY <1>1, <1>2, <1>3, <1>4, <1>5, Zenon

LEMMA DispatchTyped ==
  ASSUME RequestTypes, ReplyTypes, serving = NoInterface,
         NEW i \in Interfaces, NEW r \in Requests, r.active, r.cid # 0, Len(r.data) <= r.len,
         Dispatch(i, r)
  PROVE  RequestTypes' /\ ReplyTypes'
<1>1. r.cid \in Cids /\ r.cmd \in Words /\ r.data \in Data
  BY Sizes DEF Requests, Channels, Cids
<1>2. served' \in SUBSET Messages /\ IsFiniteSet(served')
  <2> DEFINE m == [cid |-> r.cid, cmd |-> r.cmd, data |-> r.data]
  <2>1. m \in Messages
    BY <1>1 DEF Messages
  <2>2. served' = served \cup {m}
    BY DEF Dispatch
  <2> HIDE DEF m
  <2>3. QED
    BY <2>1, <2>2, FS_AddElement DEF RequestTypes
<1>3. /\ request' = [request EXCEPT ![i] = IF r.cmd = "cbor" THEN r ELSE Idle]
      /\ serving' = IF r.cmd = "cbor" THEN i ELSE serving
  BY DEF Dispatch
<1>4. Idle \in Requests /\ RequestOK(Idle) /\ RequestOK(r)
  BY Idling DEF RequestOK
<1>5. request' \in [Interfaces -> Requests] /\ \A j \in Interfaces : RequestOK(request'[j])
  BY <1>3, <1>4 DEF RequestTypes
<1>6. /\ serving' \in Interfaces \cup {NoInterface}
      /\ serving' # NoInterface => request'[serving'].active /\ request'[serving'].cmd = "cbor"
  <2>1. CASE r.cmd = "cbor"
    <3>1. serving' = i /\ request'[i] = r
      BY <1>3, <2>1 DEF RequestTypes
    <3>2. QED
      BY <3>1, <2>1
  <2>2. CASE r.cmd # "cbor"
    BY <1>3, <2>2
  <2>3. QED
    BY <2>1, <2>2
<1>7. nextChannel' \in Channels /\ ReplyTypes'
  <2>1. CASE r.cmd = "init" /\ HandleInit(i, r.cid, r.data)
    <3> DEFINE new     == Allocate(nextChannel)
               channel == IF r.cid = Broadcast THEN new.cid ELSE r.cid
               d       == Append(r.data, [of |-> 0, at |-> channel])
    <3>1. nextChannel \in Channels
      BY DEF RequestTypes
    <3>2. new.cid \in 1 .. Broadcast - 1 /\ new.counter \in Channels
      BY <3>1, AllocateProperty
    <3>3. channel \in 1 .. Broadcast - 1
      BY <1>1, <3>2, Sizes DEF Cids
    <3>4. nextChannel' \in Channels
      BY <2>1, <3>1, <3>2 DEF HandleInit
    <3>5. CASE Len(r.data) = NonceLength
      <4>1. Reply(i, r.cid, "init", d)
        BY <2>1, <3>5 DEF HandleInit
      <4>2. r.cid # Broadcast => channel = r.cid
        OBVIOUS
      <4> HIDE DEF channel
      <4>3. [of |-> 0, at |-> channel] \in Units
        <5>1. channel \in Nat
          BY <3>3, Sizes
        <5>2. QED
          BY <5>1, UnitType
      <4>4. d \in Data /\ Len(d) = NonceLength + 1 /\ d[NonceLength + 1] = [of |-> 0, at |-> channel]
        BY <1>1, <3>5, <4>3, AppendProperties DEF Data
      <4> HIDE DEF d
      <4>5. IsHandshake(r.cid, d)
        BY <3>3, <4>2, <4>4 DEF IsHandshake
      <4>6. "init" \in Words
        BY DEF Words, Commands
      <4>7. ReplyTypes'
        BY <1>1, <4>1, <4>4, <4>5, <4>6, ReplyTyped
      <4>8. QED
        BY <3>4, <4>7
    <3>6. CASE Len(r.data) # NonceLength
      <4>1. Error(i, r.cid)
        BY <2>1, <3>6 DEF HandleInit
      <4>2. QED
        BY <3>4, <4>1, <1>1, ErrorTyped
    <3>7. QED
      BY <3>5, <3>6
  <2>2. CASE UNCHANGED <<response, nextChannel>>
    BY <2>2 DEF RequestTypes, ReplyTypes
  <2>3. CASE Reply(i, r.cid, "ping", r.data) /\ UNCHANGED nextChannel
    <3>1. "ping" \in Words /\ "ping" # "init"
      BY DEF Words, Commands
    <3>2. ReplyTypes'
      BY <2>3, <3>1, <1>1, ReplyTyped
    <3>3. QED
      BY <2>3, <3>2 DEF RequestTypes
  <2>4. CASE /\ UNCHANGED nextChannel
             /\ \E n \in AnswerLengths : Reply(i, r.cid, "diag", Answer(r, n))
    <3>1. PICK n \in AnswerLengths : Reply(i, r.cid, "diag", Answer(r, n))
      BY <2>4
    <3>2. "diag" \in Words /\ "diag" # "init"
      BY DEF Words, Commands
    <3>3. Answer(r, n) \in Data
      BY <1>1, AnswerType
    <3>4. ReplyTypes'
      BY <3>1, <3>2, <3>3, <1>1, ReplyTyped
    <3>5. QED
      BY <2>4, <3>4 DEF RequestTypes
  <2>5. CASE Error(i, r.cid) /\ UNCHANGED nextChannel
    <3>1. ReplyTypes'
      BY <2>5, <1>1, ErrorTyped
    <3>2. QED
      BY <2>5, <3>1 DEF RequestTypes
  <2>6. QED
    BY <2>1, <2>2, <2>3, <2>4, <2>5, Dispatching, Zenon
<1>8. QED
  BY <1>2, <1>5, <1>6, <1>7 DEF RequestTypes

LEMMA ExtendTyped ==
  ASSUME RequestTypes, ReplyTypes, serving = NoInterface,
         NEW i \in Interfaces, NEW r \in Requests, r.active, r.cid # 0, Len(r.data) <= r.len,
         Extend(i, r)
  PROVE  RequestTypes' /\ ReplyTypes'
<1>1. CASE Dispatch(i, r)
  BY <1>1, DispatchTyped
<1>2. CASE /\ request' = [request EXCEPT ![i] = r]
           /\ UNCHANGED <<response, nextChannel, serving, served>>
  BY <1>2 DEF RequestTypes, ReplyTypes, RequestOK
<1>3. QED
  BY <1>1, <1>2 DEF Extend

LEMMA RejectTyped ==
  ASSUME RequestTypes, ReplyTypes, serving = NoInterface,
         NEW i \in Interfaces, NEW cid \in Cids, Reject(i, cid)
  PROVE  RequestTypes' /\ ReplyTypes'
<1>1. ReplyTypes'
  BY ErrorTyped DEF Reject
<1>3. RequestTypes'
  BY Idling DEF Reject, RequestTypes
<1>4. QED
  BY <1>1, <1>3

\* What a request has gathered with the continuation p.
Gained(r, p) == r.data \o Prefix(p.data, Min({r.len - Len(r.data), ContPayload}))

\* The request that a packet makes of what was there.
Continued(i, p) ==
  [request[i] EXCEPT !.seq = @ + 1,
     !.data = @ \o Prefix(p.data, Min({request[i].len - Len(request[i].data), ContPayload}))]

Started(p) ==
  [active |-> TRUE, cid |-> p.cid, cmd |-> p.cmd, len |-> p.len, seq |-> 0,
   data |-> Prefix(p.data, Min({p.len, InitPayload}))]

Handle(i, p) == StrayPacket(i, p) \/ Continuation(i, p) \/ Initialization(i, p)

\* What a packet does to the interface that it comes by.
LEMMA Handling ==
  ASSUME NEW i, NEW p, Handle(i, p)
  PROVE  \/ /\ ~ p.init /\ (~ request[i].active \/ p.cid # request[i].cid)
            /\ UNCHANGED <<request, nextChannel, serving, served>>
            /\ UNCHANGED response \/ Error(i, p.cid)
         \/ /\ ~ p.init /\ request[i].active /\ p.cid = request[i].cid
            /\ p.seq = request[i].seq /\ Extend(i, Continued(i, p))
         \/ /\ p.init /\ ~ (p.len > MaxMessage) /\ (p.cid = Broadcast => p.cmd = "init")
            /\ Extend(i, Started(p))
         \/ /\ Reject(i, p.cid)
            /\ p.init => p.len > MaxMessage \/ (p.cid = Broadcast /\ p.cmd # "init")
<1>1. CASE StrayPacket(i, p)
  BY <1>1, Zenon DEF StrayPacket
<1>2. CASE Continuation(i, p)
  BY <1>2, Zenon DEF Continuation, Continued
<1>3. CASE Initialization(i, p)
  <2>1. CASE p.len > MaxMessage \/ (p.cid = Broadcast /\ p.cmd # "init")
    BY <1>3, <2>1, Zenon DEF Initialization
  <2>2. CASE ~ (p.len > MaxMessage) /\ (p.cid = Broadcast => p.cmd = "init")
    BY <1>3, <2>2, Zenon DEF Initialization, Started
  <2>3. QED
    BY <2>1, <2>2, Zenon
<1>4. QED
  BY <1>1, <1>2, <1>3, Zenon DEF Handle

LEMMA ContinuedType ==
  ASSUME RequestTypes, NEW i \in Interfaces, NEW p \in Packets, request[i].active,
         NEW r, r = Continued(i, p)
  PROVE  /\ r \in Requests /\ r.active /\ r.cid # 0 /\ Len(r.data) <= r.len
         /\ r.cid = request[i].cid /\ r.cmd = request[i].cmd /\ r.len = request[i].len
         /\ r.seq = request[i].seq + 1
         /\ r.data = Gained(request[i], p)
<1> DEFINE q    == request[i]
           left == q.len - Len(q.data)
           n    == Min({left, ContPayload})
           d    == Prefix(p.data, n)
           e    == q.data \o d
<1>1. /\ q \in Requests /\ q.active /\ q.cid # 0 /\ Len(q.data) <= q.len
      /\ q.data \in Data /\ q.len \in Nat /\ q.seq \in Nat /\ Len(q.data) \in Nat
  BY Sizes DEF RequestTypes, RequestOK, Requests, Data
<1>2. r = [q EXCEPT !.seq = @ + 1, !.data = e]
  BY DEF Continued
<1> HIDE DEF q
<1>3. n \in Nat /\ n <= left /\ left \in Nat
  BY <1>1, MinTwo, Sizes
<1>4. d \in Data /\ Len(d) <= n /\ Len(d) \in Nat
  <2>1. p.data \in Data /\ Len(p.data) \in Nat
    BY DEF Packets, Data
  <2>2. QED
    BY <1>3, <2>1, PrefixProperty DEF Data
<1> HIDE DEF n, d
<1>5. e \in Data /\ Len(e) = Len(q.data) + Len(d)
  BY <1>1, <1>4, ConcatProperties DEF Data
<1> HIDE DEF e
<1>6. /\ r.cid = q.cid /\ r.cmd = q.cmd /\ r.len = q.len /\ r.seq = q.seq + 1 /\ r.data = e
      /\ r.active = q.active
  BY <1>1, <1>2 DEF Requests
<1>7. r \in Requests
  <2>1. q.seq + 1 \in Nat
    BY <1>1
  <2>2. QED
    BY <1>1, <1>2, <1>5, <2>1 DEF Requests
<1>8. Len(r.data) <= r.len
  BY <1>1, <1>3, <1>4, <1>5, <1>6
<1>9. QED
  BY <1>1, <1>6, <1>7, <1>8, Zenon DEF q, e, d, n, Gained

LEMMA StartedType ==
  ASSUME NEW p \in Packets, p.len <= MaxMessage, NEW r, r = Started(p)
  PROVE  /\ r \in Requests /\ r.active /\ r.cid # 0 /\ Len(r.data) <= r.len
         /\ r.cid = p.cid /\ r.cmd = p.cmd /\ r.len = p.len /\ r.seq = 0
         /\ r.data = Prefix(p.data, Min({p.len, InitPayload}))
<1> DEFINE n == Min({p.len, InitPayload})
           d == Prefix(p.data, n)
<1>1. /\ p.cid \in Cids /\ p.cmd \in Words /\ p.len \in 0 .. MaxMessage /\ p.data \in Data
      /\ p.cid \in Channels /\ p.cid # 0 /\ Len(p.data) \in Nat
  BY Sizes DEF Packets, Cids, Channels, Data
<1>2. n \in Nat /\ n <= p.len
  BY <1>1, MinTwo, Sizes
<1>3. d \in Data /\ Len(d) <= n /\ Len(d) \in Nat
  BY <1>1, <1>2, PrefixProperty DEF Data
<1> HIDE DEF n, d
<1>4. r = [active |-> TRUE, cid |-> p.cid, cmd |-> p.cmd, len |-> p.len, seq |-> 0, data |-> d]
  BY DEF Started, n, d
<1>5. /\ r.cid = p.cid /\ r.cmd = p.cmd /\ r.len = p.len /\ r.seq = 0 /\ r.data = d
      /\ r.active = TRUE
  BY <1>4
<1>6. r \in Requests
  BY <1>1, <1>3, <1>4 DEF Requests
<1>7. Len(r.data) <= r.len
  BY <1>1, <1>2, <1>3, <1>5
<1>8. QED
  BY <1>1, <1>5, <1>6, <1>7, Zenon DEF n, d

LEMMA HandleTyped ==
  ASSUME RequestTypes, ReplyTypes, serving = NoInterface,
         NEW i \in Interfaces, NEW p \in Packets, Handle(i, p)
  PROVE  RequestTypes' /\ ReplyTypes'
<1>1. p.cid \in Cids
  BY DEF Packets
<1>2. CASE /\ UNCHANGED <<request, nextChannel, serving, served>>
           /\ UNCHANGED response \/ Error(i, p.cid)
  <2>1. ReplyTypes'
    <3>1. CASE UNCHANGED response
      BY <3>1 DEF ReplyTypes
    <3>2. QED
      BY <1>1, <1>2, <3>1, ErrorTyped
  <2>2. QED
    BY <1>2, <2>1 DEF RequestTypes
<1>3. CASE request[i].active /\ Extend(i, Continued(i, p))
  <2> DEFINE r == Continued(i, p)
  <2>1. r = Continued(i, p)
    OBVIOUS
  <2> HIDE DEF r
  <2>2. r \in Requests /\ r.active /\ r.cid # 0 /\ Len(r.data) <= r.len
    BY <1>3, <2>1, ContinuedType
  <2>3. QED
    BY <1>3, <2>1, <2>2, ExtendTyped
<1>4. CASE ~ (p.len > MaxMessage) /\ Extend(i, Started(p))
  <2>0. p.len <= MaxMessage
    BY <1>4, Sizes DEF Packets
  <2> DEFINE r == Started(p)
  <2>1. r = Started(p)
    OBVIOUS
  <2> HIDE DEF r
  <2>2. r \in Requests /\ r.active /\ r.cid # 0 /\ Len(r.data) <= r.len
    BY <2>0, <2>1, StartedType
  <2>3. QED
    BY <1>4, <2>1, <2>2, ExtendTyped
<1>5. CASE Reject(i, p.cid)
  BY <1>1, <1>5, RejectTyped
<1>6. QED
  BY <1>2, <1>3, <1>4, <1>5, Handling

LEMMA ReportTyped ==
  ASSUME WireTypes, Plugged, NEW i \in Interfaces, NEW p \in Packets, ReportOK(p), Report(i, p),
         UNCHANGED toDevice
  PROVE  WireTypes' /\ Plugged'
<1>1. busy' \in [Interfaces -> BOOLEAN] /\ toDevice' \in [Interfaces -> Seq(Packets)]
  BY DEF Report, WireTypes
<1>2. toHost' = [toHost EXCEPT ![i] = <<p>>] /\ toHost' \in [Interfaces -> Seq(Packets)]
  BY DEF Report, WireTypes
<1>3. \A j \in Interfaces : toHost'[j] = <<>> \/ \E q \in Packets : toHost'[j] = <<q>> /\ ReportOK(q)
  BY <1>2 DEF WireTypes
<1>4. Plugged'
  BY <1>2 DEF Plugged, Report, WireTypes
<1>5. QED
  BY <1>1, <1>2, <1>3, <1>4 DEF WireTypes

\* The packet that is sent next, and the response that is left.
NextData(r) ==
  SubSeq(r.data, r.sent + 1,
         Min({Len(r.data), r.sent + IF r.sent = 0 THEN InitPayload ELSE ContPayload}))

NextPacket(r) ==
  IF r.sent = 0 THEN Packet(r.cid, TRUE, r.cmd, Len(r.data), 0, NextData(r))
  ELSE Packet(r.cid, FALSE, "none", 0, r.seq, NextData(r))

NextReply(r) ==
  [r EXCEPT !.sent = @ + Len(NextData(r)), !.seq = IF r.sent = 0 THEN 0 ELSE @ + 1]

LEMMA Sending ==
  ASSUME NEW i, SendNext(i)
  PROVE  /\ response[i].active /\ Report(i, NextPacket(response[i]))
         /\ response' = [response EXCEPT ![i] =
              IF Len(response[i].data) - response[i].sent - Len(NextData(response[i])) = 0
              THEN NoReply ELSE NextReply(response[i])]
         /\ UNCHANGED <<request, nextChannel, serving, toDevice, served>>
BY Zenon DEF SendNext, NextPacket, NextReply, NextData

LEMMA NextDataType ==
  ASSUME NEW r \in Replies, ReplyOK(r), NEW d, d = NextData(r)
  PROVE  /\ d \in Data /\ Len(d) \in Nat /\ r.sent + Len(d) <= Len(r.data)
         /\ r.sent + Len(d) < Len(r.data) =>
              Len(d) = IF r.sent = 0 THEN InitPayload ELSE ContPayload
         /\ \A k \in 1 .. Len(d) : d[k] = r.data[r.sent + k]
<1> DEFINE step == IF r.sent = 0 THEN InitPayload ELSE ContPayload
           end  == Min({Len(r.data), r.sent + step})
<1>1. r.sent \in Nat /\ Len(r.data) \in Nat /\ r.sent <= Len(r.data) /\ r.data \in Data
  BY DEF Replies, ReplyOK, Data
<1>2. step \in Nat
  BY Sizes
<1> HIDE DEF step
<1>3. end \in 0 .. Len(r.data) /\ r.sent <= end /\ end = IF Len(r.data) <= r.sent + step
                                                      THEN Len(r.data) ELSE r.sent + step
  BY <1>1, <1>2, MinTwo
<1>4. d = SubSeq(r.data, r.sent + 1, end)
  BY DEF NextData, end, step
<1> HIDE DEF end
<1>5. \A k \in r.sent + 1 .. end : r.data[k] \in Units
  BY <1>1, <1>3 DEF Data
<1>6. r.sent + 1 \in Int /\ end \in Int
  BY <1>1, <1>3
<1>7. /\ d \in Data
      /\ Len(d) = IF r.sent + 1 <= end THEN end - (r.sent + 1) + 1 ELSE 0
      /\ \A k \in 1 .. end - (r.sent + 1) + 1 : d[k] = r.data[r.sent + 1 + k - 1]
  BY <1>4, <1>5, <1>6, SubSeqProperties DEF Data
<1>8. Len(d) = end - r.sent
  BY <1>1, <1>3, <1>7
<1>9. \A k \in 1 .. Len(d) : d[k] = r.data[r.sent + k]
  <2> TAKE k \in 1 .. Len(d)
  <2>0. r.sent \in Nat /\ end \in Nat /\ k \in 1 .. end - r.sent
    BY <1>1, <1>3, <1>8
  <2>1. k \in 1 .. end - (r.sent + 1) + 1 /\ r.sent + 1 + k - 1 = r.sent + k
    BY <2>0
  <2>2. QED
    BY <1>7, <2>1
<1>10. Len(d) \in Nat /\ r.sent + Len(d) <= Len(r.data)
  BY <1>1, <1>3, <1>8
<1>11. r.sent + Len(d) < Len(r.data) => Len(d) = step
  BY <1>1, <1>2, <1>3, <1>8
<1>12. QED
  BY <1>7, <1>9, <1>10, <1>11 DEF step

LEMMA NextPacketType ==
  ASSUME NEW r \in Replies, ReplyOK(r), r.active, NEW p, p = NextPacket(r)
  PROVE  /\ p \in Packets /\ ReportOK(p) /\ p.cid = r.cid /\ p.data = NextData(r)
         /\ r.sent = 0 => p.init /\ p.cmd = r.cmd /\ p.len = Len(r.data)
         /\ r.sent # 0 => ~ p.init /\ p.cmd = "none" /\ p.seq = r.seq
<1> DEFINE d == NextData(r)
<1>0. d = NextData(r)
  OBVIOUS
<1> HIDE DEF d
<1>1. /\ d \in Data /\ Len(d) \in Nat /\ r.sent + Len(d) <= Len(r.data)
      /\ r.sent + Len(d) < Len(r.data) =>
              Len(d) = IF r.sent = 0 THEN InitPayload ELSE ContPayload
      /\ \A k \in 1 .. Len(d) : d[k] = r.data[r.sent + k]
  BY <1>0, NextDataType
<1>2. /\ r.cid \in Cids /\ r.cmd \in Words /\ r.seq \in Nat /\ r.sent \in Nat /\ Len(r.data) \in Nat
      /\ r.cmd = "init" => IsHandshake(r.cid, r.data) /\ r.sent = 0
  BY Sizes DEF Replies, ReplyOK, Cids, Channels, Data
<1>3. CASE r.sent = 0
  <2>1. p = [cid |-> r.cid, init |-> TRUE, cmd |-> r.cmd, len |-> Len(r.data), seq |-> 0, data |-> d]
    BY <1>0, <1>3 DEF NextPacket, Packet
  <2>2. p \in Packets
    BY <1>1, <1>2, <2>1 DEF Packets
  <2>3. p.cid = r.cid /\ p.init = TRUE /\ p.cmd = r.cmd /\ p.len = Len(r.data) /\ p.data = d
    BY <2>1
  <2>4. r.cmd = "init" => IsHandshake(r.cid, d) /\ Len(r.data) = NonceLength + 1
    <3> SUFFICES ASSUME r.cmd = "init" PROVE IsHandshake(r.cid, d) /\ Len(r.data) = NonceLength + 1
      OBVIOUS
    <3>1. IsHandshake(r.cid, r.data)
      BY <1>2
    <3>2. Len(r.data) = NonceLength + 1 /\ NonceLength + 1 <= InitPayload
      BY <3>1, Sizes DEF IsHandshake
    <3>3. Len(d) = NonceLength + 1
      BY <1>1, <1>2, <1>3, <3>2, Sizes
    <3>4. d[NonceLength + 1] = r.data[NonceLength + 1]
      <4>1. NonceLength + 1 \in 1 .. Len(d) /\ r.sent + (NonceLength + 1) = NonceLength + 1
        BY <1>3, <3>3, Sizes
      <4>2. QED
        BY <1>1, <4>1
    <3>5. QED
      BY <3>1, <3>2, <3>3, <3>4 DEF IsHandshake
  <2>5. ReportOK(p)
    BY <2>3, <2>4 DEF ReportOK
  <2>6. QED
    BY <1>0, <1>3, <2>2, <2>3, <2>5, Zenon
<1>4. CASE r.sent # 0
  <2>1. p = [cid |-> r.cid, init |-> FALSE, cmd |-> "none", len |-> 0, seq |-> r.seq, data |-> d]
    BY <1>0, <1>4 DEF NextPacket, Packet
  <2>2. p \in Packets
    BY <1>1, <1>2, <2>1 DEF Packets, Words
  <2>3. p.cid = r.cid /\ p.init = FALSE /\ p.cmd = "none" /\ p.seq = r.seq /\ p.data = d
    BY <2>1
  <2>4. ReportOK(p)
    BY <2>3 DEF ReportOK
  <2>5. QED
    BY <1>0, <1>4, <2>2, <2>3, <2>4, Zenon
<1>5. QED
  BY <1>3, <1>4, Zenon

LEMMA SendNextTyped ==
  ASSUME Types, NEW i \in Interfaces, SendNext(i)
  PROVE  RequestTypes' /\ ReplyTypes' /\ WireTypes' /\ Plugged'
<1> DEFINE r == response[i]
           p == NextPacket(r)
           q == NextReply(r)
           d == NextData(r)
<1>1. r \in Replies /\ ReplyOK(r) /\ r.active
  BY Sending DEF Types, ReplyTypes
<1>2. p = NextPacket(r) /\ d = NextData(r) /\ q = NextReply(r)
  OBVIOUS
<1>3. /\ Report(i, p) /\ UNCHANGED <<request, nextChannel, serving, toDevice, served>>
      /\ response' = [response EXCEPT ![i] =
           IF Len(r.data) - r.sent - Len(d) = 0 THEN NoReply ELSE q]
  BY Sending
<1> HIDE DEF p, d, q
<1>4. p \in Packets /\ ReportOK(p)
  BY <1>1, <1>2, NextPacketType
<1>5. WireTypes' /\ Plugged'
  BY <1>3, <1>4, ReportTyped DEF Types
<1>6. RequestTypes'
  BY <1>3 DEF Types, RequestTypes
<1>7. NoReply \in Replies /\ ReplyOK(NoReply)
  BY Idling
<1>8. ASSUME Len(r.data) - r.sent - Len(d) # 0
      PROVE  q \in Replies /\ ReplyOK(q)
  <2>1. /\ Len(d) \in Nat /\ r.sent + Len(d) <= Len(r.data)
        /\ r.sent + Len(d) < Len(r.data) => Len(d) = IF r.sent = 0 THEN InitPayload ELSE ContPayload
    BY <1>1, <1>2, NextDataType
  <2>2. r.sent \in Nat /\ r.seq \in Nat /\ Len(r.data) \in Nat
    BY <1>1 DEF Replies, Data
  <2>3. q = [r EXCEPT !.sent = @ + Len(d), !.seq = IF r.sent = 0 THEN 0 ELSE @ + 1]
    BY <1>2 DEF NextReply
  <2> HIDE DEF r
  <2>4. /\ q.active = r.active /\ q.cid = r.cid /\ q.cmd = r.cmd /\ q.data = r.data
        /\ q.sent = r.sent + Len(d)
    BY <1>1, <2>3 DEF Replies
  <2>5. q \in Replies
    <3> DEFINE seq == IF r.sent = 0 THEN 0 ELSE r.seq + 1
    <3>1. r.sent + Len(d) \in Nat /\ seq \in Nat
      BY <2>1, <2>2
    <3>2. q = [r EXCEPT !.sent = r.sent + Len(d), !.seq = seq]
      BY <1>1, <2>3 DEF Replies
    <3> HIDE DEF seq
    <3>3. QED
      BY <1>1, <3>1, <3>2 DEF Replies
  <2>6. q.cmd # "init"
    <3> SUFFICES ASSUME q.cmd = "init" PROVE FALSE
      OBVIOUS
    <3>1. Len(r.data) = NonceLength + 1 /\ r.sent = 0
      BY <1>1, <2>4 DEF ReplyOK, IsHandshake
    <3>2. QED
      BY <1>8, <2>1, <2>2, <3>1, Sizes
  <2>7. ReplyOK(q)
    BY <1>1, <2>1, <2>4, <2>6 DEF ReplyOK
  <2>8. QED
    BY <2>5, <2>7
<1>9. response' \in [Interfaces -> Replies] /\ \A j \in Interfaces : ReplyOK(response'[j])
  BY <1>3, <1>7, <1>8 DEF Types, ReplyTypes
<1>10. QED
  BY <1>5, <1>6, <1>9 DEF ReplyTypes

LEMMA DeviceTyped ==
  ASSUME Types, DeviceStep
  PROVE  Types'
<1>1. ProgramTypes'
  BY DEF DeviceStep, Types, ProgramTypes, ProgramOK
<1>2. PICK i \in Interfaces :
        Receive(i) \/ SendNext(i) \/ EndpointDone(i) \/ Keepalive(i) \/ FinishCbor(i)
  BY DEF DeviceStep, Device
<1>3. CASE Receive(i)
  <2> DEFINE p == Head(toDevice[i])
  <2>1. /\ serving = NoInterface /\ toDevice[i] # <<>> /\ Handle(i, p)
        /\ toDevice' = [toDevice EXCEPT ![i] = Tail(@)] /\ UNCHANGED <<busy, toHost>>
    BY <1>3, Zenon DEF Receive, Handle
  <2>2. toDevice[i] \in Seq(Packets)
    BY DEF Types, WireTypes
  <2>3. p \in Packets /\ Tail(toDevice[i]) \in Seq(Packets)
    BY <2>1, <2>2, HeadTailProperties
  <2> HIDE DEF p
  <2>4. RequestTypes' /\ ReplyTypes'
    BY <2>1, <2>3, HandleTyped DEF Types
  <2>5. WireTypes'
    BY <2>1, <2>3 DEF Types, WireTypes
  <2>6. Plugged'
    BY <2>1 DEF Types, Plugged
  <2>7. QED
    BY <1>1, <2>4, <2>5, <2>6 DEF Types
<1>4. CASE SendNext(i)
  BY <1>1, <1>4, SendNextTyped DEF Types
<1>5. CASE EndpointDone(i)
  <2>1. /\ toHost[i] = <<>> /\ busy' = [busy EXCEPT ![i] = FALSE]
        /\ UNCHANGED <<request, response, nextChannel, serving, toDevice, toHost, served>>
    BY <1>5 DEF EndpointDone
  <2>2. WireTypes'
    BY <2>1 DEF Types, WireTypes
  <2>3. Plugged'
    BY <2>1 DEF Types, Plugged, WireTypes
  <2>4. RequestTypes' /\ ReplyTypes'
    BY <2>1 DEF Types, RequestTypes, ReplyTypes
  <2>5. QED
    BY <1>1, <2>2, <2>3, <2>4 DEF Types
<1>6. CASE Keepalive(i)
  <2> DEFINE d == <<[of |-> 0, at |-> 2]>>
             p == Packet(request[i].cid, TRUE, "keepalive", 1, 0, d)
  <2>1. /\ serving = i /\ Report(i, p)
        /\ UNCHANGED <<request, response, nextChannel, serving, toDevice, served>>
    BY <1>6 DEF Keepalive
  <2>2. request[i].cid \in Cids
    <3>1. i # NoInterface
      BY Sizes
    <3>2. request[i] \in Requests /\ request[i].active /\ RequestOK(request[i])
      BY <2>1, <3>1 DEF Types, RequestTypes
    <3>3. QED
      BY <3>2, Sizes DEF Requests, RequestOK, Channels, Cids
  <2>3. d \in Data
    BY UnitType DEF Data
  <2> HIDE DEF d
  <2>4. p = [cid |-> request[i].cid, init |-> TRUE, cmd |-> "keepalive", len |-> 1, seq |-> 0,
             data |-> d]
    BY DEF Packet
  <2> HIDE DEF p
  <2>5. p \in Packets /\ ReportOK(p)
    BY <2>2, <2>3, <2>4 DEF Packets, Words, Commands, ReportOK
  <2>6. WireTypes' /\ Plugged'
    BY <2>1, <2>5, ReportTyped DEF Types
  <2>7. RequestTypes' /\ ReplyTypes'
    BY <2>1 DEF Types, RequestTypes, ReplyTypes
  <2>8. QED
    BY <1>1, <2>6, <2>7 DEF Types
<1>7. CASE FinishCbor(i)
  <2>1. PICK n \in AnswerLengths : Reply(i, request[i].cid, "cbor", Answer(request[i], n))
    BY <1>7 DEF FinishCbor
  <2>2. /\ serving = i /\ request' = [request EXCEPT ![i] = Idle] /\ serving' = NoInterface
        /\ UNCHANGED <<nextChannel, busy, toDevice, toHost, served>>
    BY <1>7 DEF FinishCbor
  <2>3. request[i].cid \in Cids /\ request[i].data \in Data
    <3>1. i # NoInterface
      BY Sizes
    <3>2. request[i] \in Requests /\ request[i].active /\ RequestOK(request[i])
      BY <2>2, <3>1 DEF Types, RequestTypes
    <3>3. QED
      BY <3>2, Sizes DEF Requests, RequestOK, Channels, Cids
  <2>4. Answer(request[i], n) \in Data
    BY <2>3, AnswerType
  <2>5. "cbor" \in Words /\ "cbor" # "init"
    BY DEF Words, Commands
  <2>6. ReplyTypes'
    BY <2>1, <2>3, <2>4, <2>5, ReplyTyped DEF Types
  <2>8. RequestTypes'
    BY <2>2, Idling DEF Types, RequestTypes
  <2>9. WireTypes' /\ Plugged'
    BY <2>2 DEF Types, WireTypes, Plugged
  <2>10. QED
    BY <1>1, <2>6, <2>8, <2>9 DEF Types
<1>8. QED
  BY <1>2, <1>3, <1>4, <1>5, <1>6, <1>7

LEMMA Submitting ==
  ASSUME ProgramTypes, NEW a \in Apps, NEW cid \in Cids, NEW cmd \in Words, NEW n \in Nat,
         app[a].channel = 0 => cmd = "init", Submit(a, cid, cmd, n)
  PROVE  /\ ProgramTypes'
         /\ Len(sent) + 1 \in 1 .. MaxSent /\ Len(sent') = Len(sent) + 1
         /\ \A m \in 1 .. Len(sent) : sent'[m] = sent[m]
         /\ sent'[Len(sent) + 1] = [cid |-> cid, cmd |-> cmd, data |-> Message(Len(sent) + 1, n)]
         /\ app'[a].channel = app[a].channel /\ app'[a].id = Len(sent) + 1
         /\ app'[a].toWrite = Cut(cid, cmd, Message(Len(sent) + 1, n))
         /\ app'[a].phase = "waiting" /\ app'[a].cmd = cmd /\ app'[a].len = n
         /\ app'[a].got = NoReply
         /\ \A b \in Apps \ {a} : app'[b] = app[b]
         /\ UNCHANGED vars
<1> DEFINE id   == Len(sent) + 1
           data == Message(id, n)
           cut  == Cut(cid, cmd, data)
           msg  == [cid |-> cid, cmd |-> cmd, data |-> data]
           me   == [app[a] EXCEPT !.phase = "waiting", !.id = id, !.cmd = cmd, !.len = n,
                      !.toWrite = cut, !.got = NoReply, !.cancelled = FALSE]
<1>1. /\ id <= MaxSent /\ app' = [app EXCEPT ![a] = me] /\ sent' = Append(sent, msg)
      /\ UNCHANGED vars
  BY DEF Submit
<1>2. /\ sent \in Seq(Messages) /\ Len(sent) \in Nat /\ app \in [Apps -> Programs]
      /\ app[a] \in Programs /\ ProgramOK(app[a])
  BY DEF ProgramTypes
<1>3. id \in 1 .. MaxSent /\ id \in 0 .. MaxSent
  BY <1>1, <1>2, Sizes
<1> HIDE DEF id
<1>4. data \in Data
  BY <1>3, MessageProperty
<1> HIDE DEF data
<1>5. msg \in Messages
  BY <1>4 DEF Messages
<1>6. cut \in Seq(Packets)
  BY <1>4, CutType
<1> HIDE DEF cut, msg
<1>7. me \in [phase : {"waiting"}, channel : {app[a].channel}, id : {id}, cmd : {cmd}, len : {n},
               toWrite : {cut}, got : {NoReply}, cancelled : {FALSE}]
  BY <1>2 DEF Programs
<1> HIDE DEF me
<1>8. /\ me.phase = "waiting" /\ me.channel = app[a].channel /\ me.id = id /\ me.cmd = cmd
      /\ me.len = n /\ me.toWrite = cut /\ me.got = NoReply
  BY <1>7
<1>9. me \in Programs
  BY <1>2, <1>3, <1>6, <1>7, Idling DEF Programs, Phases
<1>10. ProgramOK(me)
  <2>1. NoReply.cmd # "init" /\ me.id # 0
    BY <1>3, <1>8 DEF NoReply
  <2>2. QED
    BY <1>8, <2>1 DEF ProgramOK
<1>11. /\ sent' \in Seq(Messages) /\ Len(sent') = Len(sent) + 1
       /\ \A m \in 1 .. Len(sent) : sent'[m] = sent[m]
       /\ sent'[Len(sent) + 1] = msg
  BY <1>1, <1>2, <1>5, AppendProperties
<1>12. Len(sent') <= MaxSent
  BY <1>1, <1>11 DEF id
<1>13. /\ app' \in [Apps -> Programs] /\ app'[a] = me /\ \A b \in Apps \ {a} : app'[b] = app[b]
  BY <1>1, <1>2, <1>9
<1>14. ProgramTypes'
  BY <1>10, <1>11, <1>12, <1>13 DEF ProgramTypes
<1>15. Len(sent) + 1 \in 1 .. MaxSent
  BY <1>3 DEF id
<1>16. /\ sent'[Len(sent) + 1] = [cid |-> cid, cmd |-> cmd, data |-> Message(Len(sent) + 1, n)]
       /\ cut = Cut(cid, cmd, Message(Len(sent) + 1, n)) /\ id = Len(sent) + 1
  BY <1>11 DEF msg, data, id, cut
<1>17. QED
  BY <1>1, <1>8, <1>11, <1>13, <1>14, <1>15, <1>16

\* What programs send.
LEMMA Asking ==
  ASSUME ProgramTypes, NEW a \in Apps, Open(a) \/ Request(a) \/ Resync(a)
  PROVE  \E cid \in Cids, cmd \in Commands, n \in Nat \ {0} :
           /\ Submit(a, cid, cmd, n) /\ cmd # "cancel"
           /\ app[a].channel = 0 => cmd = "init"
           /\ cid = Broadcast => cmd = "init" /\ n = NonceLength
           /\ cid # Broadcast => cid = app[a].channel
<1>1. app[a] \in Programs /\ ProgramOK(app[a])
  BY DEF ProgramTypes
<1>2. app[a].channel \in 0 .. Broadcast - 1 /\ Broadcast \in Cids /\ NonceLength \in Nat \ {0}
  BY <1>1, Sizes DEF Programs, Cids
<1>3. "init" \in Commands /\ "ping" \in Commands /\ "cbor" \in Commands
  BY DEF Commands
<1>4. CASE Open(a)
  <2>1. Submit(a, Broadcast, "init", NonceLength)
    BY <1>4 DEF Open
  <2>2. QED
    BY <1>2, <1>3, <2>1
<1>5. CASE Request(a)
  <2>1. PICK cmd \in {"ping", "cbor"}, n \in Lengths : Submit(a, app[a].channel, cmd, n)
    BY <1>5 DEF Request
  <2>2. app[a].phase # "closed" /\ app[a].phase # "waiting"
    BY <1>5 DEF Request
  <2>3. app[a].channel # 0
    BY <1>1, <2>2 DEF ProgramOK
  <2>4. app[a].channel \in Cids /\ app[a].channel # Broadcast /\ n \in Nat \ {0}
    BY <1>2, <2>3, Sizes DEF Cids
  <2>5. cmd \in Commands /\ cmd # "cancel"
    BY <1>3, <2>1
  <2>6. QED
    BY <2>1, <2>3, <2>4, <2>5
<1>6. CASE Resync(a)
  <2>1. Submit(a, Address(a), "init", NonceLength)
    BY <1>6 DEF Resync
  <2>2. Address(a) \in Cids /\ (Address(a) # Broadcast => Address(a) = app[a].channel)
    BY <1>2, Sizes DEF Address, Cids
  <2>3. QED
    BY <1>2, <1>3, <2>1, <2>2
<1>7. QED
  BY <1>4, <1>5, <1>6

\* A packet extends what a program has put together, or starts it anew.
LEMMA AssembleType ==
  ASSUME NEW g \in Replies, g.cmd # "init", NEW p \in Packets, ReportOK(p),
         NEW h, h = Assemble(g, p)
  PROVE  /\ h \in Replies
         /\ h.cmd = "init" =>
              p.cmd = "init" /\ h.active /\ h.data = p.data /\ Len(h.data) = h.sent
<1>1. /\ p.cid \in Channels /\ p.cmd \in Words /\ p.len \in Nat /\ p.data \in Data
      /\ g.data \in Data /\ g.seq \in Nat
  BY Sizes DEF Packets, Replies, Cids, Channels
<1>2. CASE p.init
  <2>1. h = [active |-> TRUE, cid |-> p.cid, cmd |-> p.cmd, seq |-> 0, sent |-> p.len, data |-> p.data]
    BY <1>2 DEF Assemble
  <2>2. h \in Replies
    BY <1>1, <2>1 DEF Replies
  <2>3. h.active = TRUE /\ h.cmd = p.cmd /\ h.data = p.data /\ h.sent = p.len
    BY <2>1
  <2>4. p.cmd = "init" => Len(p.data) = p.len
    BY DEF ReportOK, IsHandshake
  <2>5. QED
    BY <2>2, <2>3, <2>4
<1>3. CASE ~ p.init
  <2>1. CASE h = g
    BY <2>1
  <2>2. CASE h # g
    <3>1. h = [g EXCEPT !.seq = @ + 1, !.data = @ \o p.data]
      BY <1>3, <2>2 DEF Assemble
    <3>2. g.seq + 1 \in Nat /\ g.data \o p.data \in Data
      BY <1>1, ConcatProperties DEF Data
    <3>3. h \in Replies /\ h.cmd = g.cmd
      BY <3>1, <3>2 DEF Replies
    <3>4. QED
      BY <3>3
  <2>3. QED
    BY <2>1, <2>2
<1>4. QED
  BY <1>2, <1>3

\* A program is given a channel by the reply to its own INIT, and keeps it.
LEMMA HearType ==
  ASSUME ProgramTypes, NEW a \in Apps, NEW p \in Packets, ReportOK(p), NEW x, x = Hear(a, p)
  PROVE  /\ x \in Programs /\ ProgramOK(x)
         /\ x.id = app[a].id /\ x.toWrite \in {app[a].toWrite, <<>>}
         /\ \/ x.channel = app[a].channel
            \/ /\ p.cmd = "init" /\ p.cid = Broadcast /\ app[a].channel = 0 /\ app[a].id # 0
               /\ p.data[1].of = app[a].id /\ x.channel = p.data[NonceLength + 1].at
<1> DEFINE me == app[a]
           g  == Assemble(me.got, p)
<1>1. /\ me \in Programs /\ ProgramOK(me)
  BY DEF ProgramTypes
<1>2. me.got \in Replies /\ me.got.cmd # "init" /\ g = Assemble(me.got, p)
  BY <1>1 DEF Programs, ProgramOK
<1> HIDE DEF me, g
<1>3. /\ g \in Replies
      /\ g.cmd = "init" => p.cmd = "init" /\ g.active /\ g.data = p.data /\ Len(g.data) = g.sent
  BY <1>2, AssembleType
<1>4. CASE x = me
  BY <1>1, <1>4 DEF me
<1>5. CASE /\ me.phase = "waiting" /\ p.cid = Address(a) /\ g.active /\ Len(g.data) >= g.sent
           /\ x = Conclude(me, g)
  <2>0. me.id # 0
    BY <1>1, <1>5 DEF ProgramOK
  <2>1. CASE me.cmd = "init" /\ g.cmd = "init" /\ g.data[1].of = me.id
    <3> DEFINE c == g.data[Len(g.data)].at
    <3>1. p.cmd = "init" /\ g.data = p.data
      BY <1>3, <2>1
    <3>2. IsHandshake(p.cid, p.data)
      BY <3>1 DEF ReportOK
    <3>3. c = p.data[NonceLength + 1].at /\ c \in 1 .. Broadcast - 1
      BY <3>1, <3>2 DEF IsHandshake
    <3>4. x = [me EXCEPT !.phase = "ready", !.channel = c, !.got = NoReply]
      BY <1>5, <2>1 DEF Conclude
    <3> HIDE DEF c
    <3>5. x \in [phase : {"ready"}, channel : {c}, id : {me.id}, cmd : {me.cmd}, len : {me.len},
                 toWrite : {me.toWrite}, got : {NoReply}, cancelled : {me.cancelled}]
      BY <1>1, <3>4 DEF Programs
    <3>6. c \in 0 .. Broadcast - 1 /\ c # 0
      BY <3>3, Sizes
    <3>7. x \in Programs
      BY <1>1, <3>5, <3>6, Idling DEF Programs, Phases
    <3>8. /\ x.channel = c /\ x.id = me.id /\ x.toWrite = me.toWrite /\ x.got = NoReply
      BY <3>5
    <3>9. ProgramOK(x)
      BY <2>0, <3>6, <3>8 DEF ProgramOK, NoReply
    <3>10. me.channel = c \/ (p.cid = Broadcast /\ me.channel = 0)
      <4>1. CASE me.channel = 0
        BY <1>5, <4>1 DEF Address, me
      <4>2. CASE me.channel # 0
        <5>1. p.cid = me.channel
          BY <1>5, <4>2 DEF Address, me
        <5>2. p.cid # Broadcast
          BY <1>1, <5>1, Sizes DEF Programs
        <5>3. QED
          BY <3>2, <3>3, <5>1, <5>2 DEF IsHandshake
      <4>3. QED
        BY <4>1, <4>2
    <3>11. QED
      BY <2>0, <2>1, <3>1, <3>3, <3>7, <3>8, <3>9, <3>10 DEF me
  <2>2. CASE x = [me EXCEPT !.got = NoReply]
    <3>1. x \in [phase : {me.phase}, channel : {me.channel}, id : {me.id}, cmd : {me.cmd},
                 len : {me.len}, toWrite : {me.toWrite}, got : {NoReply}, cancelled : {me.cancelled}]
      BY <1>1, <2>2 DEF Programs
    <3>2. x \in Programs
      BY <1>1, <3>1, Idling DEF Programs
    <3>3. /\ x.channel = me.channel /\ x.id = me.id /\ x.toWrite = me.toWrite /\ x.got = NoReply
          /\ x.phase = me.phase /\ x.cmd = me.cmd
      BY <3>1
    <3>4. ProgramOK(x)
      BY <1>1, <3>3 DEF ProgramOK, NoReply
    <3>5. QED
      BY <3>2, <3>3, <3>4 DEF me
  <2>3. CASE /\ me.cmd # "init"
             /\ \/ /\ g.cmd = me.cmd
                   /\ x = [me EXCEPT !.phase = "answered", !.got = g, !.toWrite = <<>>]
                \/ x = [me EXCEPT !.phase = "failed", !.got = NoReply, !.toWrite = <<>>]
    <3>1. PICK ph \in {"answered", "failed"}, h \in {g, NoReply} :
            /\ h.cmd # "init"
            /\ x = [me EXCEPT !.phase = ph, !.got = h, !.toWrite = <<>>]
      BY <2>3 DEF NoReply
    <3>2. x \in [phase : {ph}, channel : {me.channel}, id : {me.id}, cmd : {me.cmd},
                 len : {me.len}, toWrite : {<<>>}, got : {h}, cancelled : {me.cancelled}]
      BY <1>1, <3>1 DEF Programs
    <3>3. h \in Replies /\ ph \in Phases /\ <<>> \in Seq(Packets)
      BY <1>3, Idling DEF Phases
    <3>4. x \in Programs
      BY <1>1, <3>2, <3>3 DEF Programs
    <3>5. /\ x.channel = me.channel /\ x.id = me.id /\ x.toWrite = <<>> /\ x.got = h
      BY <3>2
    <3>6. me.channel # 0
      BY <1>1, <1>5, <2>3 DEF ProgramOK
    <3>7. ProgramOK(x)
      BY <2>0, <3>1, <3>5, <3>6 DEF ProgramOK
    <3>8. QED
      BY <3>4, <3>5, <3>7 DEF me
  <2>4. QED
    BY <1>5, <2>1, <2>2, <2>3, Zenon DEF Conclude
<1>6. CASE x = [me EXCEPT !.got = g] /\ ~ (g.active /\ Len(g.data) >= g.sent)
  <2>1. g.cmd # "init"
    <3>1. Len(g.data) \in Nat
      BY <1>3 DEF Replies, Data
    <3>2. QED
      BY <1>3, <1>6, <3>1
  <2>2. x \in [phase : {me.phase}, channel : {me.channel}, id : {me.id}, cmd : {me.cmd},
               len : {me.len}, toWrite : {me.toWrite}, got : {g}, cancelled : {me.cancelled}]
    BY <1>1, <1>6 DEF Programs
  <2>3. x \in Programs
    BY <1>1, <1>3, <2>2 DEF Programs
  <2>4. /\ x.channel = me.channel /\ x.id = me.id /\ x.toWrite = me.toWrite /\ x.got = g
        /\ x.phase = me.phase /\ x.cmd = me.cmd
    BY <2>2
  <2>5. ProgramOK(x)
    BY <1>1, <2>1, <2>4 DEF ProgramOK
  <2>6. QED
    BY <2>3, <2>4, <2>5 DEF me
<1>7. QED
  BY <1>4, <1>5, <1>6, Zenon DEF Hear, me, g

LEMMA Cancelling ==
  ASSUME ProgramTypes, NEW a \in Apps, Cancel(a)
  PROVE  /\ ProgramTypes' /\ UNCHANGED <<vars, sent>>
         /\ app[a].channel \in 1 .. Broadcast - 1
         /\ app'[a].toWrite = Cut(app[a].channel, "cancel", <<>>)
         /\ app'[a].channel = app[a].channel /\ app'[a].id = app[a].id
         /\ app[a].phase = "waiting" /\ app[a].cmd = "cbor" /\ app[a].toWrite = <<>>
         /\ app'[a].phase = app[a].phase /\ app'[a].cmd = app[a].cmd
         /\ app'[a].len = app[a].len /\ app'[a].got = app[a].got
         /\ \A b \in Apps \ {a} : app'[b] = app[b]
<1> DEFINE me  == app[a]
           cut == Cut(me.channel, "cancel", <<>>)
           x   == [me EXCEPT !.cancelled = TRUE, !.toWrite = cut]
<1>1. me \in Programs /\ ProgramOK(me) /\ app \in [Apps -> Programs]
  BY DEF ProgramTypes
<1>2. /\ me.phase = "waiting" /\ me.cmd = "cbor" /\ me.toWrite = <<>>
      /\ app' = [app EXCEPT ![a] = x] /\ UNCHANGED <<vars, sent>>
  BY <1>1 DEF Cancel
<1>3. me.channel \in 1 .. Broadcast - 1 /\ me.channel \in Cids
  <2>1. me.channel # 0
    BY <1>1, <1>2 DEF ProgramOK
  <2>2. QED
    BY <1>1, <2>1, Sizes DEF Programs, Cids
<1>4. cut \in Seq(Packets)
  <2>1. <<>> \in Data /\ "cancel" \in Words
    BY DEF Data, Words, Commands
  <2>2. QED
    BY <1>3, <2>1, CutType
<1> HIDE DEF me, cut
<1>5. x \in [phase : {me.phase}, channel : {me.channel}, id : {me.id}, cmd : {me.cmd}, len : {me.len},
             toWrite : {cut}, got : {me.got}, cancelled : {TRUE}]
  BY <1>1 DEF Programs
<1> HIDE DEF x
<1>6. x \in Programs
  BY <1>1, <1>4, <1>5 DEF Programs
<1>7. /\ x.phase = me.phase /\ x.channel = me.channel /\ x.id = me.id /\ x.cmd = me.cmd
      /\ x.len = me.len /\ x.toWrite = cut /\ x.got = me.got
  BY <1>5
<1>8. ProgramOK(x)
  BY <1>1, <1>7 DEF ProgramOK
<1>9. /\ app' \in [Apps -> Programs] /\ app'[a] = x /\ \A b \in Apps \ {a} : app'[b] = app[b]
  BY <1>1, <1>2, <1>6
<1>10. ProgramTypes'
  BY <1>2, <1>8, <1>9 DEF ProgramTypes
<1>11. QED
  BY <1>2, <1>3, <1>7, <1>9, <1>10 DEF me, cut

LEMMA Writing ==
  ASSUME Types, NEW a \in Apps, Write(a)
  PROVE  /\ Types' /\ app[a].toWrite # <<>> /\ Head(app[a].toWrite) \in Packets
         /\ toDevice' = [toDevice EXCEPT ![Home[a]] = Append(@, Head(app[a].toWrite))]
         /\ UNCHANGED <<request, response, nextChannel, serving, busy, toHost, served, sent>>
         /\ app'[a] \in [phase : {app[a].phase}, channel : {app[a].channel}, id : {app[a].id},
                          cmd : {app[a].cmd}, len : {app[a].len}, toWrite : {Tail(app[a].toWrite)},
                          got : {app[a].got}, cancelled : {app[a].cancelled}]
         /\ \A b \in Apps \ {a} : app'[b] = app[b]
<1> DEFINE me == app[a]
           x  == [me EXCEPT !.toWrite = Tail(@)]
<1>1. me \in Programs /\ ProgramOK(me) /\ app \in [Apps -> Programs]
  BY DEF Types, ProgramTypes
<1>2. /\ me.toWrite # <<>> /\ toDevice' = [toDevice EXCEPT ![Home[a]] = Append(@, Head(me.toWrite))]
      /\ app' = [app EXCEPT ![a] = x]
      /\ UNCHANGED <<request, response, nextChannel, serving, busy, toHost, served, sent>>
  BY <1>1 DEF Write
<1> HIDE DEF me
<1>3. me.toWrite \in Seq(Packets)
  BY <1>1 DEF Programs
<1>4. Head(me.toWrite) \in Packets /\ Tail(me.toWrite) \in Seq(Packets)
  BY <1>2, <1>3, HeadTailProperties
<1>5. x \in [phase : {me.phase}, channel : {me.channel}, id : {me.id}, cmd : {me.cmd}, len : {me.len},
             toWrite : {Tail(me.toWrite)}, got : {me.got}, cancelled : {me.cancelled}]
  BY <1>1 DEF Programs
<1> HIDE DEF x
<1>6. x \in Programs
  BY <1>1, <1>4, <1>5 DEF Programs
<1>7. /\ x.phase = me.phase /\ x.channel = me.channel /\ x.cmd = me.cmd /\ x.got = me.got
      /\ x.id = me.id
  BY <1>5
<1>8. ProgramOK(x)
  BY <1>1, <1>7 DEF ProgramOK
<1>9. /\ app' \in [Apps -> Programs] /\ app'[a] = x /\ \A b \in Apps \ {a} : app'[b] = app[b]
  BY <1>1, <1>2, <1>6
<1>10. ProgramTypes'
  BY <1>2, <1>8, <1>9 DEF Types, ProgramTypes
<1>11. WireTypes'
  <2>1. Append(toDevice[Home[a]], Head(me.toWrite)) \in Seq(Packets)
    BY <1>4, Sizes DEF Types, WireTypes
  <2>2. QED
    BY <1>2, <2>1 DEF Types, WireTypes
<1>12. RequestTypes' /\ ReplyTypes' /\ Plugged'
  BY <1>2 DEF Types, RequestTypes, ReplyTypes, Plugged
<1>13. QED
  BY <1>2, <1>4, <1>5, <1>9, <1>10, <1>11, <1>12 DEF Types, me

LEMMA Reading ==
  ASSUME Types, NEW i \in Interfaces, Read(i)
  PROVE  /\ Types'
         /\ \E p \in Packets :
              /\ ReportOK(p) /\ toHost[i] = <<p>> /\ toHost' = [toHost EXCEPT ![i] = <<>>]
              /\ \A a \in Apps : app'[a] = IF Home[a] = i THEN Hear(a, p) ELSE app[a]
              /\ UNCHANGED <<request, response, nextChannel, serving, busy, toDevice, served, sent>>
<1>1. PICK p \in Packets : toHost[i] = <<p>> /\ ReportOK(p)
  BY DEF Read, Types, WireTypes
<1>2. /\ toHost' = [toHost EXCEPT ![i] = <<>>]
      /\ app' = [a \in Apps |-> IF Home[a] = i THEN Hear(a, p) ELSE app[a]]
      /\ UNCHANGED <<request, response, nextChannel, serving, busy, toDevice, served, sent>>
  <2>1. Head(toHost[i]) = p
    BY <1>1
  <2>2. QED
    BY <2>1 DEF Read
<1>3. \A a \in Apps : app'[a] = IF Home[a] = i THEN Hear(a, p) ELSE app[a]
  BY <1>2
<1>4. \A a \in Apps : app'[a] \in Programs /\ ProgramOK(app'[a])
  <2> TAKE a \in Apps
  <2>1. CASE app'[a] = app[a]
    BY <2>1 DEF Types, ProgramTypes
  <2>2. CASE app'[a] = Hear(a, p)
    <3> DEFINE x == app'[a]
    <3>1. x = Hear(a, p)
      BY <2>2
    <3> HIDE DEF x
    <3>2. x \in Programs /\ ProgramOK(x)
      BY <1>1, <3>1, HearType DEF Types
    <3>3. QED
      BY <3>2 DEF x
  <2>3. QED
    BY <1>3, <2>1, <2>2
<1>5. ProgramTypes'
  <2>1. app' \in [Apps -> Programs]
    BY <1>2, <1>4
  <2>2. QED
    BY <1>2, <1>4, <2>1 DEF Types, ProgramTypes
<1>6. WireTypes' /\ Plugged'
  BY <1>2 DEF Types, WireTypes, Plugged
<1>7. RequestTypes' /\ ReplyTypes'
  BY <1>2 DEF Types, RequestTypes, ReplyTypes
<1>8. QED
  BY <1>1, <1>2, <1>3, <1>5, <1>6, <1>7 DEF Types

\* A device that has just been plugged in, and programs without a handle.
Fresh ==
  /\ request = [i \in Interfaces |-> Idle]
  /\ response = [i \in Interfaces |-> NoReply]
  /\ nextChannel = 1 /\ serving = NoInterface
  /\ busy = [i \in Interfaces |-> FALSE]
  /\ toDevice = [i \in Interfaces |-> <<>>]
  /\ toHost = [i \in Interfaces |-> <<>>]
  /\ served = {} /\ sent = <<>>
  /\ app = [a \in Apps |-> Closed]

LEMMA FreshStates == (SysInit => Fresh) /\ (Umount => Fresh')
BY DEF SysInit, Init, Umount, Fresh

LEMMA FreshTyped == Fresh => Types
<1> SUFFICES ASSUME Fresh PROVE Types
  OBVIOUS
<1>1. RequestTypes
  <2>1. 1 \in Channels /\ {} \in SUBSET Messages /\ IsFiniteSet({})
    BY Sizes, FS_EmptySet DEF Channels
  <2>2. QED
    BY <2>1, Idling DEF Fresh, RequestTypes
<1>2. ReplyTypes
  BY Idling DEF Fresh, ReplyTypes
<1>3. WireTypes /\ Plugged
  BY DEF Fresh, WireTypes, Plugged
<1>4. ProgramTypes
  <2>1. Closed \in Programs
    <3>1. 0 \in 0 .. Broadcast - 1 /\ 0 \in 0 .. MaxSent /\ <<>> \in Seq(Packets)
      BY Sizes
    <3>2. QED
      BY <3>1, Idling DEF Closed, Programs, Phases, Words
  <2>2. ProgramOK(Closed)
    BY DEF Closed, ProgramOK, NoReply
  <2>3. <<>> \in Seq(Messages) /\ Len(<<>>) = 0 /\ 0 <= MaxSent
    BY Sizes
  <2>4. QED
    BY <2>1, <2>2, <2>3 DEF Fresh, ProgramTypes
<1>5. QED
  BY <1>1, <1>2, <1>3, <1>4 DEF Types

LEMMA TypesInductive == Types /\ [SysNext]_sysVars => Types'
<1> SUFFICES ASSUME Types, [SysNext]_sysVars PROVE Types'
  OBVIOUS
<1>1. CASE DeviceStep
  BY <1>1, DeviceTyped
<1>2. ASSUME NEW a \in Apps, Open(a) \/ Request(a) \/ Resync(a)
      PROVE  Types'
  <2>1. PICK cid \in Cids, cmd \in Commands, n \in Nat \ {0} :
          Submit(a, cid, cmd, n) /\ (app[a].channel = 0 => cmd = "init")
    BY <1>2, Asking DEF Types
  <2>2. ProgramTypes' /\ UNCHANGED vars
    BY <2>1, Submitting DEF Types, Words
  <2>3. RequestTypes' /\ ReplyTypes' /\ WireTypes' /\ Plugged'
    BY <2>2 DEF vars, Types, RequestTypes, ReplyTypes, WireTypes, Plugged
  <2>4. QED
    BY <2>2, <2>3 DEF Types
<1>3. ASSUME NEW a \in Apps, Cancel(a) PROVE Types'
  <2>1. ProgramTypes' /\ UNCHANGED vars
    BY <1>3, Cancelling DEF Types
  <2>2. RequestTypes' /\ ReplyTypes' /\ WireTypes' /\ Plugged'
    BY <2>1 DEF vars, Types, RequestTypes, ReplyTypes, WireTypes, Plugged
  <2>3. QED
    BY <2>1, <2>2 DEF Types
<1>4. ASSUME NEW a \in Apps, Write(a) PROVE Types'
  BY <1>4, Writing
<1>5. ASSUME NEW i \in Interfaces, Read(i) PROVE Types'
  BY <1>5, Reading
<1>6. CASE Umount
  BY <1>6, FreshStates, FreshTyped, PTL
<1>7. CASE UNCHANGED sysVars
  BY <1>7 DEF sysVars, vars, Types, RequestTypes, ReplyTypes, WireTypes, Plugged, ProgramTypes
<1>8. QED
  BY <1>1, <1>2, <1>3, <1>4, <1>5, <1>6, <1>7 DEF SysNext

\* The buffers keep to CTAP_HID_MAX_MESSAGE_SIZE and to the length announced, and every
\* packet is one, for any sizes, any number of programs, and any order of their reports.
THEOREM HidTypeCorrect == SysSpec => []TypeOK
<1>1. SysInit => Types
  BY FreshStates, FreshTyped
<1>2. Types => TypeOK
  <2> SUFFICES ASSUME Types PROVE TypeOK
    OBVIOUS
  <2>1. \A p \in Packets : IsPacket(p)
    BY Sizes DEF Packets, IsPacket, Cids, Channels, Data, Words
  <2>2. ASSUME NEW i \in Interfaces
        PROVE  /\ request[i].active => Len(request[i].data) <= request[i].len
               /\ request[i].len <= MaxMessage
    BY Sizes DEF Types, RequestTypes, Requests, RequestOK
  <2>3. ASSUME NEW i \in Interfaces
        PROVE  Len(response[i].data) <= MaxMessage /\ response[i].sent <= Len(response[i].data)
    BY DEF Types, ReplyTypes, ReplyOK
  <2>4. ASSUME NEW i \in Interfaces
        PROVE  busy[i] \in BOOLEAN /\ (toHost[i] # <<>> => busy[i])
    BY DEF Types, WireTypes, Plugged
  <2>5. ASSUME NEW i \in Interfaces
        PROVE  /\ \A k \in 1 .. Len(toDevice[i]) : IsPacket(toDevice[i][k])
               /\ \A k \in 1 .. Len(toHost[i]) : IsPacket(toHost[i][k])
    <3>1. toDevice[i] \in Seq(Packets) /\ toHost[i] \in Seq(Packets)
      BY DEF Types, WireTypes
    <3>2. QED
      BY <2>1, <3>1, ElementOfSeq
  <2>6. /\ nextChannel \in Channels
        /\ serving # NoInterface => request[serving].active /\ request[serving].cmd = "cbor"
    BY DEF Types, RequestTypes
  <2>7. \A a \in Apps : app[a].channel \in Channels
    BY Sizes DEF Types, ProgramTypes, Programs, Channels
  <2>8. QED
    BY <2>2, <2>3, <2>4, <2>5, <2>6, <2>7, Zenon DEF TypeOK
<1>3. QED
  BY <1>1, <1>2, TypesInductive, PTL DEF SysSpec

--------------------------------------------------------------------------------
(* What is under way to the device                                           *)

\* The message that data belongs to.
Of(data) == data[1].of

\* A packet of message m, of those sent.
IsPiece(s, p, m) ==
  /\ m \in 1 .. Len(s)
  /\ \E k \in Nat : /\ k <= Continuations(Len(s[m].data))
                    /\ p = Piece(s[m].cid, s[m].cmd, s[m].data, k)

IsCancel(p) == p.init /\ p.cmd = "cancel" /\ p.len = 0 /\ p.data = <<>> /\ p.cid # Broadcast

\* A message has something in it, and what is sent on the broadcast channel is an INIT.
MessageOK(m, message) ==
  /\ Len(message.data) > 0 /\ message.data = Message(m, Len(message.data))
  /\ message.cmd # "cancel"
  /\ message.cid = Broadcast => message.cmd = "init" /\ Len(message.data) = NonceLength

Log(s) == /\ s \in Seq(Messages) /\ Len(s) <= MaxSent
          /\ \A m \in 1 .. Len(s) : MessageOK(m, s[m])

\* A program writes the packets of its last message, on its channel or on the broadcast
\* channel, which takes one; or it cancels.
WritesOK(s, me) ==
  /\ me.id \in 0 .. Len(s)
  /\ \A n \in 1 .. Len(me.toWrite) :
       /\ IsPiece(s, me.toWrite[n], me.id) \/ (IsCancel(me.toWrite[n]) /\ Len(me.toWrite) = 1)
       /\ me.toWrite[n].cid # Broadcast => me.toWrite[n].cid = me.channel
       /\ me.toWrite[n].cid = Broadcast => Len(me.toWrite) = 1

QueueOK(s, q) ==
  \A n \in 1 .. Len(q) : IsPiece(s, q[n], Of(q[n].data)) \/ IsCancel(q[n])

WireInv ==
  /\ Log(sent)
  /\ \A i \in Interfaces : QueueOK(sent, toDevice[i])
  /\ \A a \in Apps : WritesOK(sent, app[a])
  /\ \A a, b \in Apps : app[a].id = app[b].id /\ app[a].id # 0 => a = b

LEMMA SentType ==
  ASSUME NEW s, Log(s), NEW m \in 1 .. Len(s)
  PROVE  /\ s[m].cid \in Cids /\ s[m].cmd \in Words /\ s[m].data \in Data
         /\ Len(s[m].data) \in Nat \ {0} /\ m \in 1 .. MaxSent
         /\ \A k \in 1 .. Len(s[m].data) : s[m].data[k] = [of |-> m, at |-> k]
<1>1. s[m] \in Messages /\ Len(s) \in Nat /\ Len(s) <= MaxSent /\ MaxSent \in Nat
  BY Sizes, ElementOfSeq DEF Log
<1>2. s[m].data \in Data /\ Len(s[m].data) \in Nat \ {0} /\ MessageOK(m, s[m])
  BY <1>1 DEF Messages, Data, Log, MessageOK
<1>3. m \in 1 .. MaxSent /\ m \in 0 .. MaxSent
  BY <1>1
<1>4. \A k \in 1 .. Len(s[m].data) : Message(m, Len(s[m].data))[k] = [of |-> m, at |-> k]
  BY <1>2, <1>3, MessageProperty
<1>5. QED
  BY <1>1, <1>2, <1>3, <1>4 DEF Messages, MessageOK

\* What continuation packet k of a message carries.
Part(data, k) == SubSeq(data, Offset(k) + 1, Min({Len(data), Offset(k + 1)}))

\* What a packet tells of its message.
LEMMA PieceFacts ==
  ASSUME NEW s, Log(s), NEW m \in 1 .. Len(s), NEW p, IsPiece(s, p, m)
  PROVE  /\ p \in Packets /\ p.cid = s[m].cid /\ Of(p.data) = m /\ ~ IsCancel(p)
         /\ p.init => /\ p.cmd = s[m].cmd /\ p.len = Len(s[m].data)
                      /\ p.data = Prefix(s[m].data, InitPayload)
         /\ ~ p.init => /\ p.cmd = "none" /\ p.cid # Broadcast
                        /\ p.seq + 1 \in 1 .. Continuations(Len(s[m].data))
                        /\ p.data = Part(s[m].data, p.seq + 1)
         /\ p.cid = Broadcast => /\ p.init /\ p.cmd = "init" /\ p.len = NonceLength
                                 /\ p.data = s[m].data
<1> DEFINE data == s[m].data
           n    == Len(data)
           last == Continuations(n)
<1>1. /\ s[m].cid \in Cids /\ s[m].cmd \in Words /\ data \in Data /\ n \in Nat \ {0}
      /\ \A k \in 1 .. n : data[k] = [of |-> m, at |-> k]
  BY SentType
<1>2. PICK k \in Nat : k <= last /\ p = Piece(s[m].cid, s[m].cmd, data, k)
  BY DEF IsPiece
<1>11. n = Len(data) /\ last = Continuations(Len(data))
  OBVIOUS
<1> HIDE DEF last, n, data
<1>3. /\ p \in Packets /\ p.cid = s[m].cid
      /\ k = 0 => /\ p.init /\ p.cmd = s[m].cmd /\ p.len = n
                  /\ p.data = Prefix(data, InitPayload)
      /\ k > 0 => /\ ~ p.init /\ p.cmd = "none" /\ p.seq = k - 1
                  /\ p.data = SubSeq(data, Offset(k) + 1, Min({n, Offset(k + 1)}))
  <2> DEFINE cid == s[m].cid
             cmd == s[m].cmd
  <2>1. cid \in Cids /\ cmd \in Words /\ p = Piece(cid, cmd, data, k) /\ k <= Continuations(Len(data))
    BY <1>1, <1>2, <1>11
  <2> HIDE DEF cid, cmd
  <2>4. data \in Data
    BY <1>1
  <2>5. p \in Packets
    BY <2>1, <2>4, PieceProperty
  <2>6. p.cid = cid
    BY <2>1, <2>4, PieceProperty
  <2>7. /\ k = 0 => /\ p.init = TRUE /\ p.cmd = cmd /\ p.len = Len(data)
                    /\ p.data = Prefix(data, InitPayload)
        /\ k > 0 => /\ p.init = FALSE /\ p.cmd = "none" /\ p.seq = k - 1
                    /\ p.data = SubSeq(data, Offset(k) + 1, Min({Len(data), Offset(k + 1)}))
    <3>1. CASE k = 0
      <4>1. p = Packet(cid, TRUE, cmd, Len(data), 0, Prefix(data, InitPayload)) /\ ~ (k > 0)
        BY <2>1, <3>1 DEF Piece
      <4>2. /\ p.init = TRUE /\ p.cmd = cmd /\ p.len = Len(data) /\ p.data = Prefix(data, InitPayload)
        BY <4>1 DEF Packet
      <4>3. QED
        BY <4>1, <4>2
    <3>2. CASE k > 0
      <4>0. ~ (k = 0)
        BY <3>2
      <4>1. p = Packet(cid, FALSE, "none", 0, k - 1,
                       SubSeq(data, Offset(k) + 1, Min({Len(data), Offset(k + 1)})))
        BY <2>1, <4>0, Zenon DEF Piece
      <4>2. /\ p.init = FALSE /\ p.cmd = "none" /\ p.seq = k - 1
            /\ p.data = SubSeq(data, Offset(k) + 1, Min({Len(data), Offset(k + 1)}))
        BY <4>1 DEF Packet
      <4>3. QED
        BY <4>0, <4>2, Zenon
    <3>3. QED
      BY <3>1, <3>2
  <2>2. /\ p \in Packets /\ p.cid = cid
        /\ k = 0 => /\ p.init /\ p.cmd = cmd /\ p.len = Len(data)
                    /\ p.data = Prefix(data, InitPayload)
        /\ k > 0 => /\ ~ p.init /\ p.cmd = "none" /\ p.seq = k - 1
                    /\ p.data = SubSeq(data, Offset(k) + 1, Min({Len(data), Offset(k + 1)}))
    BY <2>5, <2>6, <2>7, Zenon
  <2>3. QED
    BY <1>11, <2>2, Zenon DEF cid, cmd
<1>4. s[m].cid = Broadcast => s[m].cmd = "init" /\ n = NonceLength
  BY DEF Log, MessageOK, n, data
<1>5. s[m].cmd # "cancel" /\ data = Message(m, n)
  BY DEF Log, MessageOK, n, data
<1>6. /\ last \in Nat /\ \A j \in 1 .. last : Offset(j) < n
      /\ n <= InitPayload => last = 0
  <2>1. n \in Nat
    BY <1>1
  <2>2. /\ Continuations(n) \in 0 .. n /\ \A j \in 1 .. Continuations(n) : Offset(j) < n
        /\ n <= InitPayload => Continuations(n) = 0
    BY <2>1, ContinuationsProperty, Zenon
  <2>3. last = Continuations(n)
    BY <1>11
  <2> HIDE DEF last
  <2>4. QED
    BY <2>1, <2>2, <2>3
<1>7. CASE k = 0
  <2>1. Prefix(data, InitPayload)[1] = data[1] /\ Len(Prefix(data, InitPayload)) >= 1
    <3>1. Len(Prefix(data, InitPayload)) = IF InitPayload <= n THEN InitPayload ELSE n
      BY <1>1, Sizes, PrefixProperty DEF Data, n
    <3>2. Len(Prefix(data, InitPayload)) \in Nat \ {0}
      BY <1>1, <3>1, Sizes
    <3>3. 1 \in 1 .. Len(Prefix(data, InitPayload))
      BY <3>2
    <3>4. InitPayload \in Nat /\ data \in Seq(Units)
      BY <1>1, Sizes DEF Data
    <3>5. Prefix(data, InitPayload)[1] = data[1]
      BY <3>3, <3>4, PrefixProperty
    <3>6. QED
      BY <3>2, <3>5
  <2>2. data[1] = [of |-> m, at |-> 1]
    BY <1>1
  <2>3. Of(p.data) = m
    BY <1>3, <1>7, <2>1, <2>2 DEF Of
  <2>4. ASSUME p.cid = Broadcast PROVE p.cmd = "init" /\ p.len = NonceLength /\ p.data = data
    <3>1. n = NonceLength /\ n <= InitPayload /\ s[m].cmd = "init"
      BY <1>3, <1>4, <2>4, Sizes
    <3>2. Prefix(data, InitPayload) = data
      <4>1. Min({InitPayload, n}) = n
        BY <1>1, <3>1, MinTwo, Sizes
      <4>2. SubSeq(data, 1, n) = data
        BY <1>1 DEF Data, n
      <4>3. QED
        BY <4>1, <4>2 DEF Prefix, n
    <3>3. QED
      BY <1>3, <1>7, <3>1, <3>2
  <2>5. p.cmd # "cancel"
    BY <1>3, <1>5, <1>7
  <2>6. p.init
    BY <1>3, <1>7
  <2>7. QED
    BY <1>3, <1>7, <2>3, <2>4, <2>5, <2>6, Zenon DEF IsCancel, n, data
<1>8. CASE k > 0
  <2> DEFINE end == Min({n, Offset(k + 1)})
  <2>1. k \in 1 .. last /\ Offset(k) < n /\ Offset(k) \in Nat /\ Offset(k) < Offset(k + 1)
        /\ Offset(k + 1) \in Nat
    BY <1>2, <1>6, <1>8, OffsetProperty DEF last, n, data
  <2>2. end \in Offset(k) + 1 .. n
    BY <1>1, <2>1, MinTwo
  <2> HIDE DEF end
  <2>3. \A j \in Offset(k) + 1 .. end : data[j] \in Units
    BY <1>1, <2>1, <2>2 DEF Data, n
  <2>4. SubSeq(data, Offset(k) + 1, end)[1] = data[Offset(k) + 1]
    <3>1. Offset(k) + 1 \in Int /\ end \in Int
      BY <2>1, <2>2, <1>1
    <3>2. \A j \in 1 .. end - (Offset(k) + 1) + 1 :
            SubSeq(data, Offset(k) + 1, end)[j] = data[Offset(k) + 1 + j - 1]
      BY <2>3, <3>1, SubSeqProperties
    <3>3. 1 \in 1 .. end - (Offset(k) + 1) + 1 /\ Offset(k) + 1 + 1 - 1 = Offset(k) + 1
      BY <2>1, <2>2, <1>1
    <3>4. QED
      BY <3>2, <3>3
  <2>5. data[Offset(k) + 1] = [of |-> m, at |-> Offset(k) + 1]
    <3>1. Offset(k) + 1 \in 1 .. n
      BY <1>1, <2>1
    <3>2. QED
      BY <1>1, <3>1
  <2>6. p.data = SubSeq(data, Offset(k) + 1, end) /\ ~ p.init /\ p.cmd = "none" /\ p.seq = k - 1
    BY <1>3, <1>8 DEF end
  <2>7. Of(p.data) = m
    <3>1. p.data[1] = [of |-> m, at |-> Offset(k) + 1]
      BY <2>4, <2>5, <2>6
    <3>2. QED
      BY <3>1 DEF Of
  <2>8. p.cid # Broadcast
    <3> SUFFICES ASSUME p.cid = Broadcast PROVE FALSE
      OBVIOUS
    <3>1. n <= InitPayload
      BY <1>3, <1>4, Sizes
    <3>2. QED
      BY <1>6, <2>1, <3>1
  <2>9. p.seq + 1 = k /\ p.seq + 2 = k + 1
    BY <2>6, <1>8
  <2>10. /\ p.seq + 1 \in 1 .. last
         /\ p.data = Part(data, p.seq + 1)
    BY <2>1, <2>6, <2>9 DEF end, Part, n
  <2>11. ~ IsCancel(p)
    BY <2>6 DEF IsCancel
  <2>12. QED
    BY <1>3, <2>6, <2>7, <2>8, <2>10, <2>11, Zenon DEF n, data, last
<1>9. k = 0 \/ k > 0
  OBVIOUS
<1>10. QED
  BY <1>7, <1>8, <1>9, Zenon

\* What is sent on the broadcast channel has no continuations.
LEMMA OneOpening ==
  ASSUME NEW s, Log(s), NEW m \in 1 .. Len(s), NEW p, IsPiece(s, p, m), ~ p.init
  PROVE  p.cid # Broadcast
BY PieceFacts

\* What was sent stays as it was sent.
LEMMA LogGrows ==
  ASSUME NEW s, NEW t, Len(s) \in Nat, Len(t) \in Nat, Len(s) <= Len(t),
         \A m \in 1 .. Len(s) : t[m] = s[m]
  PROVE  /\ \A p, m : IsPiece(s, p, m) => IsPiece(t, p, m)
         /\ \A q : QueueOK(s, q) => QueueOK(t, q)
         /\ \A me : WritesOK(s, me) => WritesOK(t, me)
<1>1. ASSUME NEW p, NEW m, IsPiece(s, p, m) PROVE IsPiece(t, p, m)
  <2>1. m \in 1 .. Len(s) /\ m \in 1 .. Len(t) /\ t[m] = s[m]
    BY <1>1 DEF IsPiece
  <2>2. QED
    BY <1>1, <2>1 DEF IsPiece
<1>2. ASSUME NEW q, QueueOK(s, q) PROVE QueueOK(t, q)
  BY <1>1, <1>2, Zenon DEF QueueOK
<1>3. ASSUME NEW me, WritesOK(s, me) PROVE WritesOK(t, me)
  <2>1. me.id \in 0 .. Len(t)
    BY <1>3 DEF WritesOK
  <2>2. QED
    BY <1>1, <1>3, <2>1, Zenon DEF WritesOK
<1>4. QED
  BY <1>1, <1>2, <1>3, Zenon

\* The packets that a message is cut into.
LEMMA CutPieces ==
  ASSUME NEW s, Log(s), NEW m \in 1 .. Len(s), NEW cut, cut = Cut(s[m].cid, s[m].cmd, s[m].data)
  PROVE  /\ cut \in Seq(Packets) /\ Len(cut) \in Nat \ {0} /\ cut[1].init
         /\ \A n \in 1 .. Len(cut) : IsPiece(s, cut[n], m) /\ cut[n].cid = s[m].cid
         /\ s[m].cid = Broadcast => Len(cut) = 1
<1> DEFINE data == s[m].data
           last == Continuations(Len(data))
<1>1. /\ s[m].cid \in Cids /\ s[m].cmd \in Words /\ data \in Data /\ Len(data) \in Nat \ {0}
  BY SentType
<1>2. cut \in Seq(Packets) /\ Len(cut) = last + 1
  BY <1>1, CutType
<1>3. last \in Nat /\ (Len(data) <= InitPayload => last = 0)
  <2>1. Len(data) \in Nat
    BY <1>1
  <2>2. /\ Continuations(Len(data)) \in 0 .. Len(data)
        /\ Len(data) <= InitPayload => Continuations(Len(data)) = 0
    BY <2>1, ContinuationsProperty, Zenon
  <2>3. QED
    BY <2>1, <2>2
<1>4. s[m].cid = Broadcast => last = 0
  <2>1. s[m].cid = Broadcast => Len(data) <= InitPayload
    BY Sizes DEF Log, MessageOK
  <2>2. QED
    BY <1>3, <2>1
<1>5. \A n \in 1 .. last + 1 : cut[n] = Piece(s[m].cid, s[m].cmd, data, n - 1)
  BY DEF Cut
<1> HIDE DEF last
<1>6. \A n \in 1 .. last + 1 : n - 1 \in Nat /\ n - 1 <= last
  BY <1>3
<1>7. \A n \in 1 .. last + 1 : IsPiece(s, cut[n], m)
  <2> TAKE n \in 1 .. last + 1
  <2>1. n - 1 \in Nat /\ n - 1 <= Continuations(Len(s[m].data))
    BY <1>6 DEF last
  <2>2. cut[n] = Piece(s[m].cid, s[m].cmd, s[m].data, n - 1)
    BY <1>5
  <2>3. QED
    BY <2>1, <2>2, Zenon DEF IsPiece
<1>8. \A n \in 1 .. last + 1 : cut[n].cid = s[m].cid
  BY <1>7, PieceFacts
<1>9. cut[1].init
  <2>1. cut[1] = Piece(s[m].cid, s[m].cmd, data, 0)
    <3>1. 1 \in 1 .. last + 1 /\ 1 - 1 = 0
      BY <1>3
    <3>2. QED
      BY <1>5, <3>1
  <2>2. QED
    BY <2>1 DEF Piece, Packet
<1>10. QED
  BY <1>2, <1>3, <1>4, <1>7, <1>8, <1>9

LEMMA CancelPacket ==
  ASSUME NEW cid \in 1 .. Broadcast - 1, NEW cut, cut = Cut(cid, "cancel", <<>>)
  PROVE  Len(cut) = 1 /\ IsCancel(cut[1]) /\ cut[1].cid = cid
<1> DEFINE d == <<>>
           w == "cancel"
<1>0. d = <<>> /\ w = "cancel" /\ cut = Cut(cid, w, d)
  OBVIOUS
<1>1. Len(d) = 0 /\ d \in Data /\ cid \in Cids /\ w \in Words
  BY Sizes DEF Data, Cids, Words, Commands
<1> HIDE DEF d, w
<1>2. Continuations(0) = 0
  <2>1. 0 \in Nat /\ 0 <= InitPayload
    BY Sizes
  <2>2. QED
    BY <2>1, ContinuationsProperty, Zenon
<1>3. Len(cut) = 1
  <2>1. Len(Cut(cid, w, d)) = Continuations(Len(d)) + 1
    BY <1>1, CutType
  <2>2. Continuations(Len(d)) = 0
    BY <1>1, <1>2, Zenon
  <2>3. Len(cut) = Continuations(Len(d)) + 1
    BY <1>0, <2>1, Zenon
  <2>4. QED
    BY <2>2, <2>3
<1>4. cut[1] = Piece(cid, w, d, 0)
  BY <1>0, <1>1, <1>2 DEF Cut
<1>5. Prefix(d, InitPayload) = <<>>
  <2>1. d \in Seq(Units) /\ InitPayload \in Nat /\ ~ (InitPayload <= Len(d))
    BY <1>1, Sizes DEF Data
  <2>2. Prefix(d, InitPayload) \in Seq(Units) /\ Len(Prefix(d, InitPayload)) = 0
    BY <1>1, <2>1, PrefixProperty
  <2>3. QED
    BY <2>2, EmptySeq
<1>6. cut[1] = Packet(cid, TRUE, "cancel", 0, 0, <<>>)
  BY <1>0, <1>1, <1>4, <1>5 DEF Piece
<1>7. /\ cut[1].init = TRUE /\ cut[1].cmd = "cancel" /\ cut[1].len = 0 /\ cut[1].data = <<>>
      /\ cut[1].cid = cid /\ cid # Broadcast
  BY <1>6, Sizes DEF Packet
<1>8. QED
  BY <1>3, <1>7 DEF IsCancel

\* A program that has sent a message has its packets to write.
LEMMA Submitted ==
  ASSUME Types, WireInv, NEW a \in Apps, Open(a) \/ Request(a) \/ Resync(a)
  PROVE  /\ WireInv' /\ UNCHANGED vars
         /\ Len(sent) \in Nat /\ Len(sent') = Len(sent) + 1 /\ app'[a].id = Len(sent) + 1
         /\ \A m \in 1 .. Len(sent) : sent'[m] = sent[m]
         /\ app'[a].toWrite # <<>> /\ Head(app'[a].toWrite).init
         /\ app'[a].channel = app[a].channel /\ app'[a].phase = "waiting"
         /\ app'[a].got = NoReply
         /\ \A b \in Apps \ {a} : app'[b] = app[b]
<1>1. PICK cid \in Cids, cmd \in Commands, n \in Nat \ {0} :
           /\ Submit(a, cid, cmd, n) /\ cmd # "cancel"
           /\ app[a].channel = 0 => cmd = "init"
           /\ cid = Broadcast => cmd = "init" /\ n = NonceLength
           /\ cid # Broadcast => cid = app[a].channel
  BY Asking DEF Types
<1> DEFINE m == Len(sent) + 1
           d == Message(m, n)
           cut == Cut(cid, cmd, d)
<1>2. cmd \in Words /\ n \in Nat /\ ProgramTypes
  BY <1>1 DEF Words, Types
<1>3. /\ ProgramTypes'
      /\ m \in 1 .. MaxSent /\ Len(sent') = m
      /\ \A k \in 1 .. Len(sent) : sent'[k] = sent[k]
      /\ sent'[m] = [cid |-> cid, cmd |-> cmd, data |-> d]
      /\ app'[a].channel = app[a].channel /\ app'[a].id = m
      /\ app'[a].toWrite = cut /\ app'[a].phase = "waiting"
      /\ app'[a].got = NoReply
      /\ \A b \in Apps \ {a} : app'[b] = app[b]
      /\ UNCHANGED vars
  BY <1>1, <1>2, Submitting
<1>4. Len(sent) \in Nat /\ m = Len(sent) + 1
  BY DEF Types, ProgramTypes
<1> HIDE DEF m
<1>5. Len(d) = n
  BY <1>2, <1>3, MessageProperty
<1> HIDE DEF d
<1>6. MessageOK(m, sent'[m])
  BY <1>1, <1>3, <1>5 DEF MessageOK, d
<1>7. Log(sent')
  <2>1. sent' \in Seq(Messages) /\ Len(sent') <= MaxSent
    BY <1>3 DEF ProgramTypes
  <2>2. \A k \in 1 .. Len(sent') : k = m \/ k \in 1 .. Len(sent)
    BY <1>3, <1>4
  <2>3. \A k \in 1 .. Len(sent) : MessageOK(k, sent'[k])
    BY <1>3 DEF WireInv, Log
  <2>4. QED
    BY <1>6, <2>1, <2>2, <2>3 DEF Log
<1>8. m \in 1 .. Len(sent') /\ Len(sent) <= Len(sent') /\ Len(sent') \in Nat
  BY <1>3, <1>4
<1>9. cut = Cut(sent'[m].cid, sent'[m].cmd, sent'[m].data) /\ sent'[m].cid = cid
  BY <1>3
<1> HIDE DEF cut
<1>10. /\ cut \in Seq(Packets) /\ Len(cut) \in Nat \ {0} /\ cut[1].init
       /\ \A k \in 1 .. Len(cut) : IsPiece(sent', cut[k], m) /\ cut[k].cid = sent'[m].cid
       /\ sent'[m].cid = Broadcast => Len(cut) = 1
  <2> DEFINE t == sent'
  <2>1. Log(t) /\ m \in 1 .. Len(t) /\ cut = Cut(t[m].cid, t[m].cmd, t[m].data)
    BY <1>7, <1>8, <1>9
  <2> HIDE DEF t
  <2>2. /\ cut \in Seq(Packets) /\ Len(cut) \in Nat \ {0} /\ cut[1].init
        /\ \A k \in 1 .. Len(cut) : IsPiece(t, cut[k], m) /\ cut[k].cid = t[m].cid
        /\ t[m].cid = Broadcast => Len(cut) = 1
    BY <2>1, CutPieces
  <2>3. QED
    BY <2>2 DEF t
<1>11. WritesOK(sent', app'[a])
  <2>1. app'[a].id \in 0 .. Len(sent')
    BY <1>3, <1>8
  <2>2. \A k \in 1 .. Len(cut) : cut[k].cid = cid
    BY <1>9, <1>10
  <2>3. QED
    BY <1>1, <1>3, <1>9, <1>10, <2>1, <2>2, Zenon DEF WritesOK
<1>12. /\ \A q : QueueOK(sent, q) => QueueOK(sent', q)
       /\ \A me : WritesOK(sent, me) => WritesOK(sent', me)
  BY <1>3, <1>4, <1>8, LogGrows
<1>13. \A b \in Apps : WritesOK(sent', app'[b])
  BY <1>3, <1>11, <1>12, Zenon DEF WireInv
<1>14. \A i \in Interfaces : QueueOK(sent', toDevice'[i])
  BY <1>3, <1>12 DEF WireInv, vars
<1>15. \A b, c \in Apps : app'[b].id = app'[c].id /\ app'[b].id # 0 => b = c
  <2>1. \A b \in Apps \ {a} : app'[b].id # m
    <3>1. \A b \in Apps \ {a} : app'[b].id \in 0 .. Len(sent)
      BY <1>3 DEF WireInv, WritesOK
    <3>2. QED
      BY <1>4, <3>1
  <2>2. QED
    BY <1>3, <2>1 DEF WireInv
<1>16. WireInv'
  BY <1>7, <1>13, <1>14, <1>15 DEF WireInv
<1>17. cut # <<>> /\ Head(cut) = cut[1]
  BY <1>10
<1>18. QED
  BY <1>3, <1>4, <1>10, <1>16, <1>17

\* A packet that is written was among the packets to write.
LEMMA Written ==
  ASSUME Types, WireInv, NEW a \in Apps, Write(a),
         NEW p, p = Head(app[a].toWrite)
  PROVE  /\ WireInv' /\ p \in Packets
         /\ IsPiece(sent, p, app[a].id) \/ IsCancel(p)
         /\ p.cid # Broadcast => p.cid = app[a].channel
         /\ p.cid = Broadcast => IsPiece(sent, p, app[a].id) /\ app'[a].toWrite = <<>>
         /\ Of(p.data) = app[a].id \/ IsCancel(p)
         /\ app'[a].toWrite # <<>> => /\ IsPiece(sent, p, app[a].id)
                                     /\ IsPiece(sent, Head(app'[a].toWrite), app[a].id)
                                     /\ Head(app'[a].toWrite).cid = p.cid
                                     /\ p.cid # Broadcast
         /\ app'[a].id = app[a].id /\ app'[a].channel = app[a].channel
<1> DEFINE w == app[a].toWrite
           i == Home[a]
<1>1. /\ Types' /\ w # <<>> /\ p \in Packets
      /\ toDevice' = [toDevice EXCEPT ![i] = Append(@, p)]
      /\ UNCHANGED <<request, response, nextChannel, serving, busy, toHost, served, sent>>
      /\ app'[a].channel = app[a].channel /\ app'[a].id = app[a].id /\ app'[a].toWrite = Tail(w)
      /\ \A b \in Apps \ {a} : app'[b] = app[b]
  BY Writing
<1>2. w \in Seq(Packets) /\ i \in Interfaces /\ toDevice[i] \in Seq(Packets)
  BY Sizes DEF Types, ProgramTypes, Programs, WireTypes
<1>3. /\ p = w[1] /\ Len(w) \in Nat \ {0} /\ Len(Tail(w)) = Len(w) - 1
      /\ \A k \in 1 .. Len(Tail(w)) : Tail(w)[k] = w[k + 1]
  BY <1>1, <1>2
<1>4. WritesOK(sent, app[a]) /\ Log(sent)
  BY DEF WireInv
<1> HIDE DEF w, i
<1>5. 1 \in 1 .. Len(w) /\ \A k \in 1 .. Len(Tail(w)) : k + 1 \in 1 .. Len(w) /\ Len(w) # 1
  BY <1>3
<1>6. /\ app[a].id \in 0 .. Len(sent)
      /\ \A k \in 1 .. Len(w) :
           /\ IsPiece(sent, w[k], app[a].id) \/ (IsCancel(w[k]) /\ Len(w) = 1)
           /\ w[k].cid # Broadcast => w[k].cid = app[a].channel
           /\ w[k].cid = Broadcast => Len(w) = 1
  BY <1>4 DEF WritesOK, w
<1>7. /\ IsPiece(sent, p, app[a].id) \/ (IsCancel(p) /\ Len(w) = 1)
      /\ p.cid # Broadcast => p.cid = app[a].channel
      /\ p.cid = Broadcast => Len(w) = 1
  BY <1>3, <1>5, <1>6
<1>8. IsCancel(p) => p.cid # Broadcast
  BY DEF IsCancel
<1>9. Len(w) = 1 => Tail(w) = <<>>
  <2>1. Tail(w) \in Seq(Packets)
    BY <1>1, <1>2, HeadTailProperties
  <2>2. Len(w) = 1 => Len(Tail(w)) = 0
    BY <1>3
  <2>3. QED
    BY <2>1, <2>2, EmptySeq
<1>10. IsPiece(sent, p, app[a].id) => Of(p.data) = app[a].id
  <2> SUFFICES ASSUME IsPiece(sent, p, app[a].id) PROVE Of(p.data) = app[a].id
    OBVIOUS
  <2> DEFINE m == app[a].id
  <2>1. Log(sent) /\ m \in 1 .. Len(sent) /\ IsPiece(sent, p, m)
    BY <1>4 DEF IsPiece
  <2> HIDE DEF m
  <2>2. Of(p.data) = m
    BY <2>1, PieceFacts
  <2>3. QED
    BY <2>2 DEF m
<1>11. \A k \in 1 .. Len(Tail(w)) :
         /\ IsPiece(sent, Tail(w)[k], app[a].id)
         /\ Tail(w)[k].cid # Broadcast => Tail(w)[k].cid = app[a].channel
         /\ Tail(w)[k].cid # Broadcast
  BY <1>3, <1>5, <1>6
<1>12. WritesOK(sent', app'[a])
  BY <1>1, <1>6, <1>11 DEF WritesOK
<1>13. \A b \in Apps : WritesOK(sent', app'[b])
  BY <1>1, <1>12 DEF WireInv
<1>14. \A b, c \in Apps : app'[b].id = app'[c].id /\ app'[b].id # 0 => b = c
  BY <1>1 DEF WireInv
<1>15. QueueOK(sent, toDevice'[i])
  <2> DEFINE q == toDevice[i]
             t == toDevice'[i]
  <2>1. t = Append(q, p)
    BY <1>1, <1>2 DEF Types, WireTypes
  <2>2. q \in Seq(Packets) /\ QueueOK(sent, q)
    BY <1>2 DEF WireInv
  <2> HIDE DEF q, t
  <2>3. Len(t) = Len(q) + 1 /\ t[Len(q) + 1] = p /\ Len(q) \in Nat
        /\ \A k \in 1 .. Len(q) : t[k] = q[k]
    BY <1>1, <2>1, <2>2, AppendProperties
  <2>4. IsPiece(sent, p, Of(p.data)) \/ IsCancel(p)
    BY <1>7, <1>10
  <2>5. \A k \in 1 .. Len(t) : k \in 1 .. Len(q) \/ k = Len(q) + 1
    BY <2>3
  <2>6. \A k \in 1 .. Len(t) : IsPiece(sent, t[k], Of(t[k].data)) \/ IsCancel(t[k])
    BY <2>2, <2>3, <2>4, <2>5, Zenon DEF QueueOK
  <2>7. QueueOK(sent, t)
    BY <2>6 DEF QueueOK
  <2>8. QED
    BY <2>7 DEF t
<1>16. \A j \in Interfaces : QueueOK(sent', toDevice'[j])
  BY <1>1, <1>2, <1>15 DEF WireInv, Types, WireTypes
<1>17. WireInv'
  BY <1>1, <1>13, <1>14, <1>16 DEF WireInv
<1>18. Tail(w) # <<>> => /\ IsPiece(sent, p, app[a].id) /\ IsPiece(sent, Head(Tail(w)), app[a].id)
                         /\ Head(Tail(w)).cid = p.cid /\ p.cid # Broadcast
  <2> SUFFICES ASSUME Tail(w) # <<>>
               PROVE  /\ IsPiece(sent, p, app[a].id) /\ IsPiece(sent, Head(Tail(w)), app[a].id)
                      /\ Head(Tail(w)).cid = p.cid /\ p.cid # Broadcast
    OBVIOUS
  <2>1. Tail(w) \in Seq(Packets)
    BY <1>1, <1>2, HeadTailProperties
  <2>2. Head(Tail(w)) = Tail(w)[1] /\ 1 \in 1 .. Len(Tail(w))
    BY <2>1
  <2>3. QED
    BY <1>7, <1>9, <1>11, <2>2
<1>19. QED
  BY <1>1, <1>7, <1>8, <1>9, <1>10, <1>17, <1>18, Zenon

\* A cancellation is one packet, on the program's channel.
LEMMA Cancelled ==
  ASSUME Types, WireInv, NEW a \in Apps, Cancel(a)
  PROVE  /\ WireInv' /\ UNCHANGED <<vars, sent>>
         /\ app'[a].toWrite # <<>> /\ Head(app'[a].toWrite).init
         /\ Head(app'[a].toWrite).cid # Broadcast
         /\ app'[a].channel = app[a].channel /\ app'[a].id = app[a].id
         /\ app'[a].phase = app[a].phase /\ app'[a].got = app[a].got
         /\ \A b \in Apps \ {a} : app'[b] = app[b]
<1> DEFINE cut == app'[a].toWrite
<1>1. /\ ProgramTypes' /\ UNCHANGED <<vars, sent>>
      /\ app[a].channel \in 1 .. Broadcast - 1
      /\ cut = Cut(app[a].channel, "cancel", <<>>)
      /\ app'[a].channel = app[a].channel /\ app'[a].id = app[a].id
      /\ app'[a].phase = app[a].phase /\ app'[a].got = app[a].got
      /\ \A b \in Apps \ {a} : app'[b] = app[b]
  BY Cancelling DEF Types
<1> HIDE DEF cut
<1>2. Len(cut) = 1 /\ IsCancel(cut[1]) /\ cut[1].cid = app[a].channel
  BY <1>1, CancelPacket
<1>3. cut # <<>> /\ Head(cut) = cut[1]
  <2>1. cut \in Seq(Packets)
    BY <1>1 DEF ProgramTypes, Programs, cut
  <2>2. Len(cut) \in Nat \ {0}
    BY <1>2
  <2>3. QED
    BY <2>1, <2>2
<1>4. WritesOK(sent', app'[a])
  <2>1. app'[a].id \in 0 .. Len(sent')
    BY <1>1 DEF WireInv, WritesOK
  <2>2. cut[1].cid # Broadcast /\ \A n \in 1 .. Len(cut) : n = 1
    BY <1>2 DEF IsCancel
  <2>3. \A n \in 1 .. Len(cut) : /\ IsCancel(cut[n]) /\ Len(cut) = 1
                               /\ cut[n].cid = app'[a].channel /\ cut[n].cid # Broadcast
    BY <1>1, <1>2, <2>2, Zenon
  <2>4. QED
    BY <2>1, <2>3, Zenon DEF WritesOK, cut
<1>5. \A b \in Apps : WritesOK(sent', app'[b])
  BY <1>1, <1>4 DEF WireInv
<1>6. \A b, c \in Apps : app'[b].id = app'[c].id /\ app'[b].id # 0 => b = c
  BY <1>1 DEF WireInv
<1>7. WireInv'
  BY <1>1, <1>5, <1>6 DEF WireInv, vars
<1>8. cut[1].init /\ cut[1].cid # Broadcast
  BY <1>2 DEF IsCancel
<1>9. QED
  BY <1>1, <1>3, <1>7, <1>8 DEF cut

\* A program that is given a channel has nothing left to write on another.
LEMMA ReadWires ==
  ASSUME Types, WireInv, NEW i \in Interfaces, Read(i)
  PROVE  WireInv'
<1>1. Types' /\ UNCHANGED <<toDevice, sent>>
  BY Reading
<1>2. PICK p \in Packets :
        ReportOK(p) /\ \A a \in Apps : app'[a] = IF Home[a] = i THEN Hear(a, p) ELSE app[a]
  BY Reading
<1>3. ASSUME NEW a \in Apps
      PROVE  WritesOK(sent, app'[a]) /\ app'[a].id = app[a].id
  <2> DEFINE me == app[a]
             x  == app'[a]
  <2>1. WritesOK(sent, me) /\ me \in Programs
    BY DEF WireInv, Types, ProgramTypes
  <2>2. CASE x = me
    BY <2>1, <2>2
  <2>3. CASE x = Hear(a, p)
    <3>1. /\ x.id = me.id /\ x.toWrite \in {me.toWrite, <<>>}
          /\ x.channel = me.channel \/ me.channel = 0
      <4> DEFINE y == Hear(a, p)
      <4>1. y = Hear(a, p)
        OBVIOUS
      <4> HIDE DEF y
      <4>2. /\ y.id = me.id /\ y.toWrite \in {me.toWrite, <<>>}
            /\ y.channel = me.channel \/ me.channel = 0
        BY <1>2, <4>1, HearType DEF Types
      <4>3. QED
        BY <2>3, <4>1, <4>2
    <3> HIDE DEF x, me
    <3>2. CASE x.toWrite = <<>>
      <4>1. Len(x.toWrite) = 0
        BY <3>2
      <4>2. x.id \in 0 .. Len(sent)
        BY <2>1, <3>1 DEF WritesOK
      <4>3. QED
        BY <3>1, <4>1, <4>2 DEF WritesOK, x, me
    <3>3. CASE x.toWrite = me.toWrite /\ x.channel = me.channel
      BY <2>1, <3>1, <3>3 DEF WritesOK, x, me
    <3>4. CASE x.toWrite = me.toWrite /\ me.channel = 0
      <4>1. \A n \in 1 .. Len(me.toWrite) : me.toWrite[n].cid # 0
        <5>1. me.toWrite \in Seq(Packets) /\ \A q \in Packets : q.cid # 0
          BY <2>1 DEF Programs, Packets, Cids
        <5>2. QED
          BY <5>1, ElementOfSeq
      <4>2. \A n \in 1 .. Len(me.toWrite) : me.toWrite[n].cid = Broadcast
        BY <2>1, <3>4, <4>1 DEF WritesOK
      <4>3. QED
        BY <2>1, <3>1, <3>4, <4>2 DEF WritesOK, x, me
    <3>5. QED
      BY <3>1, <3>2, <3>3, <3>4
  <2>4. QED
    BY <1>2, <2>2, <2>3
<1>4. QED
  BY <1>1, <1>3 DEF WireInv

LEMMA TailWires ==
  ASSUME NEW s, NEW q \in Seq(Packets), q # <<>>, QueueOK(s, q)
  PROVE  /\ QueueOK(s, Tail(q)) /\ Head(q) = q[1] /\ Head(q) \in Packets
         /\ IsPiece(s, q[1], Of(q[1].data)) \/ IsCancel(q[1])
         /\ Len(q) \in Nat \ {0} /\ Len(Tail(q)) = Len(q) - 1
         /\ \A n \in 1 .. Len(Tail(q)) : n + 1 \in 1 .. Len(q) /\ Tail(q)[n] = q[n + 1]
<1>1. /\ Len(q) \in Nat \ {0} /\ Len(Tail(q)) = Len(q) - 1 /\ Head(q) = q[1] /\ Head(q) \in Packets
      /\ \A n \in 1 .. Len(Tail(q)) : Tail(q)[n] = q[n + 1]
  <2>1. Head(q) \in Packets
    BY HeadTailProperties
  <2>2. QED
    BY <2>1
<1>2. \A n \in 1 .. Len(Tail(q)) : n + 1 \in 1 .. Len(q)
  BY <1>1
<1>3. 1 \in 1 .. Len(q)
  BY <1>1
<1>4. QED
  BY <1>1, <1>2, <1>3, Zenon DEF QueueOK

LEMMA FreshWires == Fresh => WireInv
<1> SUFFICES ASSUME Fresh PROVE WireInv
  OBVIOUS
<1>1. Log(sent) /\ Len(sent) = 0
  <2>1. Types
    BY FreshTyped
  <2>2. Len(sent) = 0
    BY DEF Fresh
  <2>3. QED
    BY <2>1, <2>2 DEF Log, Types, ProgramTypes
<1>2. \A i \in Interfaces : QueueOK(sent, toDevice[i])
  BY DEF Fresh, QueueOK
<1>3. \A a \in Apps : WritesOK(sent, app[a]) /\ app[a].id = 0
  BY <1>1 DEF Fresh, Closed, WritesOK
<1>4. QED
  BY <1>1, <1>2, <1>3 DEF WireInv

LEMMA WiresInductive == Types /\ WireInv /\ [SysNext]_sysVars => WireInv'
<1> SUFFICES ASSUME Types, WireInv, [SysNext]_sysVars PROVE WireInv'
  OBVIOUS
<1>1. CASE DeviceStep
  <2>1. UNCHANGED <<app, sent>>
    BY <1>1 DEF DeviceStep
  <2>2. PICK i \in Interfaces :
          Receive(i) \/ SendNext(i) \/ EndpointDone(i) \/ Keepalive(i) \/ FinishCbor(i)
    BY <1>1 DEF DeviceStep, Device
  <2>3. CASE Receive(i)
    <3>1. toDevice[i] # <<>> /\ toDevice' = [toDevice EXCEPT ![i] = Tail(@)]
      BY <2>3 DEF Receive
    <3>2. \A j \in Interfaces : toDevice[j] \in Seq(Packets) /\ QueueOK(sent, toDevice[j])
      BY DEF Types, WireTypes, WireInv
    <3>3. QueueOK(sent, Tail(toDevice[i]))
      BY <3>1, <3>2, TailWires
    <3>4. \A j \in Interfaces : QueueOK(sent, toDevice'[j])
      BY <3>1, <3>2, <3>3 DEF Types, WireTypes
    <3>5. QED
      BY <2>1, <3>4 DEF WireInv
  <2>4. CASE UNCHANGED toDevice
    BY <2>1, <2>4 DEF WireInv
  <2>5. QED
    BY <2>2, <2>3, <2>4, Zenon DEF SendNext, EndpointDone, Keepalive, FinishCbor
<1>2. ASSUME NEW a \in Apps, Open(a) \/ Request(a) \/ Resync(a) PROVE WireInv'
  BY <1>2, Submitted
<1>3. ASSUME NEW a \in Apps, Cancel(a) PROVE WireInv'
  BY <1>3, Cancelled
<1>4. ASSUME NEW a \in Apps, Write(a) PROVE WireInv'
  BY <1>4, Written
<1>5. ASSUME NEW i \in Interfaces, Read(i) PROVE WireInv'
  BY <1>5, ReadWires
<1>6. CASE Umount
  BY <1>6, FreshStates, FreshWires, PTL
<1>7. CASE UNCHANGED sysVars
  BY <1>7 DEF sysVars, vars, WireInv
<1>8. QED
  BY <1>1, <1>2, <1>3, <1>4, <1>5, <1>6, <1>7 DEF SysNext

--------------------------------------------------------------------------------
(* Channels                                                                  *)

Opened(requests) == {r \in requests : r.cmd = "init" /\ r.cid = Broadcast}

\* The device has taken a packet of the broadcast channel: it gives a channel out.
LEMMA Opening ==
  ASSUME Types, WireInv, NEW i \in Interfaces, NEW p \in Packets,
         IsPiece(sent, p, Of(p.data)), p.cid = Broadcast, Handle(i, p)
  PROVE  /\ served' = served \cup {[cid |-> Broadcast, cmd |-> "init", data |-> p.data]}
         /\ nextChannel' = Allocate(nextChannel).counter
         /\ \A j \in Interfaces \ {i} : response'[j] = response[j]
         /\ response'[i].cmd = "init"
         /\ response'[i].data = Append(p.data, [of |-> 0, at |-> Allocate(nextChannel).cid])
         /\ request' = [request EXCEPT ![i] = Idle] /\ UNCHANGED serving
         /\ Len(p.data) = NonceLength
         /\ response'[i].cid = Broadcast /\ response'[i].sent = 0 /\ response'[i].active
<1> DEFINE m == Of(p.data)
           r == Started(p)
           c == Allocate(nextChannel).cid
           e == Append(p.data, [of |-> 0, at |-> c])
<1>1. m \in 1 .. Len(sent) /\ Log(sent) /\ IsPiece(sent, p, m)
  BY DEF IsPiece, WireInv
<1> HIDE DEF m
<1>2. p.init /\ p.cmd = "init" /\ p.len = NonceLength /\ p.data = sent[m].data
  BY <1>1, PieceFacts
<1>3. /\ p.data \in Data /\ Len(p.data) = NonceLength
  <2>1. p.data \in Data
    BY DEF Packets
  <2>2. sent[m].cid = Broadcast
    BY <1>1, PieceFacts
  <2>3. Len(sent[m].data) = NonceLength
    BY <1>1, <2>2 DEF Log, MessageOK
  <2>4. QED
    BY <1>2, <2>1, <2>3
<1>4. p.len <= MaxMessage /\ ~ (p.len > MaxMessage)
  BY <1>2, Sizes
<1>5. Extend(i, r)
  BY <1>2, <1>4, Handling
<1>6. r = Started(p)
  OBVIOUS
<1> HIDE DEF r
<1>7. /\ r.cid = Broadcast /\ r.cmd = "init" /\ r.len = NonceLength /\ r.data = p.data
  <2>1. r.cid = p.cid /\ r.cmd = p.cmd /\ r.len = p.len /\ r.data = Prefix(p.data, Min({p.len, InitPayload}))
    BY <1>4, <1>6, StartedType
  <2>2. Min({p.len, InitPayload}) = NonceLength
    BY <1>2, Sizes, MinTwo
  <2>3. Prefix(p.data, NonceLength) = p.data
    <3>1. Min({NonceLength, Len(p.data)}) = Len(p.data)
      BY <1>3, Sizes, MinTwo
    <3>2. SubSeq(p.data, 1, Len(p.data)) = p.data
      BY <1>3 DEF Data
    <3>3. QED
      BY <3>1, <3>2 DEF Prefix
  <2>4. QED
    BY <1>2, <2>1, <2>2, <2>3
<1>8. Dispatch(i, r)
  <2>1. Len(r.data) >= r.len
    BY <1>3, <1>7, Sizes
  <2>2. QED
    BY <1>5, <2>1, Zenon DEF Extend
<1>9. HandleInit(i, r.cid, r.data)
  BY <1>7, <1>8, Dispatching
<1>10. nextChannel' = Allocate(nextChannel).counter /\ Reply(i, Broadcast, "init", e)
  BY <1>3, <1>7, <1>9 DEF HandleInit
<1>11. c \in 1 .. Broadcast - 1 /\ [of |-> 0, at |-> c] \in Units
  <2>1. c \in 1 .. Broadcast - 1
    BY AllocateProperty DEF Types, RequestTypes
  <2>2. c \in Nat
    BY <2>1, Sizes
  <2>3. QED
    BY <2>1, <2>2, UnitType
<1> HIDE DEF c
<1>12. e \in Data /\ Len(e) = NonceLength + 1
  BY <1>3, <1>11, AppendProperties DEF Data
<1> HIDE DEF e
<1>13. Prefix(e, MaxMessage) = e
  <2>1. Min({MaxMessage, Len(e)}) = Len(e)
    BY <1>12, Sizes, MinTwo
  <2>2. SubSeq(e, 1, Len(e)) = e
    BY <1>12 DEF Data
  <2>3. QED
    BY <2>1, <2>2 DEF Prefix
<1>14. response' = [response EXCEPT ![i] = [active |-> TRUE, cid |-> Broadcast, cmd |-> "init",
                                            seq |-> 0, sent |-> 0, data |-> e]]
  BY <1>10, <1>13 DEF Reply
<1>15. /\ \A j \in Interfaces \ {i} : response'[j] = response[j]
       /\ response'[i] = [active |-> TRUE, cid |-> Broadcast, cmd |-> "init",
                          seq |-> 0, sent |-> 0, data |-> e]
  BY <1>14 DEF Types, ReplyTypes
<1>16. /\ served' = served \cup {[cid |-> Broadcast, cmd |-> "init", data |-> p.data]}
       /\ request' = [request EXCEPT ![i] = Idle] /\ UNCHANGED serving
  BY <1>7, <1>8 DEF Dispatch
<1>17. /\ response'[i].cmd = "init" /\ response'[i].data = e /\ response'[i].cid = Broadcast
       /\ response'[i].sent = 0 /\ response'[i].active = TRUE
  BY <1>15
<1>18. QED
  BY <1>3, <1>10, <1>15, <1>16, <1>17, Zenon DEF e, c

\* A packet of any other channel gives nothing out, and the answer is for its channel.
LEMMA NotOpening ==
  ASSUME Types, NEW i \in Interfaces, NEW p \in Packets, p.cid # Broadcast, Handle(i, p)
  PROVE  /\ Opened(served') = Opened(served) /\ UNCHANGED nextChannel
         /\ \A j \in Interfaces \ {i} : response'[j] = response[j]
         /\ response'[i] = response[i] \/ response'[i].cid = p.cid
<1> DEFINE Answered == UNCHANGED response \/ \E cmd, data : Reply(i, p.cid, cmd, data)
<1>1. Answered => /\ \A j \in Interfaces \ {i} : response'[j] = response[j]
                  /\ response'[i] = response[i] \/ response'[i].cid = p.cid
  <2>1. CASE UNCHANGED response
    BY <2>1
  <2>2. ASSUME NEW cmd, NEW data, Reply(i, p.cid, cmd, data)
        PROVE  /\ \A j \in Interfaces \ {i} : response'[j] = response[j]
               /\ response'[i].cid = p.cid
    <3> DEFINE r == [active |-> TRUE, cid |-> p.cid, cmd |-> cmd, seq |-> 0, sent |-> 0,
                     data |-> Prefix(data, MaxMessage)]
    <3>1. response' = [response EXCEPT ![i] = r] /\ r.cid = p.cid
      BY <2>2 DEF Reply
    <3> HIDE DEF r
    <3>2. QED
      BY <3>1 DEF Types, ReplyTypes
  <2>3. QED
    BY <2>1, <2>2
<1>2. ASSUME NEW cid, Error(i, cid) PROVE \E cmd, data : Reply(i, cid, cmd, data)
  BY <1>2, Zenon DEF Error
<1>3. ASSUME NEW r, Extend(i, r), r.cid = p.cid
      PROVE  Opened(served') = Opened(served) /\ UNCHANGED nextChannel /\ Answered
  <2>1. CASE UNCHANGED <<response, nextChannel, serving, served>>
    BY <2>1
  <2>2. CASE Dispatch(i, r)
    <3> DEFINE x == [cid |-> r.cid, cmd |-> r.cmd, data |-> r.data]
    <3>1. served' = served \cup {x} /\ x.cid = r.cid
      BY <2>2 DEF Dispatch
    <3> HIDE DEF x
    <3>2. Opened(served') = Opened(served)
      BY <1>3, <3>1 DEF Opened
    <3>3. CASE r.cmd = "init" /\ HandleInit(i, r.cid, r.data)
      <4>1. UNCHANGED nextChannel
        BY <1>3, <3>3 DEF HandleInit
      <4>2. \E cmd, data : Reply(i, r.cid, cmd, data)
        BY <1>2, <3>3, Zenon DEF HandleInit
      <4>3. QED
        BY <1>3, <3>2, <4>1, <4>2
    <3>4. CASE UNCHANGED <<response, nextChannel>>
      BY <3>2, <3>4
    <3>5. CASE Reply(i, r.cid, "ping", r.data) /\ UNCHANGED nextChannel
      BY <1>3, <3>2, <3>5, Zenon
    <3>6. CASE UNCHANGED nextChannel /\ \E n \in AnswerLengths : Reply(i, r.cid, "diag", Answer(r, n))
      BY <1>3, <3>2, <3>6, Zenon
    <3>7. CASE Error(i, r.cid) /\ UNCHANGED nextChannel
      BY <1>2, <1>3, <3>2, <3>7, Zenon
    <3>8. QED
      BY <2>2, <3>3, <3>4, <3>5, <3>6, <3>7, Dispatching, Zenon
  <2>3. QED
    BY <1>3, <2>1, <2>2, Zenon DEF Extend
<1>4. Opened(served') = Opened(served) /\ UNCHANGED nextChannel /\ Answered
  <2>1. CASE UNCHANGED <<request, nextChannel, serving, served>> /\ (UNCHANGED response \/ Error(i, p.cid))
    <3>1. Answered
      BY <1>2, <2>1, Zenon
    <3>2. QED
      BY <2>1, <3>1
  <2>2. CASE request[i].active /\ p.cid = request[i].cid /\ Extend(i, Continued(i, p))
    <3> DEFINE r == Continued(i, p)
    <3>1. r = Continued(i, p)
      OBVIOUS
    <3> HIDE DEF r
    <3>2. r.cid = p.cid
      BY <2>2, <3>1, ContinuedType DEF Types
    <3>3. QED
      BY <1>3, <2>2, <3>1, <3>2
  <2>3. CASE Extend(i, Started(p))
    <3>1. Started(p).cid = p.cid
      BY DEF Started
    <3>2. QED
      BY <1>3, <2>3, <3>1
  <2>4. CASE Reject(i, p.cid)
    <3>1. Answered
      BY <1>2, <2>4, Zenon DEF Reject
    <3>2. QED
      BY <2>4, <3>1 DEF Reject
  <2>5. QED
    BY <2>1, <2>2, <2>3, <2>4, Handling, Zenon
<1>5. QED
  BY <1>1, <1>4, Zenon

\* The broadcast packet that a program has still to write.
Opens(me) == me.toWrite # <<>> /\ Head(me.toWrite).cid = Broadcast

\* Every message of the broadcast channel is in one place: it is to be written, or on its
\* way to the device, or carried out.
OpenInv ==
  /\ \A r \in Opened(served) : Of(r.data) \in 1 .. Len(sent)
  /\ \A i, j \in Interfaces : \A n \in 1 .. Len(toDevice[i]), l \in 1 .. Len(toDevice[j]) :
       /\ toDevice[i][n].cid = Broadcast /\ toDevice[j][l].cid = Broadcast
       /\ Of(toDevice[i][n].data) = Of(toDevice[j][l].data)
       => i = j /\ n = l
  /\ \A i \in Interfaces : \A n \in 1 .. Len(toDevice[i]) :
       toDevice[i][n].cid = Broadcast =>
         /\ \A r \in Opened(served) : Of(r.data) # Of(toDevice[i][n].data)
         /\ \A a \in Apps : Opens(app[a]) => app[a].id # Of(toDevice[i][n].data)
  /\ \A a \in Apps : Opens(app[a]) => \A r \in Opened(served) : Of(r.data) # app[a].id

\* One channel has been given out for each of them that was carried out.
CountInv == ~ Wrapped => nextChannel = 1 + Cardinality(Opened(served))

LEMMA QueuedOpen ==
  ASSUME WireInv, NEW i \in Interfaces, NEW n \in 1 .. Len(toDevice[i]), toDevice[i][n].cid = Broadcast
  PROVE  /\ Of(toDevice[i][n].data) \in 1 .. Len(sent)
         /\ IsPiece(sent, toDevice[i][n], Of(toDevice[i][n].data))
BY DEF WireInv, QueueOK, IsPiece, IsCancel

LEMMA OpenSubmitted ==
  ASSUME Types, WireInv, OpenInv, NEW a \in Apps, Open(a) \/ Request(a) \/ Resync(a)
  PROVE  OpenInv'
<1>1. /\ UNCHANGED vars /\ Len(sent) \in Nat /\ Len(sent') = Len(sent) + 1
      /\ app'[a].id = Len(sent) + 1 /\ \A b \in Apps \ {a} : app'[b] = app[b]
  BY Submitted
<1>2. UNCHANGED <<served, toDevice>>
  BY <1>1 DEF vars
<1>3. \A r \in Opened(served) : Of(r.data) \in 1 .. Len(sent') /\ Of(r.data) # app'[a].id
  BY <1>1 DEF OpenInv
<1>4. \A i \in Interfaces : \A n \in 1 .. Len(toDevice[i]) :
        toDevice[i][n].cid = Broadcast => app'[a].id # Of(toDevice[i][n].data)
  BY <1>1, QueuedOpen
<1>5. QED
  BY <1>1, <1>2, <1>3, <1>4 DEF OpenInv

LEMMA OpenWritten ==
  ASSUME Types, WireInv, OpenInv, NEW a \in Apps, Write(a)
  PROVE  OpenInv'
<1> DEFINE p == Head(app[a].toWrite)
           i == Home[a]
<1>1. /\ p \in Packets
      /\ p.cid = Broadcast => IsPiece(sent, p, app[a].id) /\ app'[a].toWrite = <<>>
      /\ Of(p.data) = app[a].id \/ IsCancel(p)
      /\ app'[a].toWrite # <<>> => Head(app'[a].toWrite).cid = p.cid /\ p.cid # Broadcast
      /\ app'[a].id = app[a].id
  BY Written
<1>2. /\ app[a].toWrite # <<>> /\ UNCHANGED <<served, sent>>
      /\ toDevice' = [toDevice EXCEPT ![i] = Append(@, p)]
      /\ \A b \in Apps \ {a} : app'[b] = app[b]
  BY Writing
<1> HIDE DEF p, i
<1>3. i \in Interfaces /\ \A j \in Interfaces : toDevice[j] \in Seq(Packets)
  BY Sizes DEF i, Types, WireTypes
<1>4. ~ Opens(app'[a])
  BY <1>1 DEF Opens
<1>5. p.cid = Broadcast => /\ Opens(app[a]) /\ Of(p.data) = app[a].id /\ app[a].id # 0
  BY <1>1, <1>2 DEF Opens, IsCancel, IsPiece, p
<1>6. \A j \in Interfaces : \A n \in 1 .. Len(toDevice'[j]) :
        \/ n \in 1 .. Len(toDevice[j]) /\ toDevice'[j][n] = toDevice[j][n]
        \/ j = i /\ n = Len(toDevice[i]) + 1 /\ toDevice'[j][n] = p
  <2>1. \A j \in Interfaces : toDevice'[j] = IF j = i THEN Append(toDevice[i], p) ELSE toDevice[j]
    BY <1>2, <1>3 DEF Types, WireTypes
  <2>2. /\ Len(Append(toDevice[i], p)) = Len(toDevice[i]) + 1 /\ Len(toDevice[i]) \in Nat
        /\ Append(toDevice[i], p)[Len(toDevice[i]) + 1] = p
        /\ \A n \in 1 .. Len(toDevice[i]) : Append(toDevice[i], p)[n] = toDevice[i][n]
    BY <1>1, <1>3, AppendProperties
  <2>3. ASSUME NEW j \in Interfaces, NEW n \in 1 .. Len(toDevice'[j]), j # i
        PROVE  n \in 1 .. Len(toDevice[j]) /\ toDevice'[j][n] = toDevice[j][n]
    <3>1. toDevice'[j] = toDevice[j]
      BY <2>1, <2>3
    <3>2. QED
      BY <3>1
  <2>4. ASSUME NEW n \in 1 .. Len(toDevice'[i])
        PROVE  \/ n \in 1 .. Len(toDevice[i]) /\ toDevice'[i][n] = toDevice[i][n]
               \/ n = Len(toDevice[i]) + 1 /\ toDevice'[i][n] = p
    <3> DEFINE t == Append(toDevice[i], p)
               q == toDevice[i]
    <3>1. toDevice'[i] = t
      BY <1>3, <2>1
    <3>2. /\ Len(t) = Len(q) + 1 /\ Len(q) \in Nat /\ t[Len(q) + 1] = p
          /\ \A k \in 1 .. Len(q) : t[k] = q[k]
      BY <2>2
    <3> HIDE DEF t, q
    <3>3. n \in 1 .. Len(q) \/ n = Len(q) + 1
      BY <2>4, <3>1, <3>2
    <3>4. QED
      BY <3>1, <3>2, <3>3 DEF q
  <2>5. QED
    BY <1>3, <2>3, <2>4
<1>7. \A b \in Apps : Opens(app'[b]) => b # a /\ Opens(app[b]) /\ app'[b].id = app[b].id
  BY <1>2, <1>4
<1>8. \A b \in Apps : b # a /\ app[a].id # 0 => app[b].id # app[a].id
  BY DEF WireInv
<1>9. \A j, k \in Interfaces : \A n \in 1 .. Len(toDevice'[j]), l \in 1 .. Len(toDevice'[k]) :
       /\ toDevice'[j][n].cid = Broadcast /\ toDevice'[k][l].cid = Broadcast
       /\ Of(toDevice'[j][n].data) = Of(toDevice'[k][l].data)
       => j = k /\ n = l
  <2> SUFFICES ASSUME NEW j \in Interfaces, NEW k \in Interfaces,
                      NEW n \in 1 .. Len(toDevice'[j]), NEW l \in 1 .. Len(toDevice'[k]),
                      toDevice'[j][n].cid = Broadcast, toDevice'[k][l].cid = Broadcast,
                      Of(toDevice'[j][n].data) = Of(toDevice'[k][l].data)
               PROVE  j = k /\ n = l
    OBVIOUS
  <2>1. CASE /\ n \in 1 .. Len(toDevice[j]) /\ toDevice'[j][n] = toDevice[j][n]
             /\ l \in 1 .. Len(toDevice[k]) /\ toDevice'[k][l] = toDevice[k][l]
    BY <2>1 DEF OpenInv
  <2>2. ASSUME NEW u \in Interfaces, NEW v \in 1 .. Len(toDevice[u]),
               toDevice[u][v].cid = Broadcast, p.cid = Broadcast
        PROVE  Of(toDevice[u][v].data) # Of(p.data)
    BY <1>5, <2>2 DEF OpenInv
  <2>3. CASE n \in 1 .. Len(toDevice[j]) /\ toDevice'[j][n] = toDevice[j][n] /\ toDevice'[k][l] = p
    BY <2>2, <2>3
  <2>4. CASE l \in 1 .. Len(toDevice[k]) /\ toDevice'[k][l] = toDevice[k][l] /\ toDevice'[j][n] = p
    BY <2>2, <2>4
  <2>5. CASE j = i /\ n = Len(toDevice[i]) + 1 /\ k = i /\ l = Len(toDevice[i]) + 1
    BY <2>5
  <2>6. QED
    BY <1>6, <2>1, <2>3, <2>4, <2>5, Zenon
<1>10. \A j \in Interfaces : \A n \in 1 .. Len(toDevice'[j]) :
       toDevice'[j][n].cid = Broadcast =>
         /\ \A r \in Opened(served) : Of(r.data) # Of(toDevice'[j][n].data)
         /\ \A b \in Apps : Opens(app'[b]) => app'[b].id # Of(toDevice'[j][n].data)
  <2> SUFFICES ASSUME NEW j \in Interfaces, NEW n \in 1 .. Len(toDevice'[j]),
                      toDevice'[j][n].cid = Broadcast
               PROVE  /\ \A r \in Opened(served) : Of(r.data) # Of(toDevice'[j][n].data)
                      /\ \A b \in Apps : Opens(app'[b]) => app'[b].id # Of(toDevice'[j][n].data)
    OBVIOUS
  <2>1. CASE n \in 1 .. Len(toDevice[j]) /\ toDevice'[j][n] = toDevice[j][n]
    <3>1. /\ \A r \in Opened(served) : Of(r.data) # Of(toDevice[j][n].data)
          /\ \A b \in Apps : Opens(app[b]) => app[b].id # Of(toDevice[j][n].data)
      BY <2>1, Zenon DEF OpenInv
    <3>2. QED
      BY <1>7, <2>1, <3>1
  <2>2. CASE toDevice'[j][n] = p
    <3>1. Opens(app[a]) /\ Of(p.data) = app[a].id /\ app[a].id # 0
      BY <1>5, <2>2
    <3>2. \A r \in Opened(served) : Of(r.data) # Of(p.data)
      BY <3>1 DEF OpenInv
    <3>3. \A b \in Apps : Opens(app'[b]) => app'[b].id # Of(p.data)
      BY <1>7, <1>8, <3>1
    <3>4. QED
      BY <2>2, <3>2, <3>3
  <2>3. QED
    BY <1>6, <2>1, <2>2, Zenon
<1>11. \A b \in Apps : Opens(app'[b]) => \A r \in Opened(served) : Of(r.data) # app'[b].id
  BY <1>7 DEF OpenInv
<1>12. \A r \in Opened(served) : Of(r.data) \in 1 .. Len(sent)
  BY DEF OpenInv
<1>13. QED
  BY <1>2, <1>9, <1>10, <1>11, <1>12 DEF OpenInv

\* The first packet of a queue is taken.
LEMMA Taken ==
  ASSUME Types, WireInv, NEW i \in Interfaces, Receive(i), NEW p, p = Head(toDevice[i])
  PROVE  /\ p \in Packets /\ p = toDevice[i][1] /\ Len(toDevice[i]) \in Nat \ {0}
         /\ IsPiece(sent, p, Of(p.data)) \/ IsCancel(p)
         /\ Handle(i, p) /\ serving = NoInterface
         /\ UNCHANGED <<busy, toHost>>
         /\ \A j \in Interfaces \ {i} : toDevice'[j] = toDevice[j]
         /\ toDevice'[i] = Tail(toDevice[i]) /\ Len(toDevice'[i]) = Len(toDevice[i]) - 1
         /\ \A n \in 1 .. Len(toDevice'[i]) :
              n + 1 \in 1 .. Len(toDevice[i]) /\ toDevice'[i][n] = toDevice[i][n + 1]
<1>1. /\ serving = NoInterface /\ toDevice[i] # <<>> /\ Handle(i, p)
      /\ toDevice' = [toDevice EXCEPT ![i] = Tail(@)] /\ UNCHANGED <<busy, toHost>>
  BY Zenon DEF Receive, Handle
<1>2. toDevice[i] \in Seq(Packets) /\ QueueOK(sent, toDevice[i])
  BY DEF Types, WireTypes, WireInv
<1>3. /\ p = toDevice[i][1] /\ p \in Packets
      /\ IsPiece(sent, p, Of(p.data)) \/ IsCancel(p)
      /\ Len(toDevice[i]) \in Nat \ {0} /\ Len(Tail(toDevice[i])) = Len(toDevice[i]) - 1
      /\ \A n \in 1 .. Len(Tail(toDevice[i])) :
           n + 1 \in 1 .. Len(toDevice[i]) /\ Tail(toDevice[i])[n] = toDevice[i][n + 1]
  BY <1>1, <1>2, TailWires
<1>4. /\ toDevice'[i] = Tail(toDevice[i])
      /\ \A j \in Interfaces \ {i} : toDevice'[j] = toDevice[j]
  BY <1>1 DEF Types, WireTypes
<1>5. QED
  BY <1>1, <1>3, <1>4, Zenon

LEMMA OpenReceived ==
  ASSUME Types, WireInv, OpenInv, NEW i \in Interfaces, Receive(i), UNCHANGED <<app, sent>>
  PROVE  OpenInv'
<1> DEFINE p == Head(toDevice[i])
           x == [cid |-> Broadcast, cmd |-> "init", data |-> p.data]
<1>0. p = Head(toDevice[i])
  OBVIOUS
<1> HIDE DEF p
<1>1. /\ p \in Packets /\ p = toDevice[i][1] /\ Len(toDevice[i]) \in Nat \ {0}
      /\ IsPiece(sent, p, Of(p.data)) \/ IsCancel(p)
      /\ Handle(i, p)
      /\ \A j \in Interfaces \ {i} : toDevice'[j] = toDevice[j]
      /\ \A n \in 1 .. Len(toDevice'[i]) :
           n + 1 \in 1 .. Len(toDevice[i]) /\ toDevice'[i][n] = toDevice[i][n + 1]
  BY <1>0, Taken
<1>2. 1 \in 1 .. Len(toDevice[i])
  BY <1>1
<1>3. \/ Opened(served') = Opened(served)
      \/ p.cid = Broadcast /\ Opened(served') = Opened(served) \cup {x}
  <2>1. CASE p.cid = Broadcast
    <3>1. IsPiece(sent, p, Of(p.data))
      BY <1>1, <2>1 DEF IsCancel
    <3>2. served' = served \cup {x}
      BY <1>1, <2>1, <3>1, Opening
    <3>3. x.cmd = "init" /\ x.cid = Broadcast
      OBVIOUS
    <3> HIDE DEF x
    <3>4. QED
      BY <2>1, <3>2, <3>3 DEF Opened
  <2>2. CASE p.cid # Broadcast
    BY <1>1, <2>2, NotOpening
  <2>3. QED
    BY <2>1, <2>2
<1>4. x.data = p.data
  OBVIOUS
<1> HIDE DEF x
<1>5. \A r \in Opened(served') : r \in Opened(served) \/ (p.cid = Broadcast /\ Of(r.data) = Of(p.data))
  BY <1>3, <1>4
<1> DEFINE at(j, n) == IF j = i THEN n + 1 ELSE n
<1>6. \A j \in Interfaces : \A n \in 1 .. Len(toDevice'[j]) :
        at(j, n) \in 1 .. Len(toDevice[j]) /\ toDevice'[j][n] = toDevice[j][at(j, n)]
  BY <1>1
<1>7. \A j \in Interfaces : \A n \in Nat, l \in Nat : at(j, n) = at(j, l) => n = l
  OBVIOUS
<1>8. \A n \in Nat \ {0} : at(i, n) # 1
  OBVIOUS
<1>9. \A j \in Interfaces : \A n \in 1 .. Len(toDevice'[j]) : n \in Nat \ {0}
  OBVIOUS
<1> HIDE DEF at
<1>10. \A j, k \in Interfaces : \A n \in 1 .. Len(toDevice'[j]), l \in 1 .. Len(toDevice'[k]) :
       /\ toDevice'[j][n].cid = Broadcast /\ toDevice'[k][l].cid = Broadcast
       /\ Of(toDevice'[j][n].data) = Of(toDevice'[k][l].data)
       => j = k /\ n = l
  <2> SUFFICES ASSUME NEW j \in Interfaces, NEW k \in Interfaces,
                      NEW n \in 1 .. Len(toDevice'[j]), NEW l \in 1 .. Len(toDevice'[k]),
                      toDevice'[j][n].cid = Broadcast, toDevice'[k][l].cid = Broadcast,
                      Of(toDevice'[j][n].data) = Of(toDevice'[k][l].data)
               PROVE  j = k /\ n = l
    OBVIOUS
  <2>1. /\ at(j, n) \in 1 .. Len(toDevice[j]) /\ toDevice'[j][n] = toDevice[j][at(j, n)]
        /\ at(k, l) \in 1 .. Len(toDevice[k]) /\ toDevice'[k][l] = toDevice[k][at(k, l)]
    BY <1>6
  <2>2. j = k /\ at(j, n) = at(k, l)
    BY <2>1 DEF OpenInv
  <2>3. n \in Nat /\ l \in Nat
    BY <1>9
  <2>4. QED
    BY <1>7, <2>2, <2>3
<1>11. \A j \in Interfaces : \A n \in 1 .. Len(toDevice'[j]) :
       toDevice'[j][n].cid = Broadcast =>
         /\ \A r \in Opened(served') : Of(r.data) # Of(toDevice'[j][n].data)
         /\ \A a \in Apps : Opens(app[a]) => app[a].id # Of(toDevice'[j][n].data)
  <2> SUFFICES ASSUME NEW j \in Interfaces, NEW n \in 1 .. Len(toDevice'[j]),
                      toDevice'[j][n].cid = Broadcast
               PROVE  /\ \A r \in Opened(served') : Of(r.data) # Of(toDevice'[j][n].data)
                      /\ \A a \in Apps : Opens(app[a]) => app[a].id # Of(toDevice'[j][n].data)
    OBVIOUS
  <2>1. at(j, n) \in 1 .. Len(toDevice[j]) /\ toDevice'[j][n] = toDevice[j][at(j, n)]
    BY <1>6
  <2>2. /\ \A r \in Opened(served) : Of(r.data) # Of(toDevice'[j][n].data)
        /\ \A a \in Apps : Opens(app[a]) => app[a].id # Of(toDevice'[j][n].data)
    BY <2>1 DEF OpenInv
  <2>3. p.cid = Broadcast => Of(p.data) # Of(toDevice'[j][n].data)
    <3> SUFFICES ASSUME p.cid = Broadcast, Of(p.data) = Of(toDevice'[j][n].data) PROVE FALSE
      OBVIOUS
    <3>1. i = j /\ 1 = at(j, n)
      BY <1>1, <1>2, <2>1 DEF OpenInv
    <3>2. QED
      BY <1>8, <1>9, <3>1
  <2>4. QED
    BY <1>5, <2>2, <2>3
<1>12. \A a \in Apps : Opens(app[a]) => \A r \in Opened(served') : Of(r.data) # app[a].id
  <2>1. \A a \in Apps : Opens(app[a]) /\ p.cid = Broadcast => app[a].id # Of(p.data)
    BY <1>1, <1>2 DEF OpenInv
  <2>2. QED
    BY <1>5, <2>1 DEF OpenInv
<1>13. \A r \in Opened(served') : Of(r.data) \in 1 .. Len(sent)
  <2>1. p.cid = Broadcast => Of(p.data) \in 1 .. Len(sent)
    BY <1>1, <1>2, QueuedOpen
  <2>2. QED
    BY <1>5, <2>1 DEF OpenInv
<1>14. QED
  BY <1>10, <1>11, <1>12, <1>13 DEF OpenInv

LEMMA OpenFresh == Fresh => OpenInv
<1> SUFFICES ASSUME Fresh PROVE OpenInv
  OBVIOUS
<1>1. Opened(served) = {} /\ \A i \in Interfaces : Len(toDevice[i]) = 0
  BY DEF Fresh, Opened
<1>2. \A a \in Apps : ~ Opens(app[a])
  BY DEF Fresh, Closed, Opens
<1>3. QED
  BY <1>1, <1>2 DEF OpenInv

LEMMA OpenInductive == Types /\ WireInv /\ OpenInv /\ [SysNext]_sysVars => OpenInv'
<1> SUFFICES ASSUME Types, WireInv, OpenInv, [SysNext]_sysVars PROVE OpenInv'
  OBVIOUS
<1>0. ASSUME UNCHANGED <<served, toDevice, sent>>,
             \A a \in Apps : Opens(app'[a]) => Opens(app[a]) /\ app'[a].id = app[a].id
      PROVE  OpenInv'
  BY <1>0 DEF OpenInv
<1>1. CASE DeviceStep
  <2>1. UNCHANGED <<app, sent>>
    BY <1>1 DEF DeviceStep
  <2>2. PICK i \in Interfaces :
          Receive(i) \/ SendNext(i) \/ EndpointDone(i) \/ Keepalive(i) \/ FinishCbor(i)
    BY <1>1 DEF DeviceStep, Device
  <2>3. CASE Receive(i)
    BY <2>1, <2>3, OpenReceived
  <2>4. CASE UNCHANGED <<toDevice, served>>
    BY <1>0, <2>1, <2>4
  <2>5. QED
    BY <2>2, <2>3, <2>4, Zenon DEF SendNext, EndpointDone, Keepalive, FinishCbor
<1>2. ASSUME NEW a \in Apps, Open(a) \/ Request(a) \/ Resync(a) PROVE OpenInv'
  BY <1>2, OpenSubmitted
<1>3. ASSUME NEW a \in Apps, Cancel(a) PROVE OpenInv'
  <2>1. /\ UNCHANGED <<vars, sent>> /\ Head(app'[a].toWrite).cid # Broadcast
        /\ \A b \in Apps \ {a} : app'[b] = app[b]
    BY <1>3, Cancelled
  <2>2. \A b \in Apps : Opens(app'[b]) => Opens(app[b]) /\ app'[b].id = app[b].id
    BY <2>1 DEF Opens
  <2>3. QED
    BY <1>0, <2>1, <2>2 DEF vars
<1>4. ASSUME NEW a \in Apps, Write(a) PROVE OpenInv'
  BY <1>4, OpenWritten
<1>5. ASSUME NEW i \in Interfaces, Read(i) PROVE OpenInv'
  <2>1. UNCHANGED <<served, toDevice, sent>>
    BY <1>5, Reading
  <2>2. PICK p \in Packets :
          ReportOK(p) /\ \A a \in Apps : app'[a] = IF Home[a] = i THEN Hear(a, p) ELSE app[a]
    BY <1>5, Reading
  <2>3. ASSUME NEW a \in Apps
        PROVE  app'[a].id = app[a].id /\ app'[a].toWrite \in {app[a].toWrite, <<>>}
    <3> DEFINE y == Hear(a, p)
    <3>1. y = Hear(a, p) /\ (app'[a] = app[a] \/ app'[a] = y)
      BY <2>2
    <3> HIDE DEF y
    <3>2. y.id = app[a].id /\ y.toWrite \in {app[a].toWrite, <<>>}
      BY <2>2, <3>1, HearType DEF Types
    <3>3. QED
      BY <3>1, <3>2
  <2>4. \A a \in Apps : Opens(app'[a]) => Opens(app[a]) /\ app'[a].id = app[a].id
    BY <2>3 DEF Opens
  <2>5. QED
    BY <1>0, <2>1, <2>4
<1>6. CASE Umount
  BY <1>6, FreshStates, OpenFresh, PTL
<1>7. CASE UNCHANGED sysVars
  BY <1>0, <1>7 DEF sysVars, vars
<1>8. QED
  BY <1>1, <1>2, <1>3, <1>4, <1>5, <1>6, <1>7 DEF SysNext

LEMMA WrappedOpened == (Wrapped <=> Cardinality(Opened(served)) >= Broadcast)
                       /\ (Wrapped' <=> Cardinality(Opened(served')) >= Broadcast)
BY DEF Wrapped, Opened

\* The counter has not gone round before the channels are used up.
LEMMA OpeningCounts ==
  ASSUME Types, WireInv, OpenInv, CountInv, NEW i \in Interfaces, Receive(i),
         Head(toDevice[i]).cid = Broadcast, ~ Wrapped'
  PROVE  /\ ~ Wrapped /\ nextChannel \in 1 .. Broadcast - 1
         /\ Allocate(nextChannel).cid = nextChannel /\ nextChannel' = nextChannel + 1
         /\ nextChannel' = 1 + Cardinality(Opened(served'))
<1> DEFINE p == Head(toDevice[i])
           x == [cid |-> Broadcast, cmd |-> "init", data |-> p.data]
<1>0. p = Head(toDevice[i])
  OBVIOUS
<1> HIDE DEF p
<1>1. /\ p \in Packets /\ p = toDevice[i][1] /\ 1 \in 1 .. Len(toDevice[i])
      /\ IsPiece(sent, p, Of(p.data)) \/ IsCancel(p)
      /\ Handle(i, p)
  BY <1>0, Taken
<1>2. p.cid = Broadcast /\ IsPiece(sent, p, Of(p.data))
  BY <1>0, <1>1 DEF IsCancel
<1>3. /\ served' = served \cup {x} /\ nextChannel' = Allocate(nextChannel).counter
  BY <1>1, <1>2, Opening
<1>4. x.data = p.data /\ x.cmd = "init" /\ x.cid = Broadcast
  OBVIOUS
<1> HIDE DEF x
<1>5. Opened(served') = Opened(served) \cup {x}
  BY <1>3, <1>4 DEF Opened
<1>6. x \notin Opened(served)
  BY <1>1, <1>2, <1>4 DEF OpenInv
<1>7. IsFiniteSet(Opened(served))
  <2>1. IsFiniteSet(served) /\ Opened(served) \subseteq served
    BY DEF Types, RequestTypes, Opened
  <2>2. QED
    BY <2>1, FS_Subset
<1>8. /\ Cardinality(Opened(served')) = Cardinality(Opened(served)) + 1
      /\ Cardinality(Opened(served)) \in Nat
  BY <1>5, <1>6, <1>7, FS_AddElement, FS_CardinalityType
<1>9. ~ Wrapped /\ Cardinality(Opened(served)) + 1 < Broadcast
  BY <1>8, WrappedOpened, Sizes
<1>10. nextChannel = 1 + Cardinality(Opened(served)) /\ nextChannel \in 1 .. Broadcast - 1
  BY <1>8, <1>9, Sizes DEF CountInv
<1>11. Allocate(nextChannel).cid = nextChannel /\ Allocate(nextChannel).counter = nextChannel + 1
  BY <1>10, AllocateProperty DEF Types, RequestTypes
<1>12. QED
  BY <1>3, <1>8, <1>9, <1>10, <1>11

\* Until it is plugged in again, what the device has carried out is not forgotten.
LEMMA CountStep ==
  ASSUME Types, WireInv, OpenInv, CountInv, [SysNext]_sysVars, ~ Umount, ~ Wrapped'
  PROVE  /\ ~ Wrapped /\ CountInv'
         /\ \/ UNCHANGED nextChannel
            \/ \E i \in Interfaces : Receive(i) /\ Head(toDevice[i]).cid = Broadcast
<1>1. ASSUME Opened(served') = Opened(served), UNCHANGED nextChannel
      PROVE  /\ ~ Wrapped /\ CountInv' /\ UNCHANGED nextChannel
  BY <1>1, WrappedOpened DEF CountInv
<1>2. CASE UNCHANGED <<served, nextChannel>>
  BY <1>1, <1>2
<1>3. ASSUME NEW i \in Interfaces, Receive(i), Head(toDevice[i]).cid = Broadcast
      PROVE  ~ Wrapped /\ CountInv'
  BY <1>3, OpeningCounts DEF CountInv
<1>4. ASSUME NEW i \in Interfaces, Receive(i), Head(toDevice[i]).cid # Broadcast
      PROVE  /\ ~ Wrapped /\ CountInv' /\ UNCHANGED nextChannel
  <2> DEFINE p == Head(toDevice[i])
  <2>1. p = Head(toDevice[i])
    OBVIOUS
  <2> HIDE DEF p
  <2>2. p \in Packets /\ Handle(i, p) /\ p.cid # Broadcast
    BY <1>4, <2>1, Taken
  <2>3. QED
    BY <1>1, <2>2, NotOpening
<1>5. CASE DeviceStep
  <2>1. PICK i \in Interfaces :
          Receive(i) \/ SendNext(i) \/ EndpointDone(i) \/ Keepalive(i) \/ FinishCbor(i)
    BY <1>5 DEF DeviceStep, Device
  <2>2. CASE Receive(i)
    BY <1>3, <1>4, <2>2
  <2>3. QED
    BY <1>2, <2>1, <2>2, Zenon DEF SendNext, EndpointDone, Keepalive, FinishCbor
<1>6. ASSUME NEW a \in Apps, Open(a) \/ Request(a) \/ Resync(a) \/ Cancel(a) \/ Write(a)
      PROVE  UNCHANGED <<served, nextChannel>>
  BY <1>6, Zenon DEF Open, Request, Resync, Submit, Cancel, Write, vars
<1>7. ASSUME NEW i \in Interfaces, Read(i)
      PROVE  UNCHANGED <<served, nextChannel>>
  BY <1>7 DEF Read
<1>8. CASE UNCHANGED sysVars
  BY <1>2, <1>8 DEF sysVars, vars
<1>9. QED
  BY <1>2, <1>5, <1>6, <1>7, <1>8, Zenon DEF SysNext

Gives(p)      == p.cmd = "init" /\ p.cid = Broadcast
Channel(data) == data[NonceLength + 1].at

\* Who has, or is about to have, the channel c: a program, or the reply that gives it out.
Claim(k, x, c) ==
  \/ /\ k = "response" /\ x \in Interfaces
     /\ response[x].active /\ Gives(response[x]) /\ c = Channel(response[x].data)
  \/ /\ k = "report" /\ x \in Interfaces
     /\ toHost[x] # <<>> /\ Gives(Head(toHost[x])) /\ c = Channel(Head(toHost[x]).data)
  \/ k = "app" /\ x \in Apps /\ c = app[x].channel /\ c # 0

ClaimsOK ==
  /\ \A k, x, c : Claim(k, x, c) => c \in 1 .. nextChannel - 1
  /\ \A k, x, l, y, c : Claim(k, x, c) /\ Claim(l, y, c) => k = l /\ x = y

ClaimsInv == ~ Wrapped => ClaimsOK

LEMMA ClaimsKept ==
  ASSUME ClaimsOK, UNCHANGED nextChannel, \A k, x, c : Claim(k, x, c)' => Claim(k, x, c)
  PROVE  ClaimsOK'
BY Zenon DEF ClaimsOK

\* One claim passes to another holder.
Passes(k0, x0, k1, x1) ==
  \A k, x, c :
    Claim(k, x, c)' => \/ Claim(k, x, c) /\ ~ (k = k0 /\ x = x0)
                       \/ k = k1 /\ x = x1 /\ Claim(k0, x0, c)

LEMMA ClaimsMoved ==
  ASSUME ClaimsOK, UNCHANGED nextChannel, NEW k0, NEW x0, NEW k1, NEW x1, Passes(k0, x0, k1, x1)
  PROVE  ClaimsOK'
<1>1. \A k, x, c : Claim(k, x, c)' => c \in 1 .. nextChannel' - 1
  BY Zenon DEF ClaimsOK, Passes
<1>2. ASSUME NEW k, NEW x, NEW l, NEW y, NEW c, Claim(k, x, c)', Claim(l, y, c)'
      PROVE  k = l /\ x = y
  <2>1. \A u, v, w, z : Claim(u, v, c) /\ Claim(w, z, c) => u = w /\ v = z
    BY Zenon DEF ClaimsOK
  <2>2. \/ Claim(k, x, c) /\ ~ (k = k0 /\ x = x0)
        \/ k = k1 /\ x = x1 /\ Claim(k0, x0, c)
    BY <1>2 DEF Passes
  <2>3. \/ Claim(l, y, c) /\ ~ (l = k0 /\ y = x0)
        \/ l = k1 /\ y = x1 /\ Claim(k0, x0, c)
    BY <1>2 DEF Passes
  <2>4. QED
    BY <2>1, <2>2, <2>3
<1>3. QED
  BY <1>1, <1>2, Zenon DEF ClaimsOK

LEMMA ClaimsReceived ==
  ASSUME Types, WireInv, OpenInv, CountInv, ClaimsInv, NEW i \in Interfaces, Receive(i),
         UNCHANGED <<app, sent>>, ~ Wrapped, ~ Wrapped', UNCHANGED nextChannel \/ Head(toDevice[i]).cid = Broadcast
  PROVE  ClaimsOK'
<1> DEFINE p == Head(toDevice[i])
<1>0. p = Head(toDevice[i])
  OBVIOUS
<1> HIDE DEF p
<1>1. /\ p \in Packets /\ Handle(i, p) /\ UNCHANGED toHost
      /\ IsPiece(sent, p, Of(p.data)) \/ IsCancel(p)
  BY <1>0, Taken
<1>2. ClaimsOK
  BY DEF ClaimsInv
<1>3. CASE p.cid # Broadcast
  <2>1. /\ \A j \in Interfaces \ {i} : response'[j] = response[j]
        /\ response'[i] = response[i] \/ response'[i].cid = p.cid
        /\ UNCHANGED nextChannel
    BY <1>1, <1>3, NotOpening
  <2>2. ASSUME NEW k, NEW x, NEW c, Claim(k, x, c)' PROVE Claim(k, x, c)
    BY <1>1, <1>3, <2>1, <2>2 DEF Claim, Gives
  <2>3. QED
    BY <1>2, <2>1, <2>2, ClaimsKept
<1>4. CASE p.cid = Broadcast
  <2>1. IsPiece(sent, p, Of(p.data))
    BY <1>1, <1>4 DEF IsCancel
  <2>2. /\ \A j \in Interfaces \ {i} : response'[j] = response[j]
        /\ response'[i].data = Append(p.data, [of |-> 0, at |-> Allocate(nextChannel).cid])
        /\ Len(p.data) = NonceLength
    BY <1>1, <1>4, <2>1, Opening
  <2>3. /\ nextChannel \in 1 .. Broadcast - 1
        /\ Allocate(nextChannel).cid = nextChannel /\ nextChannel' = nextChannel + 1
    BY <1>0, <1>4, OpeningCounts
  <2>4. Channel(response'[i].data) = nextChannel
    <3> DEFINE u == [of |-> 0, at |-> nextChannel]
    <3>1. response'[i].data = Append(p.data, u) /\ u.at = nextChannel
      BY <2>2, <2>3
    <3>2. p.data \in Seq(Units)
      BY <1>1 DEF Packets, Data
    <3>3. u \in Units
      BY <2>3, UnitType, Sizes
    <3> HIDE DEF u
    <3>4. Append(p.data, u)[NonceLength + 1] = u
      BY <2>2, <3>2, <3>3, AppendProperties
    <3>5. QED
      BY <3>1, <3>4 DEF Channel
  <2>5. ASSUME NEW k, NEW x, NEW c, Claim(k, x, c)'
        PROVE  Claim(k, x, c) \/ (k = "response" /\ x = i /\ c = nextChannel)
    BY <1>1, <2>2, <2>4, <2>5 DEF Claim
  <2>6. \A k, x, c : Claim(k, x, c) => c \in 1 .. nextChannel - 1
    BY <1>2, Zenon DEF ClaimsOK
  <2>7. \A k, x, c : Claim(k, x, c)' => c \in 1 .. nextChannel' - 1
    BY <2>3, <2>5, <2>6
  <2>8. ASSUME NEW k, NEW x, NEW l, NEW y, NEW c, Claim(k, x, c)', Claim(l, y, c)'
        PROVE  k = l /\ x = y
    <3>1. Claim(k, x, c) /\ Claim(l, y, c) => k = l /\ x = y
      BY <1>2, Zenon DEF ClaimsOK
    <3>2. Claim(k, x, c) \/ Claim(l, y, c) => c # nextChannel
      BY <2>3, <2>6
    <3>3. /\ Claim(k, x, c) \/ (k = "response" /\ x = i /\ c = nextChannel)
          /\ Claim(l, y, c) \/ (l = "response" /\ y = i /\ c = nextChannel)
      BY <2>5, <2>8, Zenon
    <3>4. QED
      BY <3>1, <3>2, <3>3, Zenon
  <2>9. QED
    BY <2>7, <2>8, Zenon DEF ClaimsOK
<1>5. QED
  BY <1>3, <1>4

\* The reply that gives a channel out takes one report.
LEMMA ClaimsSent ==
  ASSUME Types, ClaimsOK, NEW i \in Interfaces, SendNext(i), UNCHANGED app
  PROVE  ClaimsOK'
<1> DEFINE r == response[i]
           p == NextPacket(r)
           d == NextData(r)
<1>1. r \in Replies /\ ReplyOK(r) /\ r.active
  BY Sending DEF Types, ReplyTypes
<1>2. p = NextPacket(r) /\ d = NextData(r)
  OBVIOUS
<1>3. /\ Report(i, p) /\ UNCHANGED nextChannel
      /\ response' = [response EXCEPT ![i] =
           IF Len(r.data) - r.sent - Len(d) = 0 THEN NoReply ELSE NextReply(r)]
  BY Sending
<1> HIDE DEF p, d
<1>4. /\ p.data = d /\ p.cid = r.cid
      /\ r.sent = 0 => p.cmd = r.cmd
      /\ r.sent # 0 => p.cmd = "none"
  BY <1>1, <1>2, NextPacketType
<1>5. /\ toHost'[i] = <<p>> /\ Head(toHost'[i]) = p /\ toHost'[i] # <<>>
      /\ \A j \in Interfaces \ {i} : toHost'[j] = toHost[j]
  <2>1. toHost' = [toHost EXCEPT ![i] = <<p>>]
    BY <1>3 DEF Report
  <2>2. QED
    BY <2>1 DEF Types, WireTypes
<1>6. /\ response'[i] = IF Len(r.data) - r.sent - Len(d) = 0 THEN NoReply ELSE NextReply(r)
      /\ \A j \in Interfaces \ {i} : response'[j] = response[j]
  BY <1>3 DEF Types, ReplyTypes
<1>7. CASE Gives(r)
  <2>1. r.sent = 0 /\ Len(r.data) = NonceLength + 1
    BY <1>1, <1>7 DEF Gives, ReplyOK, IsHandshake
  <2>2. d = r.data
    <3>1. Min({Len(r.data), r.sent + InitPayload}) = Len(r.data)
      BY <2>1, Sizes, MinTwo
    <3>2. r.data \in Data /\ SubSeq(r.data, 1, Len(r.data)) = r.data
      BY <1>1 DEF Replies, Data
    <3>3. r.sent + 1 = 1
      BY <2>1
    <3>4. QED
      BY <1>2, <2>1, <3>1, <3>2, <3>3 DEF NextData
  <2>3. Len(r.data) - r.sent - Len(d) = 0
    BY <2>1, <2>2, Sizes
  <2>4. response'[i] = NoReply /\ ~ response'[i].active
    BY <1>6, <2>3 DEF NoReply
  <2>5. \A c : (Gives(p) /\ c = Channel(p.data)) => Claim("response", i, c)
    BY <1>1, <1>4, <1>7, <2>2 DEF Claim
  <2>6. ASSUME NEW k, NEW x, NEW c, Claim(k, x, c)'
        PROVE  \/ Claim(k, x, c) /\ ~ (k = "response" /\ x = i)
               \/ k = "report" /\ x = i /\ Claim("response", i, c)
    <3>1. CASE /\ k = "response" /\ x \in Interfaces
               /\ response'[x].active /\ Gives(response'[x]) /\ c = Channel(response'[x].data)
      BY <1>6, <2>4, <3>1 DEF Claim
    <3>2. CASE /\ k = "report" /\ x \in Interfaces
               /\ toHost'[x] # <<>> /\ Gives(Head(toHost'[x])) /\ c = Channel(Head(toHost'[x]).data)
      <4>1. CASE x = i
        BY <1>5, <2>5, <3>2, <4>1
      <4>2. CASE x # i
        BY <1>5, <3>2, <4>2 DEF Claim
      <4>3. QED
        BY <4>1, <4>2
    <3>3. CASE k = "app" /\ x \in Apps /\ c = app'[x].channel /\ c # 0
      BY <3>3 DEF Claim
    <3>4. QED
      BY <2>6, <3>1, <3>2, <3>3, Zenon DEF Claim
  <2>7. Passes("response", i, "report", i)
    BY <2>6, Zenon DEF Passes
  <2>8. QED
    BY <1>3, <2>7, ClaimsMoved
<1>8. CASE ~ Gives(r)
  <2>1. ~ Gives(p)
    BY <1>4, <1>8 DEF Gives
  <2>2. response'[i].active => ~ Gives(response'[i])
    <3>1. CASE response'[i] = NoReply
      BY <3>1 DEF NoReply
    <3>2. CASE response'[i] = NextReply(r)
      <4>1. NextReply(r).cid = r.cid /\ NextReply(r).cmd = r.cmd
        BY <1>1 DEF NextReply, Replies
      <4>2. QED
        BY <1>8, <3>2, <4>1 DEF Gives
    <3>3. QED
      BY <1>6, <3>1, <3>2
  <2>3. ASSUME NEW k, NEW x, NEW c, Claim(k, x, c)' PROVE Claim(k, x, c)
    <3>1. CASE /\ k = "response" /\ x \in Interfaces
               /\ response'[x].active /\ Gives(response'[x]) /\ c = Channel(response'[x].data)
      BY <1>6, <2>2, <3>1 DEF Claim
    <3>2. CASE /\ k = "report" /\ x \in Interfaces
               /\ toHost'[x] # <<>> /\ Gives(Head(toHost'[x])) /\ c = Channel(Head(toHost'[x]).data)
      BY <1>5, <2>1, <3>2 DEF Claim
    <3>3. CASE k = "app" /\ x \in Apps /\ c = app'[x].channel /\ c # 0
      BY <3>3 DEF Claim
    <3>4. QED
      BY <2>3, <3>1, <3>2, <3>3, Zenon DEF Claim
  <2>4. QED
    BY <1>3, <2>3, ClaimsKept
<1>9. QED
  BY <1>7, <1>8

\* It is taken by the one program that asked for it.
LEMMA ClaimsRead ==
  ASSUME Types, WireInv, ClaimsOK, NEW i \in Interfaces, Read(i)
  PROVE  ClaimsOK'
<1>1. PICK p \in Packets :
              /\ ReportOK(p) /\ toHost[i] = <<p>> /\ toHost' = [toHost EXCEPT ![i] = <<>>]
              /\ \A a \in Apps : app'[a] = IF Home[a] = i THEN Hear(a, p) ELSE app[a]
              /\ UNCHANGED <<response, nextChannel>>
  BY Reading, Zenon
<1>2. /\ toHost'[i] = <<>> /\ \A j \in Interfaces \ {i} : toHost'[j] = toHost[j]
      /\ toHost[i] # <<>> /\ Head(toHost[i]) = p
  BY <1>1 DEF Types, WireTypes
<1>3. ASSUME NEW a \in Apps
      PROVE  \/ app'[a].channel = app[a].channel
             \/ /\ Gives(p) /\ app[a].id # 0 /\ p.data[1].of = app[a].id
                /\ app'[a].channel = Channel(p.data)
  <2> DEFINE y == Hear(a, p)
  <2>1. y = Hear(a, p) /\ (app'[a] = app[a] \/ app'[a] = y)
    BY <1>1
  <2> HIDE DEF y
  <2>2. \/ y.channel = app[a].channel
        \/ /\ p.cmd = "init" /\ p.cid = Broadcast /\ app[a].channel = 0 /\ app[a].id # 0
           /\ p.data[1].of = app[a].id /\ y.channel = p.data[NonceLength + 1].at
    BY <1>1, <2>1, HearType DEF Types
  <2>3. QED
    BY <2>1, <2>2 DEF Gives, Channel
<1> DEFINE Given(a) == app'[a].channel # app[a].channel
<1>4. \A a, b \in Apps : Given(a) /\ Given(b) => a = b
  BY <1>3 DEF WireInv
<1>5. ASSUME NEW k, NEW x, NEW c, Claim(k, x, c)'
      PROVE  \/ Claim(k, x, c) /\ ~ (k = "report" /\ x = i)
             \/ k = "app" /\ x \in Apps /\ Given(x) /\ Claim("report", i, c)
  <2>1. CASE /\ k = "response" /\ x \in Interfaces
             /\ response'[x].active /\ Gives(response'[x]) /\ c = Channel(response'[x].data)
    BY <1>1, <2>1 DEF Claim
  <2>2. CASE /\ k = "report" /\ x \in Interfaces
             /\ toHost'[x] # <<>> /\ Gives(Head(toHost'[x])) /\ c = Channel(Head(toHost'[x]).data)
    BY <1>2, <2>2 DEF Claim
  <2>3. CASE k = "app" /\ x \in Apps /\ c = app'[x].channel /\ c # 0
    <3>1. CASE app'[x].channel = app[x].channel
      BY <2>3, <3>1 DEF Claim
    <3>2. CASE Given(x)
      BY <1>2, <1>3, <2>3, <3>2 DEF Claim
    <3>3. QED
      BY <3>1, <3>2
  <2>4. QED
    BY <1>5, <2>1, <2>2, <2>3, Zenon DEF Claim
<1> HIDE DEF Given
<1>6. CASE \E a \in Apps : Given(a)
  <2>1. PICK a \in Apps : Given(a)
    BY <1>6
  <2>2. \A k, x, c : Claim(k, x, c)' =>
             \/ Claim(k, x, c) /\ ~ (k = "report" /\ x = i)
             \/ k = "app" /\ x = a /\ Claim("report", i, c)
    BY <1>4, <1>5, <2>1, Zenon
  <2>3. Passes("report", i, "app", a)
    BY <2>2, Zenon DEF Passes
  <2>4. QED
    BY <1>1, <2>3, ClaimsMoved
<1>7. CASE ~ \E a \in Apps : Given(a)
  <2>1. \A k, x, c : Claim(k, x, c)' => Claim(k, x, c)
    BY <1>5, <1>7, Zenon
  <2>2. QED
    BY <1>1, <2>1, ClaimsKept
<1>8. QED
  BY <1>6, <1>7

LEMMA ClaimsStep ==
  ASSUME Types, WireInv, OpenInv, CountInv, ClaimsInv, [SysNext]_sysVars, ~ Umount, ~ Wrapped'
  PROVE  ClaimsOK'
<1>1. ~ Wrapped /\ ClaimsOK
  BY CountStep DEF ClaimsInv
<1>2. ASSUME UNCHANGED <<response, toHost, nextChannel>>,
             \A a \in Apps : app'[a].channel = app[a].channel
      PROVE  ClaimsOK'
  <2>1. \A k, x, c : Claim(k, x, c)' => Claim(k, x, c)
    BY <1>2 DEF Claim
  <2>2. QED
    BY <1>1, <1>2, <2>1, ClaimsKept
<1>3. CASE DeviceStep
  <2>1. UNCHANGED <<app, sent>>
    BY <1>3 DEF DeviceStep
  <2>2. PICK i \in Interfaces :
          Receive(i) \/ SendNext(i) \/ EndpointDone(i) \/ Keepalive(i) \/ FinishCbor(i)
    BY <1>3 DEF DeviceStep, Device
  <2>3. CASE Receive(i)
    <3> DEFINE p == Head(toDevice[i])
    <3>1. p = Head(toDevice[i])
      OBVIOUS
    <3> HIDE DEF p
    <3>2. UNCHANGED nextChannel \/ p.cid = Broadcast
      BY <2>3, <3>1, Taken, NotOpening
    <3>3. QED
      BY <1>1, <2>1, <2>3, <3>1, <3>2, ClaimsReceived
  <2>4. CASE SendNext(i)
    BY <1>1, <2>1, <2>4, ClaimsSent
  <2>5. CASE EndpointDone(i)
    BY <1>2, <2>1, <2>5 DEF EndpointDone
  <2>6. CASE Keepalive(i)
    <3> DEFINE d == <<[of |-> 0, at |-> 2]>>
               p == Packet(request[i].cid, TRUE, "keepalive", 1, 0, d)
    <3>1. Report(i, p) /\ UNCHANGED <<request, response, nextChannel, serving, toDevice, served>>
      BY <2>6 DEF Keepalive
    <3>2. p.cmd = "keepalive"
      BY DEF Packet
    <3> HIDE DEF p
    <3>3. /\ toHost'[i] = <<p>> /\ Head(toHost'[i]) = p
          /\ \A j \in Interfaces \ {i} : toHost'[j] = toHost[j]
      <4>1. toHost' = [toHost EXCEPT ![i] = <<p>>]
        BY <3>1 DEF Report
      <4>2. QED
        BY <4>1 DEF Types, WireTypes
    <3>4. ~ Gives(Head(toHost'[i]))
      BY <3>2, <3>3 DEF Gives
    <3>5. ASSUME NEW k, NEW x, NEW c, Claim(k, x, c)' PROVE Claim(k, x, c)
      BY <2>1, <3>1, <3>3, <3>4, <3>5 DEF Claim
    <3>6. QED
      BY <1>1, <3>1, <3>5, ClaimsKept
  <2>7. CASE FinishCbor(i)
    <3>1. PICK n \in AnswerLengths : Reply(i, request[i].cid, "cbor", Answer(request[i], n))
      BY <2>7 DEF FinishCbor
    <3>2. UNCHANGED <<nextChannel, toHost>>
      BY <2>7 DEF FinishCbor
    <3> DEFINE r == [active |-> TRUE, cid |-> request[i].cid, cmd |-> "cbor", seq |-> 0, sent |-> 0,
                     data |-> Prefix(Answer(request[i], n), MaxMessage)]
    <3>3. response' = [response EXCEPT ![i] = r] /\ r.cmd = "cbor"
      BY <3>1 DEF Reply
    <3> HIDE DEF r
    <3>4. response'[i] = r /\ \A j \in Interfaces \ {i} : response'[j] = response[j]
      BY <3>3 DEF Types, ReplyTypes
    <3>5. ASSUME NEW k, NEW x, NEW c, Claim(k, x, c)' PROVE Claim(k, x, c)
      BY <2>1, <3>2, <3>3, <3>4, <3>5 DEF Claim, Gives
    <3>6. QED
      BY <1>1, <3>2, <3>5, ClaimsKept
  <2>8. QED
    BY <2>2, <2>3, <2>4, <2>5, <2>6, <2>7
<1>4. ASSUME NEW a \in Apps, Open(a) \/ Request(a) \/ Resync(a) PROVE ClaimsOK'
  <2>1. /\ UNCHANGED vars /\ app'[a].channel = app[a].channel
        /\ \A b \in Apps \ {a} : app'[b] = app[b]
    BY <1>4, Submitted
  <2>2. QED
    BY <1>2, <2>1 DEF vars
<1>5. ASSUME NEW a \in Apps, Cancel(a) PROVE ClaimsOK'
  <2>1. /\ UNCHANGED vars /\ app'[a].channel = app[a].channel
        /\ \A b \in Apps \ {a} : app'[b] = app[b]
    BY <1>5, Cancelled
  <2>2. QED
    BY <1>2, <2>1 DEF vars
<1>6. ASSUME NEW a \in Apps, Write(a) PROVE ClaimsOK'
  <2>1. /\ UNCHANGED <<response, toHost, nextChannel>> /\ \A b \in Apps \ {a} : app'[b] = app[b]
    BY <1>6, Writing
  <2>2. app'[a].channel = app[a].channel
    BY <1>6, Written
  <2>3. QED
    BY <1>2, <2>1, <2>2
<1>7. ASSUME NEW i \in Interfaces, Read(i) PROVE ClaimsOK'
  BY <1>1, <1>7, ClaimsRead
<1>8. CASE UNCHANGED sysVars
  BY <1>2, <1>8 DEF sysVars, vars
<1>9. QED
  BY <1>3, <1>4, <1>5, <1>6, <1>7, <1>8 DEF SysNext

ChannelInv == Types /\ WireInv /\ OpenInv /\ CountInv /\ ClaimsInv

LEMMA FreshChannels == Fresh => ChannelInv
<1> SUFFICES ASSUME Fresh PROVE ChannelInv
  OBVIOUS
<1>1. Types /\ WireInv /\ OpenInv
  BY FreshTyped, FreshWires, OpenFresh
<1>2. CountInv
  <2>1. Opened(served) = {}
    BY DEF Fresh, Opened
  <2>2. Cardinality(Opened(served)) = 0 /\ nextChannel = 1
    BY <2>1, FS_EmptySet DEF Fresh
  <2>3. QED
    BY <2>2 DEF CountInv
<1>3. \A k, x, c : ~ Claim(k, x, c)
  <2>1. \A i \in Interfaces : ~ response[i].active /\ toHost[i] = <<>>
    BY DEF Fresh, NoReply
  <2>2. \A a \in Apps : app[a].channel = 0
    BY DEF Fresh, Closed
  <2>3. QED
    BY <2>1, <2>2 DEF Claim
<1>4. ClaimsInv
  BY <1>3 DEF ClaimsInv, ClaimsOK
<1>5. QED
  BY <1>1, <1>2, <1>4 DEF ChannelInv

LEMMA ChannelsInductive == ChannelInv /\ [SysNext]_sysVars => ChannelInv'
<1> SUFFICES ASSUME ChannelInv, [SysNext]_sysVars PROVE ChannelInv'
  OBVIOUS
<1>1. CASE Umount
  BY <1>1, FreshStates, FreshChannels, PTL
<1>2. CASE ~ Umount
  <2>1. Types' /\ WireInv' /\ OpenInv'
    BY TypesInductive, WiresInductive, OpenInductive DEF ChannelInv
  <2>2. CountInv'
    <3>1. CASE Wrapped'
      BY <3>1 DEF CountInv
    <3>2. CASE ~ Wrapped'
      BY <1>2, <3>2, CountStep DEF ChannelInv
    <3>3. QED
      BY <3>1, <3>2
  <2>3. ClaimsInv'
    <3>1. CASE Wrapped'
      BY <3>1 DEF ClaimsInv
    <3>2. CASE ~ Wrapped'
      <4>1. ClaimsOK'
        BY <1>2, <3>2, ClaimsStep DEF ChannelInv
      <4>2. QED
        BY <4>1 DEF ClaimsInv
    <3>3. QED
      BY <3>1, <3>2
  <2>4. QED
    BY <2>1, <2>2, <2>3 DEF ChannelInv
<1>3. QED
  BY <1>1, <1>2

LEMMA DistinctChannels ==
  ASSUME ChannelInv, ~ Wrapped, NEW a \in Apps, NEW b \in Apps,
         app[a].channel = app[b].channel, app[a].channel # 0
  PROVE  a = b
<1>1. Claim("app", a, app[a].channel) /\ Claim("app", b, app[a].channel)
  BY DEF Claim
<1>2. ClaimsOK
  BY DEF ChannelInv, ClaimsInv
<1>3. QED
  BY <1>1, <1>2, Zenon DEF ClaimsOK

\* No program has a reserved channel, and no two programs share one until the counter has
\* gone round: however INITs, their replies and the abandoned ones are interleaved, on
\* however many interfaces.
THEOREM ChannelsCorrect == SysSpec => []ChannelsDistinct
<1>1. SysInit => ChannelInv
  BY FreshStates, FreshChannels
<1>2. ChannelInv => ChannelsDistinct
  <2> SUFFICES ASSUME ChannelInv, NEW a \in Apps, NEW b \in Apps, app[a].channel # 0
               PROVE  /\ app[a].channel # Broadcast
                      /\ ~ Wrapped /\ a # b => app[a].channel # app[b].channel
    BY DEF ChannelsDistinct
  <2>1. app[a].channel # Broadcast
    BY Sizes DEF ChannelInv, Types, ProgramTypes, Programs
  <2>2. QED
    BY <2>1, DistinctChannels
<1>3. QED
  BY <1>1, <1>2, ChannelsInductive, PTL DEF SysSpec

--------------------------------------------------------------------------------
(* Requests                                                                  *)

\* A request is the beginning of one of the messages sent.
Gathered(s, r) ==
  LET m == Of(r.data)
  IN  /\ m \in 1 .. Len(s)
      /\ r.cid = s[m].cid /\ r.cmd = s[m].cmd /\ r.len = Len(s[m].data)
      /\ r.data = Prefix(s[m].data, Offset(r.seq + 1))

\* Of the n packets before the continuation p, and the request r before them, the last
\* one on its channel is of the same message.
Follows(q, n, r, p) ==
  /\ \A l \in 1 .. n :
       q[l].cid = p.cid /\ (\A j \in l + 1 .. n : q[j].cid # p.cid) =>
         q[l].cmd # "cancel" /\ Of(q[l].data) = Of(p.data)
  /\ (\A l \in 1 .. n : q[l].cid # p.cid) /\ r.active /\ r.cid = p.cid => Of(r.data) = Of(p.data)

Whole(s, x) == x.cmd # "cancel" => \E k \in 1 .. Len(s) : s[k] = x

QueueFollows(q, r) == \A n \in 1 .. Len(q) : ~ q[n].init => Follows(q, n - 1, r, q[n])

NextFollows(q, r, w) == w # <<>> /\ ~ Head(w).init => Follows(q, Len(q), r, Head(w))

StreamOK ==
  /\ \A i \in Interfaces : request[i].active => Gathered(sent, request[i])
  /\ \A i \in Interfaces : QueueFollows(toDevice[i], request[i])
  /\ \A a \in Apps : NextFollows(toDevice[Home[a]], request[Home[a]], app[a].toWrite)
  /\ \A x \in served : Whole(sent, x)

StreamInv == ~ Wrapped => StreamOK

\* What a packet may make of a request.
Moves(r, p, r2) ==
  \/ ~ r2.active
  \/ r2 = r /\ r.cid # p.cid
  \/ r2.cid = p.cid /\ p.cmd # "cancel" /\ Of(r2.data) = Of(p.data)

\* The first packet has been taken.
LEMMA FollowsTail ==
  ASSUME NEW q, NEW n \in Nat \ {0}, NEW r, NEW p, Follows(q, n, r, p),
         NEW t, \A k \in 1 .. n - 1 : t[k] = q[k + 1], NEW r2, Moves(r, q[1], r2)
  PROVE  Follows(t, n - 1, r2, p)
<1>1. ASSUME NEW l \in 1 .. n - 1, t[l].cid = p.cid, \A j \in l + 1 .. n - 1 : t[j].cid # p.cid
      PROVE  t[l].cmd # "cancel" /\ Of(t[l].data) = Of(p.data)
  <2>1. l + 1 \in 1 .. n /\ t[l] = q[l + 1]
    BY <1>1
  <2>2. ASSUME NEW j \in (l + 1) + 1 .. n PROVE q[j].cid # p.cid
    <3>1. j - 1 \in l + 1 .. n - 1 /\ j - 1 \in 1 .. n - 1 /\ (j - 1) + 1 = j
      OBVIOUS
    <3>2. QED
      BY <1>1, <3>1
  <2>3. QED
    BY <1>1, <2>1, <2>2 DEF Follows
<1>2. ASSUME \A l \in 1 .. n - 1 : t[l].cid # p.cid, r2.active, r2.cid = p.cid
      PROVE  Of(r2.data) = Of(p.data)
  <2>1. ASSUME NEW l \in 2 .. n PROVE q[l].cid # p.cid
    <3>1. l - 1 \in 1 .. n - 1 /\ (l - 1) + 1 = l
      OBVIOUS
    <3>2. QED
      BY <1>2, <3>1
  <2>2. CASE q[1].cid = p.cid
    <3>1. 1 \in 1 .. n /\ \A j \in 1 + 1 .. n : j \in 2 .. n
      OBVIOUS
    <3>2. q[1].cmd # "cancel" /\ Of(q[1].data) = Of(p.data)
      BY <2>1, <2>2, <3>1 DEF Follows
    <3>3. QED
      BY <1>2, <2>2, <3>2 DEF Moves
  <2>3. CASE q[1].cid # p.cid
    <3>1. \A l \in 1 .. n : l = 1 \/ l \in 2 .. n
      OBVIOUS
    <3>2. \A l \in 1 .. n : q[l].cid # p.cid
      BY <2>1, <2>3, <3>1
    <3>3. r2 = r
      BY <1>2, <2>3 DEF Moves
    <3>4. QED
      BY <1>2, <3>2, <3>3 DEF Follows
  <2>4. QED
    BY <2>2, <2>3
<1>3. QED
  BY <1>1, <1>2, Zenon DEF Follows

\* A packet has been added.
LEMMA FollowsAppend ==
  ASSUME NEW q, NEW n \in Nat, NEW r, NEW p, Follows(q, n, r, p),
         NEW t, \A k \in 1 .. n : t[k] = q[k]
  PROVE  Follows(t, n, r, p) /\ (t[n + 1].cid # p.cid => Follows(t, n + 1, r, p))
<1>1. Follows(t, n, r, p)
  <2>1. \A l \in 1 .. n : \A j \in l + 1 .. n : j \in 1 .. n
    OBVIOUS
  <2>2. QED
    BY <2>1, Zenon DEF Follows
<1>2. ASSUME t[n + 1].cid # p.cid PROVE Follows(t, n + 1, r, p)
  <2>1. ASSUME NEW l \in 1 .. n + 1, t[l].cid = p.cid, \A j \in l + 1 .. n + 1 : t[j].cid # p.cid
        PROVE  t[l].cmd # "cancel" /\ Of(t[l].data) = Of(p.data)
    <3>1. l \in 1 .. n /\ \A j \in l + 1 .. n : j \in l + 1 .. n + 1
      BY <1>2, <2>1
    <3>2. QED
      BY <1>1, <2>1, <3>1, Zenon DEF Follows
  <2>2. (\A l \in 1 .. n + 1 : t[l].cid # p.cid) => \A l \in 1 .. n : t[l].cid # p.cid
    OBVIOUS
  <2>3. QED
    BY <1>1, <2>1, <2>2, Zenon DEF Follows
<1>3. QED
  BY <1>1, <1>2, Zenon

\* The packet added is the one before p of its message.
LEMMA FollowsLast ==
  ASSUME NEW t, NEW n \in Nat, NEW r, NEW p,
         t[n + 1].cid = p.cid, t[n + 1].cmd # "cancel", Of(t[n + 1].data) = Of(p.data)
  PROVE  Follows(t, n + 1, r, p)
<1>1. ASSUME NEW l \in 1 .. n + 1, t[l].cid = p.cid, \A j \in l + 1 .. n + 1 : t[j].cid # p.cid
      PROVE  t[l].cmd # "cancel" /\ Of(t[l].data) = Of(p.data)
  <2>1. l = n + 1 \/ n + 1 \in l + 1 .. n + 1
    OBVIOUS
  <2>2. QED
    BY <1>1, <2>1
<1>2. ~ \A l \in 1 .. n + 1 : t[l].cid # p.cid
  OBVIOUS
<1>3. QED
  BY <1>1, <1>2, Zenon DEF Follows

LEMMA FollowsIdle ==
  ASSUME NEW r2, ~ r2.active
  PROVE  \A q, n, r, p : Follows(q, n, r, p) => Follows(q, n, r2, p)
BY Zenon DEF Follows

LEMMA PrefixWhole ==
  ASSUME NEW s \in Data, NEW n \in Nat, Len(s) <= n
  PROVE  Prefix(s, n) = s
<1>1. Prefix(s, n) \in Seq(Units) /\ s \in Seq(Units) /\ Len(s) \in Nat
  BY PrefixProperty DEF Data
<1>2. Len(Prefix(s, n)) = Len(s) /\ \A k \in 1 .. Len(s) : Prefix(s, n)[k] = s[k]
  <2>1. /\ Len(Prefix(s, n)) = IF n <= Len(s) THEN n ELSE Len(s)
        /\ \A k \in 1 .. Len(Prefix(s, n)) : Prefix(s, n)[k] = s[k]
    BY <1>1, PrefixProperty
  <2>2. Len(Prefix(s, n)) = Len(s)
    BY <1>1, <2>1
  <2>3. QED
    BY <2>1, <2>2
<1>3. QED
  BY <1>1, <1>2, SeqEqual

LEMMA Joined ==
  ASSUME NEW u \in Data, NEW v \in Data, NEW w \in Data, Len(w) = Len(u) + Len(v),
         \A k \in 1 .. Len(u) : w[k] = u[k], \A k \in 1 .. Len(v) : w[Len(u) + k] = v[k]
  PROVE  u \o v = w
<1> DEFINE x == u \o v
<1>1. x = u \o v
  OBVIOUS
<1> HIDE DEF x
<1>2. u \in Seq(Units) /\ v \in Seq(Units) /\ w \in Seq(Units) /\ Len(u) \in Nat /\ Len(v) \in Nat
  BY DEF Data
<1>3. /\ x \in Seq(Units) /\ Len(x) = Len(u) + Len(v)
      /\ \A i \in 1 .. Len(u) + Len(v) : x[i] = IF i <= Len(u) THEN u[i] ELSE v[i - Len(u)]
  BY <1>1, <1>2, ConcatProperties
<1>4. ASSUME NEW i \in 1 .. Len(x) PROVE x[i] = w[i]
  <2>1. i \in 1 .. Len(u) + Len(v)
    BY <1>3
  <2>2. CASE i <= Len(u)
    <3>1. i \in 1 .. Len(u)
      BY <1>2, <2>1, <2>2
    <3>2. QED
      BY <1>3, <2>1, <2>2, <3>1
  <2>3. CASE ~ (i <= Len(u))
    <3>1. i - Len(u) \in 1 .. Len(v) /\ Len(u) + (i - Len(u)) = i
      BY <1>2, <2>1, <2>3
    <3>2. w[i] = v[i - Len(u)]
      BY <3>1
    <3>3. QED
      BY <1>3, <2>1, <2>3, <3>2
  <2>4. QED
    BY <2>2, <2>3
<1>5. x = w
  BY <1>2, <1>3, <1>4, SeqEqual
<1>6. QED
  BY <1>1, <1>5

LEMMA PartProperty ==
  ASSUME NEW d \in Data, NEW k \in Nat \ {0}, Offset(k) < Len(d),
         NEW a, a = Offset(k), NEW b, b = Offset(k + 1), NEW x, x = Part(d, k)
  PROVE  /\ x \in Data
         /\ Len(x) = (IF b <= Len(d) THEN b ELSE Len(d)) - a
         /\ \A j \in 1 .. Len(x) : x[j] = d[a + j]
<1> DEFINE e == IF b <= Len(d) THEN b ELSE Len(d)
           l == Len(d)
           f == a + 1
<1>1. a \in Nat /\ b \in Nat /\ a < b /\ l \in Nat /\ a < l
  BY OffsetProperty DEF Data
<1>2. e \in f .. l /\ e \in Nat /\ f \in Nat /\ e - f + 1 = e - a /\ f <= e /\ \A j \in 1 .. e - a : f + j - 1 = a + j
  BY <1>1
<1>3. e = IF l <= b THEN l ELSE b
  BY <1>1
<1>4. \A j \in f .. e : d[j] \in Units
  BY <1>1, <1>2 DEF Data
<1>5. x = SubSeq(d, f, Min({l, b}))
  BY DEF Part
<1>6. f = a + 1 /\ l = Len(d)
  OBVIOUS
<1> HIDE DEF e, l, f
<1>7. Min({l, b}) = e
  BY <1>1, <1>3, MinTwo
<1>8. x = SubSeq(d, f, e)
  BY <1>5, <1>7
<1>9. /\ x \in Seq(Units) /\ Len(x) = e - f + 1
      /\ \A j \in 1 .. e - f + 1 : x[j] = d[f + j - 1]
  BY <1>2, <1>4, <1>8, SubSeqProperties
<1>10. x \in Data
  BY <1>9 DEF Data
<1>11. Len(x) = e - a /\ \A j \in 1 .. Len(x) : x[j] = d[a + j]
  BY <1>2, <1>9
<1>12. QED
  BY <1>10, <1>11 DEF e

LEMMA GainedJoins ==
  ASSUME NEW r, NEW p, NEW d \in Data, NEW k \in Nat \ {0}, Offset(k) < Len(d),
         r.data = Prefix(d, Offset(k)), r.len = Len(d), p.data = Part(d, k)
  PROVE  Gained(r, p) = Prefix(d, Offset(k + 1))
<1> DEFINE a == Offset(k)
           b == Offset(k + 1)
           u == r.data
           v == p.data
           w == Prefix(d, b)
           l == Len(d)
           left == l - a
           n == Min({left, ContPayload})
<1>1. /\ a \in Nat /\ b \in Nat /\ a < b /\ b = a + ContPayload /\ l \in Nat /\ a < l
      /\ ContPayload \in Nat \ {0} /\ left = l - a /\ left \in Nat
      /\ d \in Seq(Units)
  <2>1. a \in Nat /\ b \in Nat /\ a < b
    BY OffsetProperty
  <2>2. b = a + ContPayload
    BY OffsetProperty
  <2>3. l \in Nat /\ a < l /\ ContPayload \in Nat \ {0} /\ d \in Seq(Units)
    BY Sizes DEF Data
  <2>4. left = l - a
    OBVIOUS
  <2> HIDE DEF a, b, l, left
  <2>5. left \in Nat
    BY <2>1, <2>3, <2>4
  <2>6. QED
    BY <2>1, <2>2, <2>3, <2>4, <2>5
<1>2. u \in Data /\ Len(u) = a /\ \A j \in 1 .. a : u[j] = d[j]
  <2>1. u = Prefix(d, a)
    OBVIOUS
  <2> HIDE DEF u, a
  <2>2. /\ u \in Seq(Units) /\ Len(u) = (IF a <= Len(d) THEN a ELSE Len(d))
        /\ \A j \in 1 .. Len(u) : u[j] = d[j]
    BY <1>1, <2>1, PrefixProperty
  <2>3. Len(u) = a
    BY <1>1, <2>2 DEF l
  <2>4. QED
    BY <2>2, <2>3 DEF Data
<1>3. w \in Data /\ Len(w) = (IF b <= l THEN b ELSE l) /\ \A j \in 1 .. Len(w) : w[j] = d[j]
  <2>1. w = Prefix(d, b)
    OBVIOUS
  <2> HIDE DEF w, b
  <2>2. /\ w \in Seq(Units) /\ Len(w) = (IF b <= Len(d) THEN b ELSE Len(d))
        /\ \A j \in 1 .. Len(w) : w[j] = d[j]
    BY <1>1, <2>1, PrefixProperty
  <2>3. QED
    BY <2>2 DEF Data, l
<1>4. v \in Data /\ Len(v) = (IF b <= l THEN b ELSE l) - a /\ \A j \in 1 .. Len(v) : v[j] = d[a + j]
  <2>1. v = Part(d, k) /\ a = Offset(k) /\ b = Offset(k + 1)
    OBVIOUS
  <2> HIDE DEF v, a, b
  <2>2. QED
    BY <2>1, PartProperty DEF l
<1>5. Gained(r, p) = u \o Prefix(v, n)
  <2>1. r.len - Len(r.data) = left
    BY <1>2
  <2>2. QED
    BY <2>1 DEF Gained
<1> HIDE DEF u, v, w, l, a, b, left
<1>6. n \in Nat /\ Len(v) <= n
  <2>1. n = IF left <= ContPayload THEN left ELSE ContPayload
    BY <1>1, MinTwo
  <2> HIDE DEF n
  <2>2. QED
    BY <1>1, <1>4, <2>1
<1> HIDE DEF n
<1>7. Prefix(v, n) = v
  BY <1>4, <1>6, PrefixWhole
<1>8. u \o v = w
  <2>1. Len(w) = Len(u) + Len(v)
    BY <1>1, <1>2, <1>3, <1>4
  <2>2. \A j \in 1 .. Len(u) : j \in 1 .. Len(w) /\ j \in 1 .. a
    BY <1>1, <1>2, <1>3
  <2>3. \A j \in 1 .. Len(u) : w[j] = u[j]
    BY <1>2, <1>3, <2>2
  <2>4. \A j \in 1 .. Len(v) : a + j \in 1 .. Len(w)
    BY <1>1, <1>3, <1>4
  <2>5. \A j \in 1 .. Len(v) : w[Len(u) + j] = v[j]
    BY <1>2, <1>3, <1>4, <2>4
  <2>6. QED
    BY <1>2, <1>3, <1>4, <2>1, <2>3, <2>5, Joined
<1>9. Gained(r, p) = w
  BY <1>5, <1>7, <1>8
<1>10. QED
  BY <1>9 DEF w, b

LEMMA OfPrefix ==
  ASSUME NEW s, Log(s), NEW m \in 1 .. Len(s), NEW n \in Nat \ {0}
  PROVE  Of(Prefix(s[m].data, n)) = m
<1> DEFINE d == s[m].data
           u == Prefix(d, n)
<1>1. /\ d \in Seq(Units) /\ Len(d) \in Nat \ {0} /\ \A k \in 1 .. Len(d) : d[k] = [of |-> m, at |-> k]
  BY SentType DEF Data
<1> HIDE DEF d
<1>2. /\ u \in Seq(Units) /\ Len(u) = (IF n <= Len(d) THEN n ELSE Len(d))
      /\ \A k \in 1 .. Len(u) : u[k] = d[k]
  BY <1>1, PrefixProperty
<1>3. 1 \in 1 .. Len(u) /\ 1 \in 1 .. Len(d)
  BY <1>1, <1>2
<1> HIDE DEF u
<1>4. u[1].of = m
  <2>1. u[1] = d[1]
    BY <1>2, <1>3
  <2>2. d[1] = [of |-> m, at |-> 1]
    BY <1>1, <1>3
  <2>3. QED
    BY <2>1, <2>2
<1>5. Of(u) = m
  BY <1>4 DEF Of
<1>6. QED
  BY <1>5 DEF d, u

\* A first packet begins a request.
LEMMA GatherStart ==
  ASSUME NEW s, Log(s), NEW p \in Packets, NEW m \in 1 .. Len(s), IsPiece(s, p, m), p.init,
         p.len <= MaxMessage, NEW r, r = Started(p)
  PROVE  Gathered(s, r) /\ Of(r.data) = m /\ r.cid = p.cid
<1> DEFINE d == s[m].data
           u == Prefix(d, InitPayload)
           x == Min({p.len, InitPayload})
<1>1. /\ p.cid = s[m].cid /\ p.cmd = s[m].cmd /\ p.len = Len(d) /\ p.data = u
  <2>1. p.cid = s[m].cid
    BY PieceFacts
  <2>2. p.cmd = s[m].cmd
    BY PieceFacts
  <2>3. p.len = Len(s[m].data)
    BY PieceFacts
  <2>4. p.data = Prefix(s[m].data, InitPayload)
    BY PieceFacts
  <2>5. QED
    BY <2>1, <2>2, <2>3, <2>4
<1>2. /\ r.cid = p.cid /\ r.cmd = p.cmd /\ r.len = p.len /\ r.seq = 0
      /\ r.data = Prefix(p.data, x)
  BY StartedType, Zenon
<1>3. d \in Data /\ Len(d) \in Nat \ {0} /\ InitPayload \in Nat \ {0}
  BY SentType, Sizes
<1> HIDE DEF d
<1>4. u \in Data /\ Len(u) = (IF InitPayload <= Len(d) THEN InitPayload ELSE Len(d))
  BY <1>3, PrefixProperty DEF Data
<1>5. x = IF p.len <= InitPayload THEN p.len ELSE InitPayload
  <2> DEFINE l == p.len
  <2>1. l \in Int /\ InitPayload \in Int /\ x = Min({l, InitPayload})
    BY <1>1, <1>3
  <2> HIDE DEF l, x
  <2>2. x = IF l <= InitPayload THEN l ELSE InitPayload
    BY <2>1, MinTwo
  <2>3. QED
    BY <2>2 DEF l
<1> HIDE DEF u, x
<1>6. x \in Nat /\ Len(u) <= x
  BY <1>1, <1>3, <1>4, <1>5
<1>7. r.data = u
  BY <1>1, <1>2, <1>4, <1>6, PrefixWhole
<1>8. Of(u) = m
  BY <1>3, OfPrefix DEF u, d
<1>9. Offset(r.seq + 1) = InitPayload
  <2>1. r.seq + 1 = 1
    BY <1>2
  <2>2. QED
    BY <2>1, OffsetProperty
<1>10. QED
  BY <1>1, <1>2, <1>7, <1>8, <1>9, Zenon DEF Gathered, d, u

\* The packet that a request waits for goes on with it.
LEMMA GatherOn ==
  ASSUME NEW s, Log(s), NEW p \in Packets, NEW r \in Requests, Gathered(s, r),
         IsPiece(s, p, Of(r.data)), ~ p.init, p.seq = r.seq,
         NEW x, x.cid = r.cid, x.cmd = r.cmd, x.len = r.len, x.seq = r.seq + 1,
         x.data = Gained(r, p)
  PROVE  Gathered(s, x) /\ Of(x.data) = Of(r.data)
<1> DEFINE m == Of(r.data)
           d == s[m].data
           k == r.seq + 1
<1>1. /\ m \in 1 .. Len(s) /\ r.cid = s[m].cid /\ r.cmd = s[m].cmd /\ r.len = Len(d)
      /\ r.data = Prefix(d, Offset(k))
  BY DEF Gathered
<1>2. m = Of(r.data) /\ r.seq \in Nat /\ k \in Nat \ {0} /\ k = r.seq + 1 /\ k = p.seq + 1
      /\ IsPiece(s, p, m)
  BY DEF Requests
<1> HIDE DEF m, k
<1>3. d \in Data /\ Len(d) \in Nat
  BY <1>1, SentType
<1>4. k \in 1 .. Continuations(Len(d)) /\ p.data = Part(d, k)
  <2>1. p.seq + 1 \in 1 .. Continuations(Len(s[m].data))
    BY <1>1, <1>2, PieceFacts
  <2>2. p.data = Part(s[m].data, p.seq + 1)
    BY <1>1, <1>2, PieceFacts
  <2>3. QED
    BY <1>2, <2>1, <2>2
<1> HIDE DEF d
<1>5. Offset(k) < Len(d)
  <2> DEFINE n == Len(d)
  <2>1. n \in Nat /\ k \in 1 .. Continuations(n)
    BY <1>3, <1>4
  <2> HIDE DEF n
  <2>2. Offset(k) < n
    BY <2>1, ContinuationsProperty, Zenon
  <2>3. QED
    BY <2>2 DEF n
<1>6. x.data = Prefix(d, Offset(k + 1))
  BY <1>1, <1>2, <1>3, <1>4, <1>5, GainedJoins
<1>7. Of(x.data) = m
  <2> DEFINE n == Offset(k + 1)
  <2>1. n \in Nat \ {0}
    <3> DEFINE o == Offset(k)
    <3>1. o \in Nat /\ n \in Nat /\ o < n
      BY <1>2, OffsetProperty
    <3> HIDE DEF o, n
    <3>2. QED
      BY <3>1
  <2> HIDE DEF n
  <2>2. Of(Prefix(s[m].data, n)) = m
    BY <1>1, <2>1, OfPrefix
  <2>3. QED
    BY <1>6, <2>2 DEF n, d
<1>8. x.seq + 1 = k + 1
  BY <1>2
<1>9. x.data = Prefix(d, Offset(x.seq + 1))
  BY <1>6, <1>8
<1>10. QED
  BY <1>1, <1>2, <1>7, <1>9 DEF Gathered, d

\* A request that is whole is the message.
LEMMA GatheredWhole ==
  ASSUME NEW s, Log(s), NEW r \in Requests, Gathered(s, r), Len(r.data) >= r.len
  PROVE  \E k \in 1 .. Len(s) : s[k] = [cid |-> r.cid, cmd |-> r.cmd, data |-> r.data]
<1> DEFINE m == Of(r.data)
           d == s[m].data
           a == Offset(r.seq + 1)
<1>1. /\ m \in 1 .. Len(s) /\ r.cid = s[m].cid /\ r.cmd = s[m].cmd /\ r.len = Len(d)
      /\ r.data = Prefix(d, a)
  BY DEF Gathered
<1>2. a \in Nat
  <2>1. r.seq + 1 \in Nat
    BY DEF Requests
  <2>2. QED
    BY <2>1, OffsetProperty
<1> HIDE DEF a, m
<1>3. d \in Data /\ Len(d) \in Nat /\ s[m] \in Messages
  BY <1>1, SentType, ElementOfSeq DEF Log
<1> HIDE DEF d
<1>4. Len(r.data) = IF a <= Len(d) THEN a ELSE Len(d)
  <2>1. d \in Seq(Units)
    BY <1>3 DEF Data
  <2>2. Len(Prefix(d, a)) = IF a <= Len(d) THEN a ELSE Len(d)
    BY <1>2, <2>1, PrefixProperty
  <2>3. QED
    BY <1>1, <2>2
<1>5. Len(d) <= a
  BY <1>1, <1>2, <1>3, <1>4
<1>6. r.data = d
  BY <1>1, <1>2, <1>3, <1>5, PrefixWhole
<1>7. s[m] = [cid |-> s[m].cid, cmd |-> s[m].cmd, data |-> s[m].data]
  BY <1>3 DEF Messages
<1>8. s[m] = [cid |-> r.cid, cmd |-> r.cmd, data |-> r.data]
  BY <1>1, <1>6, <1>7 DEF d
<1>9. QED
  BY <1>1, <1>8

\* A request that becomes whole is carried out as it was sent.
LEMMA ExtendStep ==
  ASSUME RequestTypes, NEW i \in Interfaces, NEW r \in Requests, Extend(i, r),
         (Log(sent) /\ Gathered(sent, r)) \/ r.cmd = "cancel"
  PROVE  /\ request'[i] = Idle \/ (request'[i] = r /\ (Len(r.data) < r.len \/ r.cmd = "cbor"))
         /\ \A j \in Interfaces \ {i} : request'[j] = request[j]
         /\ \A x \in served' : x \in served \/ Whole(sent, x)
<1>1. request \in [Interfaces -> Requests] /\ Len(r.data) \in Nat /\ r.len \in Nat
  BY Sizes DEF RequestTypes, Requests, Data
<1>2. CASE Len(r.data) >= r.len
  <2>1. Dispatch(i, r)
    BY <1>2 DEF Extend
  <2> DEFINE x == [cid |-> r.cid, cmd |-> r.cmd, data |-> r.data]
  <2>2. request' = [request EXCEPT ![i] = IF r.cmd = "cbor" THEN r ELSE Idle] /\ served' = served \cup {x}
    BY <2>1, Zenon DEF Dispatch
  <2>3. Whole(sent, x)
    <3>1. CASE r.cmd = "cancel"
      BY <3>1 DEF Whole
    <3>2. CASE Log(sent) /\ Gathered(sent, r)
      <4>1. \E k \in 1 .. Len(sent) : sent[k] = x
        BY <1>2, <3>2, GatheredWhole
      <4>2. QED
        BY <4>1, Zenon DEF Whole
    <3>3. QED
      BY <3>1, <3>2
  <2> HIDE DEF x
  <2>4. (request'[i] = r /\ r.cmd = "cbor") \/ request'[i] = Idle
    BY <1>1, <2>2
  <2>5. \A j \in Interfaces \ {i} : request'[j] = request[j]
    BY <1>1, <2>2
  <2>6. QED
    BY <2>2, <2>3, <2>4, <2>5, Zenon
<1>3. CASE ~ (Len(r.data) >= r.len)
  <2>1. request' = [request EXCEPT ![i] = r] /\ served' = served
    BY <1>3, Zenon DEF Extend
  <2>2. Len(r.data) < r.len
    BY <1>1, <1>3
  <2>3. request'[i] = r /\ \A j \in Interfaces \ {i} : request'[j] = request[j]
    BY <1>1, <2>1
  <2>4. QED
    BY <2>1, <2>2, <2>3, Zenon
<1>4. QED
  BY <1>2, <1>3

\* What a packet does to the request on its interface.
LEMMA HandleStep ==
  ASSUME Types, WireInv, StreamOK, NEW i \in Interfaces, Receive(i), NEW p, p = Head(toDevice[i])
  PROVE  /\ \A j \in Interfaces \ {i} : request'[j] = request[j]
         /\ request'[i].active => Gathered(sent, request'[i])
         /\ Moves(request[i], p, request'[i])
         /\ \A x \in served' : Whole(sent, x)
<1> DEFINE r == request[i]
<1>1. /\ p \in Packets /\ p = toDevice[i][1] /\ Len(toDevice[i]) \in Nat \ {0} /\ Handle(i, p)
      /\ IsPiece(sent, p, Of(p.data)) \/ IsCancel(p)
  BY Taken
<1>2. /\ RequestTypes /\ Log(sent) /\ r \in Requests /\ request \in [Interfaces -> Requests]
      /\ \A x \in served : Whole(sent, x)
  BY DEF Types, RequestTypes, WireInv, StreamOK
<1>3. Idle.active = FALSE
  BY DEF Idle
<1>4. CASE ~ p.init /\ (~ r.active \/ p.cid # r.cid) /\ UNCHANGED <<request, nextChannel, serving, served>>
  <2>1. request' = request /\ served' = served
    BY <1>4
  <2>2. Moves(r, p, r)
    BY <1>4 DEF Moves
  <2>3. r.active => Gathered(sent, r)
    BY DEF StreamOK
  <2>4. QED
    BY <1>2, <2>1, <2>2, <2>3
<1>5. CASE ~ p.init /\ r.active /\ p.cid = r.cid /\ p.seq = r.seq /\ Extend(i, Continued(i, p))
  <2> DEFINE x == Continued(i, p)
             m == Of(r.data)
  <2>1. Gathered(sent, r)
    BY <1>5 DEF StreamOK
  <2>2. Of(p.data) = m
    <3>1. Follows(toDevice[i], 0, r, p)
      <4>1. 1 \in 1 .. Len(toDevice[i]) /\ 1 - 1 = 0
        BY <1>1
      <4>2. Follows(toDevice[i], 1 - 1, request[i], toDevice[i][1])
        BY <1>1, <1>5, <4>1, Zenon DEF StreamOK, QueueFollows
      <4>3. QED
        BY <1>1, <4>1, <4>2
    <3>2. QED
      BY <1>5, <3>1 DEF Follows
  <2>3. IsPiece(sent, p, m)
    BY <1>1, <1>5, <2>2 DEF IsCancel
  <2>4. p.cmd = "none"
    <3>1. m \in 1 .. Len(sent)
      BY <2>3 DEF IsPiece
    <3> HIDE DEF m
    <3>2. ~ p.init => p.cmd = "none"
      BY <1>2, <2>3, <3>1, PieceFacts
    <3>3. QED
      BY <1>5, <3>2
  <2>5. /\ x \in Requests /\ x.active /\ x.cid = r.cid /\ x.cmd = r.cmd /\ x.len = r.len /\ x.seq = r.seq + 1
        /\ x.data = Gained(r, p)
    <3>1. r.active
      BY <1>5
    <3>2. /\ x \in Requests /\ x.active /\ x.cid = r.cid /\ x.cmd = r.cmd /\ x.len = r.len
          /\ x.seq = r.seq + 1 /\ x.data = Gained(r, p)
      BY <1>1, <1>2, <3>1, ContinuedType
    <3>3. QED
      BY <3>2
  <2> HIDE DEF x
  <2>6. Gathered(sent, x) /\ Of(x.data) = Of(r.data)
    BY <1>1, <1>2, <1>5, <2>1, <2>3, <2>5, GatherOn DEF m
  <2>7. Extend(i, x)
    BY <1>5 DEF x
  <2>8. Moves(r, p, x)
    BY <1>5, <2>2, <2>4, <2>5, <2>6 DEF Moves
  <2>9. /\ request'[i] = x \/ request'[i] = Idle
        /\ \A j \in Interfaces \ {i} : request'[j] = request[j]
        /\ \A y \in served' : y \in served \/ Whole(sent, y)
    BY <1>2, <2>5, <2>6, <2>7, ExtendStep
  <2>10. QED
    BY <1>2, <1>3, <2>6, <2>8, <2>9 DEF Moves
<1>6. CASE p.init /\ ~ (p.len > MaxMessage) /\ Extend(i, Started(p))
  <2> DEFINE x == Started(p)
  <2>1. p.len <= MaxMessage
    BY <1>1, <1>6, Sizes DEF Packets
  <2>2. x \in Requests /\ x.active /\ Len(x.data) <= x.len /\ x.cid = p.cid /\ x.cmd = p.cmd /\ x.len = p.len
    BY <1>1, <2>1, StartedType
  <2>3. Extend(i, x) /\ x = Started(p)
    BY <1>6
  <2> HIDE DEF x
  <2>4. CASE IsCancel(p)
    <3>1. x.cmd = "cancel" /\ ~ (Len(x.data) < x.len)
      <4>1. x.len = 0 /\ x.cmd = "cancel" /\ Len(x.data) \in Nat
        BY <2>2, <2>4 DEF IsCancel, Requests, Data
      <4>2. QED
        BY <4>1
    <3>2. /\ request'[i] = Idle
          /\ \A j \in Interfaces \ {i} : request'[j] = request[j]
          /\ \A y \in served' : y \in served \/ Whole(sent, y)
      BY <1>2, <2>2, <2>3, <3>1, ExtendStep
    <3>3. QED
      BY <1>2, <1>3, <3>2 DEF Moves
  <2>5. CASE IsPiece(sent, p, Of(p.data))
    <3> DEFINE m == Of(p.data)
    <3>1. m \in 1 .. Len(sent) /\ IsPiece(sent, p, m) /\ m = Of(p.data)
      BY <2>5 DEF IsPiece
    <3> HIDE DEF m
    <3>2. Gathered(sent, x) /\ Of(x.data) = m
      BY <1>1, <1>2, <1>6, <2>1, <2>3, <3>1, GatherStart
    <3>3. p.cmd # "cancel"
      <4>1. p.cmd = sent[m].cmd
        BY <1>2, <1>6, <3>1, PieceFacts
      <4>2. MessageOK(m, sent[m])
        BY <1>2, <3>1 DEF Log
      <4>3. QED
        BY <4>1, <4>2 DEF MessageOK
    <3>4. Moves(r, p, x)
      BY <2>2, <3>1, <3>2, <3>3 DEF Moves
    <3>5. /\ request'[i] = x \/ request'[i] = Idle
          /\ \A j \in Interfaces \ {i} : request'[j] = request[j]
          /\ \A y \in served' : y \in served \/ Whole(sent, y)
      BY <1>2, <2>2, <2>3, <3>2, ExtendStep
    <3>6. QED
      BY <1>2, <1>3, <3>2, <3>4, <3>5 DEF Moves
  <2>6. QED
    BY <1>1, <2>4, <2>5
<1>7. CASE Reject(i, p.cid)
  <2>1. request' = [request EXCEPT ![i] = Idle] /\ served' = served
    BY <1>7, Zenon DEF Reject
  <2>2. request'[i] = Idle /\ \A j \in Interfaces \ {i} : request'[j] = request[j]
    BY <1>2, <2>1
  <2>3. QED
    BY <1>2, <1>3, <2>1, <2>2 DEF Moves
<1>8. QED
  BY <1>1, <1>4, <1>5, <1>6, <1>7, Handling, Zenon DEF r

LEMMA QueueTail ==
  ASSUME NEW q \in Seq(Packets), q # <<>>, NEW r, NEW r2, Moves(r, Head(q), r2),
         NEW t \in Seq(Packets), Len(t) = Len(q) - 1, \A n \in 1 .. Len(t) : t[n] = q[n + 1]
  PROVE  /\ QueueFollows(q, r) => QueueFollows(t, r2)
         /\ \A w : NextFollows(q, r, w) => NextFollows(t, r2, w)
<1>0. Len(q) \in Nat \ {0} /\ Len(t) \in Nat /\ Head(q) = q[1]
  BY EmptySeq
<1>1. ASSUME NEW p, NEW n \in 1 .. Len(q), Follows(q, n, r, p)
      PROVE  Follows(t, n - 1, r2, p)
  <2>1. n \in Nat \ {0} /\ \A k \in 1 .. n - 1 : t[k] = q[k + 1]
    BY <1>0
  <2>2. Moves(r, q[1], r2)
    BY <1>0
  <2>3. QED
    BY <1>1, <2>1, <2>2, FollowsTail
<1>2. ASSUME QueueFollows(q, r), NEW n \in 1 .. Len(t), ~ t[n].init
      PROVE  Follows(t, n - 1, r2, t[n])
  <2>1. n + 1 \in 1 .. Len(q) /\ n \in 1 .. Len(q) /\ (n + 1) - 1 = n /\ t[n] = q[n + 1]
    BY <1>0
  <2>2. Follows(q, (n + 1) - 1, r, q[n + 1])
    BY <1>2, <2>1, Zenon DEF QueueFollows
  <2>3. Follows(q, n, r, t[n])
    BY <2>1, <2>2
  <2>4. QED
    BY <1>1, <2>1, <2>3
<1>3. ASSUME NEW w, NextFollows(q, r, w), w # <<>>, ~ Head(w).init
      PROVE  Follows(t, Len(t), r2, Head(w))
  <2>1. Follows(q, Len(q), r, Head(w))
    BY <1>3, Zenon DEF NextFollows
  <2>2. Len(q) \in 1 .. Len(q)
    BY <1>0
  <2>3. Follows(t, Len(q) - 1, r2, Head(w))
    BY <1>1, <2>1, <2>2
  <2>4. QED
    BY <2>3
<1>4. QED
  BY <1>2, <1>3, Zenon DEF QueueFollows, NextFollows

LEMMA QueueAppend ==
  ASSUME NEW q \in Seq(Packets), NEW r, NEW p \in Packets, NEW t, t = Append(q, p)
  PROVE  /\ QueueFollows(q, r) /\ (p.init \/ Follows(q, Len(q), r, p)) => QueueFollows(t, r)
         /\ \A w : NextFollows(q, r, w) /\ (w = <<>> \/ Head(w).init \/ p.cid # Head(w).cid)
                     => NextFollows(t, r, w)
         /\ \A w : p.cid = Head(w).cid /\ p.cmd # "cancel" /\ Of(p.data) = Of(Head(w).data)
                     => NextFollows(t, r, w)
<1>0. /\ Len(q) \in Nat /\ Len(t) = Len(q) + 1 /\ t[Len(q) + 1] = p
      /\ \A k \in 1 .. Len(q) : t[k] = q[k]
  BY AppendProperties
<1>1. ASSUME NEW n \in 0 .. Len(q), NEW x, Follows(q, n, r, x)
      PROVE  Follows(t, n, r, x) /\ (t[n + 1].cid # x.cid => Follows(t, n + 1, r, x))
  <2>1. n \in Nat /\ \A k \in 1 .. n : t[k] = q[k]
    BY <1>0
  <2>2. QED
    BY <1>1, <2>1, FollowsAppend
<1>2. ASSUME QueueFollows(q, r), p.init \/ Follows(q, Len(q), r, p), NEW n \in 1 .. Len(t), ~ t[n].init
      PROVE  Follows(t, n - 1, r, t[n])
  <2>1. CASE n \in 1 .. Len(q)
    <3>1. n - 1 \in 0 .. Len(q) /\ t[n] = q[n]
      BY <1>0, <2>1
    <3>2. Follows(q, n - 1, r, q[n])
      BY <1>2, <2>1, <3>1, Zenon DEF QueueFollows
    <3>3. QED
      BY <1>1, <3>1, <3>2
  <2>2. CASE n = Len(q) + 1
    <3>1. n - 1 = Len(q) /\ t[n] = p /\ Len(q) \in 0 .. Len(q)
      BY <1>0, <2>2
    <3>2. Follows(q, Len(q), r, p)
      BY <1>2, <3>1
    <3>3. Follows(t, Len(q), r, p)
      BY <1>1, <3>1, <3>2
    <3>4. QED
      BY <3>1, <3>3
  <2>3. QED
    BY <1>0, <2>1, <2>2
<1>3. ASSUME NEW w, NextFollows(q, r, w), w = <<>> \/ Head(w).init \/ p.cid # Head(w).cid,
             w # <<>>, ~ Head(w).init
      PROVE  Follows(t, Len(t), r, Head(w))
  <2>1. Follows(q, Len(q), r, Head(w))
    BY <1>3, Zenon DEF NextFollows
  <2>2. Len(q) \in 0 .. Len(q) /\ t[Len(q) + 1].cid # Head(w).cid
    BY <1>0, <1>3
  <2>3. Follows(t, Len(q) + 1, r, Head(w))
    BY <1>1, <2>1, <2>2
  <2>4. QED
    BY <1>0, <2>3
<1>4. ASSUME NEW w, p.cid = Head(w).cid, p.cmd # "cancel", Of(p.data) = Of(Head(w).data)
      PROVE  Follows(t, Len(t), r, Head(w))
  <2> DEFINE x == Head(w)
             n == Len(q)
  <2>1. n \in Nat /\ t[n + 1].cid = x.cid /\ t[n + 1].cmd # "cancel" /\ Of(t[n + 1].data) = Of(x.data)
    BY <1>0, <1>4
  <2> HIDE DEF x, n
  <2>2. Follows(t, n + 1, r, x)
    BY <2>1, FollowsLast
  <2>3. QED
    BY <1>0, <2>2 DEF x, n
<1>5. QED
  BY <1>2, <1>3, <1>4, Zenon DEF QueueFollows, NextFollows

LEMMA StreamReceived ==
  ASSUME Types, WireInv, StreamOK, NEW i \in Interfaces, Receive(i), UNCHANGED <<app, sent>>
  PROVE  StreamOK'
<1> DEFINE p == Head(toDevice[i])
           q == toDevice[i]
           t == toDevice'[i]
<1>1. /\ \A j \in Interfaces \ {i} : request'[j] = request[j]
      /\ request'[i].active => Gathered(sent, request'[i])
      /\ Moves(request[i], p, request'[i])
      /\ \A x \in served' : Whole(sent, x)
  BY HandleStep
<1>2. /\ \A j \in Interfaces \ {i} : toDevice'[j] = toDevice[j]
      /\ Len(t) = Len(q) - 1 /\ t = Tail(q) /\ Len(q) \in Nat \ {0}
      /\ \A n \in 1 .. Len(t) : t[n] = q[n + 1]
  BY Taken
<1>3. q \in Seq(Packets) /\ q # <<>>
  BY <1>2 DEF Types, WireTypes
<1>4. t \in Seq(Packets)
  BY <1>2, <1>3
<1>5. /\ QueueFollows(q, request[i]) => QueueFollows(t, request'[i])
      /\ \A w : NextFollows(q, request[i], w) => NextFollows(t, request'[i], w)
  BY <1>1, <1>2, <1>3, <1>4, QueueTail
<1> HIDE DEF p, q, t
<1>6. \A j \in Interfaces : request'[j].active => Gathered(sent, request'[j])
  BY <1>1 DEF StreamOK
<1>7. \A j \in Interfaces : QueueFollows(toDevice'[j], request'[j])
  BY <1>1, <1>2, <1>5 DEF StreamOK, q, t
<1>8. \A a \in Apps : NextFollows(toDevice'[Home[a]], request'[Home[a]], app[a].toWrite)
  <2> TAKE a \in Apps
  <2>1. Home[a] \in Interfaces /\ NextFollows(toDevice[Home[a]], request[Home[a]], app[a].toWrite)
    BY Sizes DEF StreamOK
  <2>2. CASE Home[a] = i
    BY <1>5, <2>1, <2>2 DEF q, t
  <2>3. CASE Home[a] # i
    BY <1>1, <1>2, <2>1, <2>3
  <2>4. QED
    BY <2>2, <2>3
<1>9. QED
  BY <1>1, <1>6, <1>7, <1>8 DEF StreamOK

\* The packets of two programs are on different channels.
LEMMA StreamWritten ==
  ASSUME ChannelInv, ~ Wrapped, StreamOK, NEW a \in Apps, Write(a)
  PROVE  StreamOK'
<1> DEFINE p == Head(app[a].toWrite)
           h == Home[a]
           q == toDevice[h]
           t == toDevice'[h]
           r == request[h]
<1>1. Types /\ WireInv /\ h \in Interfaces
  BY Sizes DEF ChannelInv
<1>2. /\ app[a].toWrite # <<>> /\ p \in Packets
      /\ toDevice' = [toDevice EXCEPT ![h] = Append(@, p)]
      /\ UNCHANGED <<request, served, sent>>
      /\ \A b \in Apps \ {a} : app'[b] = app[b]
  BY <1>1, Writing
<1>3. /\ IsPiece(sent, p, app[a].id) \/ IsCancel(p)
      /\ p.cid # Broadcast => p.cid = app[a].channel
      /\ app'[a].toWrite # <<>> => /\ IsPiece(sent, p, app[a].id)
                                  /\ IsPiece(sent, Head(app'[a].toWrite), app[a].id)
                                  /\ Head(app'[a].toWrite).cid = p.cid
  BY <1>1, Written
<1>4. /\ q \in Seq(Packets) /\ t = Append(q, p)
      /\ \A j \in Interfaces \ {h} : toDevice'[j] = toDevice[j]
  BY <1>1, <1>2 DEF Types, WireTypes
<1>5. Log(sent) /\ QueueFollows(q, r) /\ \A b \in Apps : NextFollows(toDevice[Home[b]], request[Home[b]], app[b].toWrite)
  BY <1>1 DEF WireInv, StreamOK
<1>11. p = Head(app[a].toWrite) /\ h = Home[a] /\ q = toDevice[h] /\ t = toDevice'[h] /\ r = request[h]
  OBVIOUS
<1> HIDE DEF p, h, q, t, r
<1>6. QueueFollows(t, r)
  <2>1. p.init \/ Follows(q, Len(q), r, p)
    BY <1>2, <1>5, <1>11, Zenon DEF NextFollows
  <2>2. QED
    BY <1>2, <1>4, <1>5, <2>1, QueueAppend
<1>7. ASSUME NEW b \in Apps PROVE NextFollows(toDevice'[Home[b]], request[Home[b]], app'[b].toWrite)
  <2> DEFINE w == app'[b].toWrite
  <2>0. w = app'[b].toWrite
    OBVIOUS
  <2>1. CASE b = a
    <3>1. CASE w = <<>>
      BY <3>1 DEF NextFollows
    <3>2. CASE w # <<>>
      <4> DEFINE m == app[a].id
                 x == Head(w)
      <4>1. m \in 1 .. Len(sent) /\ IsPiece(sent, p, m) /\ IsPiece(sent, x, m) /\ x.cid = p.cid
        BY <1>3, <2>1, <3>2 DEF IsPiece
      <4> HIDE DEF m, w, x
      <4>2. Of(p.data) = m /\ Of(x.data) = m
        BY <1>5, <4>1, PieceFacts
      <4>3. p.cmd # "cancel"
        <5>1. /\ p.init => p.cmd = sent[m].cmd
              /\ ~ p.init => p.cmd = "none"
          BY <1>5, <4>1, PieceFacts
        <5>2. sent[m].cmd # "cancel"
          BY <1>5, <4>1 DEF Log, MessageOK
        <5>3. QED
          BY <5>1, <5>2
      <4>4. NextFollows(t, r, w)
        <5>1. p.cid = Head(w).cid /\ p.cmd # "cancel" /\ Of(p.data) = Of(Head(w).data)
          BY <4>1, <4>2, <4>3 DEF x
        <5>2. QED
          BY <1>2, <1>4, <5>1, QueueAppend
      <4>5. QED
        BY <1>11, <2>0, <2>1, <4>4
    <3>3. QED
      BY <3>1, <3>2
  <2>2. CASE b # a
    <3>1. w = app[b].toWrite
      BY <1>2, <2>2
    <3>2. CASE Home[b] # h
      <4>1. toDevice'[Home[b]] = toDevice[Home[b]]
        BY <1>4, <3>2, Sizes
      <4>2. QED
        BY <1>5, <3>1, <4>1
    <3>3. CASE Home[b] = h
      <4>1. NextFollows(q, r, w)
        BY <1>5, <1>11, <3>1, <3>3
      <4>2. w = <<>> \/ Head(w).init \/ p.cid # Head(w).cid
        <5> SUFFICES ASSUME w # <<>>, ~ Head(w).init, p.cid = Head(w).cid PROVE FALSE
          OBVIOUS
        <5> DEFINE x == Head(w)
        <5>1. WritesOK(sent, app[b]) /\ w \in Seq(Packets)
          BY <1>1, <3>1 DEF WireInv, Types, ProgramTypes, Programs
        <5>2. 1 \in 1 .. Len(w) /\ x = w[1]
          BY <5>1, EmptySeq
        <5>3. ~ IsCancel(x)
          BY DEF IsCancel
        <5>4. IsPiece(sent, x, app[b].id) /\ (x.cid # Broadcast => x.cid = app[b].channel)
          BY <3>1, <5>1, <5>2, <5>3 DEF WritesOK
        <5> DEFINE m == app[b].id
        <5>5. m \in 1 .. Len(sent) /\ IsPiece(sent, x, m) /\ ~ x.init
          BY <5>4 DEF IsPiece
        <5>9. x \in Packets
          BY <5>1, <5>2, ElementOfSeq
        <5> HIDE DEF m, x
        <5>6. x.cid # Broadcast
          <6>1. Log(sent)
            BY <1>5
          <6>2. QED
            BY <5>5, <6>1, OneOpening, Zenon
        <5>7. x.cid = app[b].channel /\ x.cid = app[a].channel /\ x.cid # 0
          <6>1. x.cid # 0
            BY <5>9 DEF Packets, Cids
          <6>2. QED
            BY <1>3, <5>4, <5>6, <6>1 DEF x
        <5>8. QED
          BY <2>2, <5>7, DistinctChannels
      <4> HIDE DEF w
      <4>3. NextFollows(t, r, w)
        BY <1>2, <1>4, <4>1, <4>2, QueueAppend
      <4>4. QED
        BY <1>11, <2>0, <3>3, <4>3
    <3>4. QED
      BY <3>2, <3>3
  <2>3. QED
    BY <2>1, <2>2
<1>8. \A j \in Interfaces : QueueFollows(toDevice'[j], request[j])
  BY <1>4, <1>6, <1>11 DEF StreamOK
<1>9. \A j \in Interfaces : request[j].active => Gathered(sent, request[j])
  BY DEF StreamOK
<1>10. QED
  BY <1>2, <1>7, <1>8, <1>9 DEF StreamOK

LEMMA StreamSubmitted ==
  ASSUME Types, WireInv, StreamOK, NEW a \in Apps, Open(a) \/ Request(a) \/ Resync(a)
  PROVE  StreamOK'
<1>1. /\ UNCHANGED vars /\ Len(sent) \in Nat /\ Len(sent') = Len(sent) + 1
      /\ \A m \in 1 .. Len(sent) : sent'[m] = sent[m]
      /\ app'[a].toWrite # <<>> /\ Head(app'[a].toWrite).init
      /\ \A b \in Apps \ {a} : app'[b] = app[b]
  BY Submitted
<1>2. UNCHANGED <<request, toDevice, served>>
  BY <1>1 DEF vars
<1>3. \A m \in 1 .. Len(sent) : m \in 1 .. Len(sent') /\ sent'[m] = sent[m]
  BY <1>1
<1>4. \A r : Gathered(sent, r) => Gathered(sent', r)
  BY <1>3, Zenon DEF Gathered
<1>5. \A x : Whole(sent, x) => Whole(sent', x)
  <2> TAKE x
  <2> HAVE Whole(sent, x)
  <2>1. CASE x.cmd = "cancel"
    BY <2>1 DEF Whole
  <2>2. CASE x.cmd # "cancel"
    <3>1. PICK k \in 1 .. Len(sent) : sent[k] = x
      BY <2>2 DEF Whole
    <3>2. k \in 1 .. Len(sent') /\ sent'[k] = x
      BY <1>3, <3>1
    <3>3. QED
      BY <3>2, Zenon DEF Whole
  <2>3. QED
    BY <2>1, <2>2
<1>6. \A b \in Apps : NextFollows(toDevice[Home[b]], request[Home[b]], app'[b].toWrite)
  BY <1>1 DEF StreamOK, NextFollows
<1>7. \A i \in Interfaces : request[i].active => Gathered(sent', request[i])
  BY <1>4 DEF StreamOK
<1>8. \A x \in served : Whole(sent', x)
  BY <1>5 DEF StreamOK
<1>9. QED
  BY <1>2, <1>6, <1>7, <1>8 DEF StreamOK

LEMMA StreamStep ==
  ASSUME ChannelInv, ~ Wrapped, StreamOK, [SysNext]_sysVars, ~ Umount
  PROVE  StreamOK'
<1>0. Types /\ WireInv
  BY DEF ChannelInv
<1>1. ASSUME UNCHANGED <<request, toDevice, served, sent>>,
             \A a \in Apps : app'[a].toWrite = app[a].toWrite \/ app'[a].toWrite = <<>> \/ Head(app'[a].toWrite).init
      PROVE  StreamOK'
  <2>1. \A a \in Apps : NextFollows(toDevice[Home[a]], request[Home[a]], app'[a].toWrite)
    BY <1>1 DEF StreamOK, NextFollows
  <2>2. QED
    BY <1>1, <2>1 DEF StreamOK
<1>2. CASE DeviceStep
  <2>1. UNCHANGED <<app, sent>>
    BY <1>2 DEF DeviceStep
  <2>2. PICK i \in Interfaces :
          Receive(i) \/ SendNext(i) \/ EndpointDone(i) \/ Keepalive(i) \/ FinishCbor(i)
    BY <1>2 DEF DeviceStep, Device
  <2>3. CASE Receive(i)
    BY <1>0, <2>1, <2>3, StreamReceived
  <2>4. CASE UNCHANGED <<request, toDevice, served>>
    BY <1>1, <2>1, <2>4
  <2>5. CASE FinishCbor(i)
    <3>1. request' = [request EXCEPT ![i] = Idle] /\ UNCHANGED <<toDevice, served>>
      BY <2>5, Zenon DEF FinishCbor
    <3>2. request'[i] = Idle /\ \A j \in Interfaces \ {i} : request'[j] = request[j]
      BY <1>0, <3>1 DEF Types, RequestTypes
    <3>3. Idle.active = FALSE
      BY DEF Idle
    <3>4. /\ \A q, r : QueueFollows(q, r) => QueueFollows(q, Idle)
          /\ \A q, r, w : NextFollows(q, r, w) => NextFollows(q, Idle, w)
      <4>1. ~ Idle.active
        BY <3>3
      <4>2. QED
        BY <4>1, FollowsIdle, Zenon DEF QueueFollows, NextFollows
    <3>5. \A j \in Interfaces : request'[j].active => Gathered(sent, request'[j])
      BY <3>2, <3>3 DEF StreamOK
    <3>6. \A j \in Interfaces : QueueFollows(toDevice[j], request'[j])
      BY <3>2, <3>4 DEF StreamOK
    <3>7. \A a \in Apps : NextFollows(toDevice[Home[a]], request'[Home[a]], app[a].toWrite)
      <4> TAKE a \in Apps
      <4>1. Home[a] \in Interfaces /\ NextFollows(toDevice[Home[a]], request[Home[a]], app[a].toWrite)
        BY Sizes DEF StreamOK
      <4>2. QED
        BY <3>2, <3>4, <4>1
    <3>8. \A x \in served : Whole(sent, x)
      BY DEF StreamOK
    <3>9. QED
      BY <2>1, <3>1, <3>5, <3>6, <3>7, <3>8 DEF StreamOK
  <2>6. QED
    BY <2>2, <2>3, <2>4, <2>5, Zenon DEF SendNext, EndpointDone, Keepalive
<1>3. ASSUME NEW a \in Apps, Open(a) \/ Request(a) \/ Resync(a) PROVE StreamOK'
  BY <1>0, <1>3, StreamSubmitted
<1>4. ASSUME NEW a \in Apps, Cancel(a) PROVE StreamOK'
  <2>1. /\ UNCHANGED <<vars, sent>> /\ Head(app'[a].toWrite).init
        /\ \A b \in Apps \ {a} : app'[b] = app[b]
    BY <1>0, <1>4, Cancelled
  <2>2. \A b \in Apps : app'[b].toWrite = app[b].toWrite \/ app'[b].toWrite = <<>> \/ Head(app'[b].toWrite).init
    BY <2>1
  <2>3. UNCHANGED <<request, toDevice, served, sent>>
    BY <2>1 DEF vars
  <2>4. QED
    BY <1>1, <2>2, <2>3
<1>5. ASSUME NEW a \in Apps, Write(a) PROVE StreamOK'
  BY <1>5, StreamWritten
<1>6. ASSUME NEW i \in Interfaces, Read(i) PROVE StreamOK'
  <2>1. UNCHANGED <<request, toDevice, served, sent>>
    BY <1>0, <1>6, Reading
  <2>2. PICK p \in Packets :
          ReportOK(p) /\ \A a \in Apps : app'[a] = IF Home[a] = i THEN Hear(a, p) ELSE app[a]
    BY <1>0, <1>6, Reading
  <2>3. ASSUME NEW a \in Apps
        PROVE  app'[a].toWrite = app[a].toWrite \/ app'[a].toWrite = <<>>
    <3> DEFINE y == Hear(a, p)
    <3>1. y = Hear(a, p) /\ (app'[a] = app[a] \/ app'[a] = y)
      BY <2>2
    <3> HIDE DEF y
    <3>2. y.toWrite \in {app[a].toWrite, <<>>}
      BY <1>0, <2>2, <3>1, HearType DEF Types
    <3>3. QED
      BY <3>1, <3>2
  <2>4. QED
    BY <1>1, <2>1, <2>3
<1>7. CASE UNCHANGED sysVars
  BY <1>1, <1>7 DEF sysVars, vars
<1>8. QED
  BY <1>2, <1>3, <1>4, <1>5, <1>6, <1>7 DEF SysNext

LEMMA FreshStreams == Fresh => StreamInv
<1> SUFFICES ASSUME Fresh PROVE StreamOK
  BY DEF StreamInv
<1>1. /\ \A i \in Interfaces : ~ request[i].active /\ toDevice[i] = <<>> /\ Len(toDevice[i]) = 0
      /\ \A a \in Apps : app[a].toWrite = <<>>
      /\ served = {}
  BY DEF Fresh, Idle, Closed
<1>2. \A i \in Interfaces : QueueFollows(toDevice[i], request[i])
  BY <1>1 DEF QueueFollows
<1>3. \A a \in Apps : NextFollows(toDevice[Home[a]], request[Home[a]], app[a].toWrite)
  BY <1>1 DEF NextFollows
<1>4. QED
  BY <1>1, <1>2, <1>3, Zenon DEF StreamOK

\* It holds again when the device is plugged in, whatever happened before.
LEMMA StreamInductive == ChannelInv /\ StreamInv /\ [SysNext]_sysVars => StreamInv'
<1> SUFFICES ASSUME ChannelInv, StreamInv, [SysNext]_sysVars PROVE StreamInv'
  OBVIOUS
<1>2. CASE Umount
  BY <1>2, FreshStates, FreshStreams, PTL
<1>3. CASE ~ Umount
  <2> SUFFICES ASSUME ~ Wrapped' PROVE StreamOK'
    BY DEF StreamInv
  <2>1. ~ Wrapped /\ StreamOK
    BY <1>3, CountStep DEF ChannelInv, StreamInv
  <2>2. QED
    BY <1>3, <2>1, StreamStep
<1>4. QED
  BY <1>2, <1>3

\* A request that the device carries out is one message of one program, whole and on its
\* channel, however the programs' packets are interleaved, abandoned and resumed.
THEOREM RequestsCorrect == SysSpec => []RequestsAreWhole
<1>1. ChannelInv /\ StreamInv => RequestsAreWhole
  BY DEF StreamInv, StreamOK, Whole, RequestsAreWhole
<1>2. SysInit => ChannelInv
  BY FreshStates, FreshChannels
<1>3. SysInit => StreamInv
  BY FreshStates, FreshStreams
<1>4. QED
  BY <1>1, <1>2, <1>3, ChannelsInductive, StreamInductive, PTL DEF SysSpec
================================================================================
