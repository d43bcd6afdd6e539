----------------------------- MODULE CtapHidSystem -----------------------------
(***************************************************************************)
(* Several programs of the host use the authenticator at the same time.    *)
(* The operating system interleaves the reports they write and hands every *)
(* report it reads to all of them; it is the channel id that tells them    *)
(* apart.                                                                  *)
(*                                                                         *)
(* The programs are external to the repository: browsers and libraries     *)
(* that follow CTAPHID.  One opens a channel with INIT on the broadcast    *)
(* channel, sends a request at a time, ignores keepalives and the reports  *)
(* of other channels, and when it loses patience or gets an error sends    *)
(* INIT on its own channel and trusts nothing it reads before the reply.   *)
(***************************************************************************)
EXTENDS CtapHid

CONSTANTS
  Apps,      \* the programs
  Home,      \* the interface that each of them has opened
  Lengths,   \* the lengths, in units, of what they send: a unit at least, to know it by
  MaxSent    \* bound: how many messages they send in all

ASSUME AppsOK ==
  /\ Home \in [Apps -> Interfaces] /\ Lengths \subseteq Nat \ {0} /\ MaxSent \in Nat

VARIABLES
  app,       \* what each program is doing
  sent       \* history: the messages sent since the device was plugged in, in order

sysVars == <<vars, app, sent>>

Closed == [phase |-> "closed", channel |-> 0, id |-> 0, cmd |-> "none", len |-> 0,
           toWrite |-> <<>>, got |-> NoReply, cancelled |-> FALSE]

\* The message with number `id`: its units are told apart from those of every other.
Message(id, n) == [k \in 1 .. n |-> [of |-> id, at |-> k]]

\* Where the packets of a message begin: number 0 is the initialization packet.
Offset(k) == IF k = 0 THEN 0 ELSE InitPayload + (k - 1) * ContPayload

Piece(cid, cmd, data, k) ==
  IF k = 0
  THEN Packet(cid, TRUE, cmd, Len(data), 0, Prefix(data, InitPayload))
  ELSE Packet(cid, FALSE, "none", 0, k - 1,
              SubSeq(data, Offset(k) + 1, Min({Len(data), Offset(k + 1)})))

\* How many continuation packets a message of n units takes.
Continuations(n) == Min({k \in 0 .. n : n <= Offset(k + 1)})

\* make_packets of any CTAPHID library: a message cut into reports.
Cut(cid, cmd, data) ==
  [k \in 1 .. Continuations(Len(data)) + 1 |-> Piece(cid, cmd, data, k - 1)]

\* The channel on which a program is spoken to.
Address(a) == IF app[a].channel = 0 THEN Broadcast ELSE app[a].channel

Submit(a, cid, cmd, n) ==
  LET id == Len(sent) + 1
  IN  /\ id <= MaxSent
      /\ app' = [app EXCEPT ![a] = [@ EXCEPT !.phase = "waiting", !.id = id, !.cmd = cmd,
                   !.len = n, !.toWrite = Cut(cid, cmd, Message(id, n)), !.got = NoReply,
                   !.cancelled = FALSE]]
      /\ sent' = Append(sent, [cid |-> cid, cmd |-> cmd, data |-> Message(id, n)])
      /\ UNCHANGED vars

Open(a)    == app[a].phase = "closed" /\ Submit(a, Broadcast, "init", NonceLength)

Request(a) ==
  /\ app[a].phase \in {"ready", "answered"}
  /\ \E cmd \in {"ping", "cbor"}, n \in Lengths : Submit(a, app[a].channel, cmd, n)

\* Out of patience, or told of an error: what is still to be written is given up.
Resync(a)  == app[a].phase \in {"waiting", "failed"} /\ Submit(a, Address(a), "init", NonceLength)

\* A program that waits for the user may ask for the command to be cancelled.
Cancel(a) ==
  /\ app[a].phase = "waiting" /\ app[a].cmd = "cbor" /\ app[a].toWrite = <<>>
  /\ ~ app[a].cancelled
  /\ app' = [app EXCEPT ![a].cancelled = TRUE,
                        ![a].toWrite = Cut(app[a].channel, "cancel", <<>>)]
  /\ UNCHANGED <<vars, sent>>

Write(a) ==
  /\ app[a].toWrite # <<>>
  /\ toDevice' = [toDevice EXCEPT ![Home[a]] = Append(@, Head(app[a].toWrite))]
  /\ app' = [app EXCEPT ![a].toWrite = Tail(@)]
  /\ UNCHANGED <<request, response, nextChannel, serving, busy, toHost, served, sent>>

--------------------------------------------------------------------------------
(* Reading                                                                   *)

\* What has been put together of the message whose packet p is read.
Assemble(g, p) ==
  IF p.init
  THEN [active |-> TRUE, cid |-> p.cid, cmd |-> p.cmd, seq |-> 0, sent |-> p.len, data |-> p.data]
  ELSE IF g.active /\ p.seq = g.seq
       THEN [g EXCEPT !.seq = @ + 1, !.data = @ \o p.data]
       ELSE g

\* A whole message has come: the program takes it for its answer, or drops it.
Conclude(me, g) ==
  IF me.cmd = "init"
  THEN IF g.cmd = "init" /\ g.data[1].of = me.id
       THEN [me EXCEPT !.phase = "ready", !.channel = g.data[Len(g.data)].at, !.got = NoReply]
       ELSE [me EXCEPT !.got = NoReply]
  ELSE IF g.cmd = me.cmd
       THEN [me EXCEPT !.phase = "answered", !.got = g, !.toWrite = <<>>]
       ELSE [me EXCEPT !.phase = "failed", !.got = NoReply, !.toWrite = <<>>]

Hear(a, p) ==
  IF app[a].phase # "waiting" \/ p.cid # Address(a) \/ p.cmd = "keepalive"
  THEN app[a]
  ELSE LET g == Assemble(app[a].got, p)
       IN  IF g.active /\ Len(g.data) >= g.sent THEN Conclude(app[a], g)
           ELSE [app[a] EXCEPT !.got = g]

Read(i) ==
  /\ toHost[i] # <<>>
  /\ app' = [a \in Apps |-> IF Home[a] = i THEN Hear(a, Head(toHost[i])) ELSE app[a]]
  /\ toHost' = [toHost EXCEPT ![i] = <<>>]
  /\ UNCHANGED <<request, response, nextChannel, serving, busy, toDevice, served, sent>>

--------------------------------------------------------------------------------
\* tud_umount_cb and ctap_hid_init: the channels start anew, and the programs' handles
\* are gone with the device.
Umount ==
  /\ serving = NoInterface
  /\ request' = [i \in Interfaces |-> Idle]
  /\ response' = [i \in Interfaces |-> NoReply]
  /\ nextChannel' = 1
  /\ busy' = [i \in Interfaces |-> FALSE]
  /\ toDevice' = [i \in Interfaces |-> <<>>]
  /\ toHost' = [i \in Interfaces |-> <<>>]
  /\ served' = {}
  /\ app' = [a \in Apps |-> Closed]
  /\ sent' = <<>>
  /\ UNCHANGED serving

SysInit == Init /\ app = [a \in Apps |-> Closed] /\ sent = <<>>

DeviceStep == Device /\ UNCHANGED <<app, sent>>

SysNext ==
  \/ DeviceStep
  \/ \E a \in Apps : Open(a) \/ Request(a) \/ Resync(a) \/ Cancel(a) \/ Write(a)
  \/ \E i \in Interfaces : Read(i)
  \/ Umount

\* The main loop keeps turning, a wait for the user ends with the user or with its
\* timeout, and what a program has to write and what the device has to say is
\* eventually carried.  No program need send anything more.
SysSpec ==
  /\ SysInit /\ [][SysNext]_sysVars
  /\ WF_sysVars(DeviceStep)
  /\ \A i \in Interfaces : WF_sysVars(Read(i))
  /\ \A a \in Apps : WF_sysVars(Write(a))

--------------------------------------------------------------------------------
(* Properties                                                                *)

Units == [of : 0 .. MaxSent, at : Nat]
IsPacket(p) ==
  /\ p.cid \in Channels /\ p.cmd \in Commands \cup {"none"} /\ p.init \in BOOLEAN
  /\ p.len \in Nat /\ p.seq \in Nat /\ p.data \in Seq(Units)

\* The buffers never hold more than CTAP_HID_MAX_MESSAGE_SIZE, and never more than the
\* message they are for; a wait for the user belongs to a request that is kept.
TypeOK ==
  /\ \A i \in Interfaces :
       /\ request[i].active => Len(request[i].data) <= request[i].len
       /\ request[i].len <= MaxMessage
       /\ Len(response[i].data) <= MaxMessage /\ response[i].sent <= Len(response[i].data)
       /\ busy[i] \in BOOLEAN /\ (toHost[i] # <<>> => busy[i])
       /\ \A k \in 1 .. Len(toDevice[i]) : IsPacket(toDevice[i][k])
       /\ \A k \in 1 .. Len(toHost[i]) : IsPacket(toHost[i][k])
  /\ nextChannel \in Channels
  /\ serving # NoInterface => request[serving].active /\ request[serving].cmd = "cbor"
  /\ \A a \in Apps : app[a].channel \in Channels

\* More channels have been given out than there are.
Wrapped == Cardinality({r \in served : r.cmd = "init" /\ r.cid = Broadcast}) >= Broadcast

\* A request that is carried out is exactly one message that a program sent, on the
\* channel it sent it: no packet of another program or of an abandoned message is in it.
RequestsAreWhole ==
  ~ Wrapped => \A r \in served : r.cmd # "cancel" => \E k \in 1 .. Len(sent) : sent[k] = r

\* What a program takes for the answer to its request is that answer, whole: a PING
\* comes back as it went, and a CBOR response was computed from the request.
AnswersMatch ==
  \A a \in Apps :
    app[a].phase = "answered" /\ ~ Wrapped =>
      LET me == app[a]
      IN  IF me.cmd = "ping" THEN me.got.data = Message(me.id, me.len)
          ELSE me.got.data = Answer([data |-> Message(me.id, me.len)], Len(me.got.data))

\* No program is given one of the two reserved numbers and, until the counter has gone
\* round, no two programs share a channel, whichever interfaces they use.
ChannelsDistinct ==
  \A a, b \in Apps :
    app[a].channel # 0 =>
      /\ app[a].channel # Broadcast
      /\ ~ Wrapped /\ a # b => app[a].channel # app[b].channel

\* A program that has sent a request, and whom no other program disturbs, is answered.
Undisturbed(a) ==
  /\ app[a].phase = "waiting"
  /\ \A b \in Apps \ {a} : Home[b] = Home[a] => app[b].phase = "closed"

RequestsAnswered == \A a \in Apps : Undisturbed(a) ~> ~ Undisturbed(a)
================================================================================
