------------------------------ MODULE DebugHidHost ------------------------------
(***************************************************************************)
(* The Linux manager on the Debug HID interface of the firmware:           *)
(* DebugHidBackend of src/native-rs/meowkey-manager/src/transport.rs, one  *)
(* command at a time, against the device of CtapHid.                       *)
(*                                                                         *)
(* send_command writes the command and then reads reports until it has a   *)
(* whole message, whatever its channel and command; it gives up after      *)
(* RESPONSE_TIMEOUT, and what the device says later stays to be read.      *)
(***************************************************************************)
EXTENDS CtapHid

CONSTANTS
  Lengths,   \* the lengths, in units, of the CBOR and diagnostic commands
  MaxSent    \* bound: how many commands the manager sends

VARIABLES
  host,      \* the command being executed, and the message being read
  channelId, \* channel_id, 0 before init_channel
  commands   \* history: the commands sent

hostVars == <<vars, host, channelId, commands>>

\* `result` is what send_command returns: the message, or an error.
NoMessage == [cid |-> 0, cmd |-> "none", len |-> 0, seq |-> 0, data |-> <<>>]
AtRest    == [cmd |-> "none", toWrite |-> <<>>, got |-> NoMessage, result |-> "none"]

HostInit == Init /\ host = AtRest /\ channelId = 0 /\ commands = <<>>

\* The head of send_command, make_init_packet and make_continuation_packet.
SendCommand(cid, cmd, n) ==
  LET id    == Len(commands) + 1
      data  == [k \in 1 .. n |-> [of |-> id, at |-> k]]
      First == Packet(cid, TRUE, cmd, n, 0, Prefix(data, InitPayload))
      Rest  == IF n <= InitPayload THEN 0 ELSE (n - InitPayload + ContPayload - 1) \div ContPayload
  IN  /\ id <= MaxSent
      /\ host.result # "pending"
      /\ host' = [cmd |-> cmd, got |-> NoMessage, result |-> "pending",
                  toWrite |-> <<First>> \o
                    [k \in 1 .. Rest |->
                      Packet(cid, FALSE, "none", 0, k - 1,
                             SubSeq(data, InitPayload + (k - 1) * ContPayload + 1,
                                    Min({n, InitPayload + k * ContPayload})))]]
      /\ commands' = Append(commands, [cid |-> cid, cmd |-> cmd, data |-> data])
      /\ UNCHANGED <<vars, channelId>>

InitChannel == SendCommand(Broadcast, "init", NonceLength)
SendCbor    == channelId # 0 /\ \E n \in Lengths : SendCommand(channelId, "cbor", n)
SendDiag    == channelId # 0 /\ \E n \in Lengths : SendCommand(channelId, "diag", n)

WritePacket ==
  /\ host.result = "pending" /\ host.toWrite # <<>>
  /\ toDevice' = [toDevice EXCEPT !["DEBUG"] = Append(@, Head(host.toWrite))]
  /\ host' = [host EXCEPT !.toWrite = Tail(@)]
  /\ UNCHANGED <<request, response, nextChannel, serving, busy, toHost, served,
                 channelId, commands>>

\* The message after packet p; the first one of all is not a continuation.
Gather(g, p) ==
  IF p.init
  THEN [cid |-> p.cid, cmd |-> p.cmd, len |-> p.len, seq |-> 0, data |-> Prefix(p.data, p.len)]
  ELSE [g EXCEPT !.seq = @ + 1, !.data = @ \o Prefix(p.data, g.len - Len(g.data))]

OutOfOrder(g, p) == ~ p.init /\ g.cmd # "none" /\ (p.cid # g.cid \/ p.seq # g.seq)

\* send_command returns; init_channel takes the channel of the reply, and nothing else.
Return(g) ==
  /\ host' = [host EXCEPT !.got = g, !.result =
       IF g.cmd = "error" \/ (host.cmd = "init" /\ g.cmd # "init") THEN "error" ELSE "ok"]
  /\ channelId' = IF host.cmd = "init" /\ g.cmd = "init" THEN g.data[Len(g.data)].at
                  ELSE channelId

\* The read loop of send_command.
ReadPacket ==
  /\ host.result = "pending" /\ host.toWrite = <<>> /\ toHost["DEBUG"] # <<>>
  /\ toHost' = [toHost EXCEPT !["DEBUG"] = <<>>]
  /\ LET p == Head(toHost["DEBUG"])
         g == Gather(host.got, p)
     IN  \/ /\ OutOfOrder(host.got, p)
            /\ host' = [host EXCEPT !.result = "error"] /\ UNCHANGED channelId
         \/ /\ ~ p.init /\ host.got.cmd = "none"
            /\ UNCHANGED <<host, channelId>>
         \/ /\ ~ OutOfOrder(host.got, p) /\ (p.init \/ host.got.cmd # "none")
            /\ IF Len(g.data) >= g.len THEN Return(g)
               ELSE host' = [host EXCEPT !.got = g] /\ UNCHANGED channelId
  /\ UNCHANGED <<request, response, nextChannel, serving, busy, toDevice, served, commands>>

\* RESPONSE_TIMEOUT
ResponseTimeout ==
  /\ host.result = "pending" /\ host.toWrite = <<>>
  /\ host' = [host EXCEPT !.result = "error"]
  /\ UNCHANGED <<vars, channelId, commands>>

HostNext ==
  \/ Device /\ UNCHANGED <<host, channelId, commands>>
  \/ InitChannel \/ SendCbor \/ SendDiag \/ WritePacket \/ ReadPacket \/ ResponseTimeout

HostSpec == HostInit /\ [][HostNext]_hostVars

--------------------------------------------------------------------------------
\* A CBOR command that send_command returns without an error has been answered by the
\* CBOR message of the device: authenticatorMakeCredential and authenticatorGetAssertion
\* are among the features of the manager.
CborIsAnswered == host.cmd = "cbor" /\ host.result = "ok" => host.got.cmd = "cbor"
================================================================================
