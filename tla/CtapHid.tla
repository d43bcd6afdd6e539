-------------------------------- MODULE CtapHid --------------------------------
(***************************************************************************)
(* The device's side of CTAPHID, src/src/ctap_hid.c, in the main loop of   *)
(* src/src/main.c: requests are put together from 64-byte reports and      *)
(* dispatched, responses are sent back one report at a time.               *)
(*                                                                         *)
(* The loop is single-threaded: tud_task hands over the reports that have  *)
(* arrived, then ctap_hid_task sends at most one report per interface.     *)
(* Only a CBOR command takes time, waiting for the user; meanwhile nothing *)
(* is received, and TinyUSB does not learn that a report was taken.        *)
(*                                                                         *)
(* Abstractions.  A message is a sequence of units, a unit standing for as *)
(* many bytes as divide the three sizes below, and a unit is known by the  *)
(* message it belongs to and its place.  Which CBOR command it is, and the *)
(* text of a diagnostic, are left open: the response is any message that   *)
(* fits the buffer.                                                        *)
(***************************************************************************)
EXTENDS Integers, Sequences, FiniteSetsExt

CONSTANTS
  Interfaces,    \* "FIDO", and in a debug build "DEBUG"
  InitPayload,   \* units in an initialization packet
  ContPayload,   \* units in a continuation packet
  MaxMessage,    \* CTAP_HID_MAX_MESSAGE_SIZE, in units
  NonceLength,   \* what an INIT request must carry
  AnswerLengths, \* the lengths of what CBOR and diagnostic commands answer
  Broadcast      \* CTAP_HID_BROADCAST_CID, the highest channel id

ASSUME ConstantsOK ==
  /\ Interfaces \subseteq {"FIDO", "DEBUG"}
  /\ InitPayload \in Nat \ {0} /\ ContPayload \in Nat \ {0}
  /\ MaxMessage \in Nat /\ NonceLength \in Nat \ {0}
  /\ NonceLength < InitPayload /\ NonceLength < MaxMessage
  /\ AnswerLengths \subseteq 1 .. MaxMessage
  /\ Broadcast \in Nat /\ Broadcast > 1

VARIABLES
  request,     \* the request being put together, per interface
  response,    \* the response being sent, per interface
  nextChannel, \* s_next_channel_id
  serving,     \* the interface whose CBOR command waits for the user, or NoInterface
  busy,        \* whether tud_hid_n_ready says that a report is still to be taken
  toDevice,    \* reports that the host has written, per interface
  toHost,      \* the report the host has still to read, per interface: at most one
  served       \* history: the requests dispatched

vars == <<request, response, nextChannel, serving, busy, toDevice, toHost, served>>

NoInterface == "none"
Commands == {"init", "ping", "cbor", "cancel", "diag", "error", "keepalive", "other"}
Channels == 0 .. Broadcast

\* A report.  `len` is read from an initialization packet, `seq` from a continuation.
Packet(cid, init, cmd, len, seq, data) ==
  [cid |-> cid, init |-> init, cmd |-> cmd, len |-> len, seq |-> seq, data |-> data]

Idle    == [active |-> FALSE, cid |-> 0, cmd |-> "none", len |-> 0, seq |-> 0, data |-> <<>>]
NoReply == [active |-> FALSE, cid |-> 0, cmd |-> "none", seq |-> 0, sent |-> 0, data |-> <<>>]

Prefix(s, n) == SubSeq(s, 1, Min({n, Len(s)}))

--------------------------------------------------------------------------------
Init ==
  /\ request = [i \in Interfaces |-> Idle]
  /\ response = [i \in Interfaces |-> NoReply]
  /\ nextChannel = 1
  /\ serving = NoInterface
  /\ busy = [i \in Interfaces |-> FALSE]
  /\ toDevice = [i \in Interfaces |-> <<>>]
  /\ toHost = [i \in Interfaces |-> <<>>]
  /\ served = {}

\* queue_response: it replaces the response being sent, if there is one.
Reply(i, cid, cmd, data) ==
  response' = [response EXCEPT ![i] =
    [active |-> TRUE, cid |-> cid, cmd |-> cmd, seq |-> 0, sent |-> 0,
     data |-> Prefix(data, MaxMessage)]]

Error(i, cid) == Reply(i, cid, "error", <<[of |-> 0, at |-> 0]>>)

\* Mutant: the counter skips 0 only, and the broadcast id is given out.
AllocateBroadcast(n) ==
  IF n = 0 THEN [cid |-> 1, counter |-> 2]
  ELSE [cid |-> n, counter |-> (n + 1) % (Broadcast + 1)]

\* allocate_channel, of the counter n: the channel and the next counter.  The counter
\* is a uint32_t, and neither 0 nor the broadcast id is a channel.
Allocate(n) ==
  IF n \in {0, Broadcast}
  THEN [cid |-> 1, counter |-> 2]
  ELSE [cid |-> n, counter |-> (n + 1) % (Broadcast + 1)]

\* handle_init; a request of the wrong length consumes a channel too.
HandleInit(i, cid, data) ==
  LET new == Allocate(nextChannel)
      channel == IF cid = Broadcast THEN new.cid ELSE cid
  IN  /\ nextChannel' = IF cid = Broadcast THEN new.counter ELSE nextChannel
      /\ IF Len(data) = NonceLength
         THEN Reply(i, cid, "init", Append(data, [of |-> 0, at |-> channel]))
         ELSE Error(i, cid)

\* What CBOR and diagnostic commands answer: a message of their own about request r.
Answer(r, n) == [k \in 1 .. n |-> [of |-> IF r.data = <<>> THEN 0 ELSE r.data[1].of, at |-> k]]

\* dispatch_request: `r` is the whole request.  A CBOR command is answered by
\* FinishCbor, and the request is cleared then.
Dispatch(i, r) ==
  /\ served' = served \cup {[cid |-> r.cid, cmd |-> r.cmd, data |-> r.data]}
  /\ request' = [request EXCEPT ![i] = IF r.cmd = "cbor" THEN r ELSE Idle]
  /\ serving' = IF r.cmd = "cbor" THEN i ELSE serving
  /\ IF r.cmd = "init" THEN HandleInit(i, r.cid, r.data) ELSE UNCHANGED nextChannel
  /\ CASE r.cmd = "init" -> TRUE
       [] r.cmd \in {"cbor", "cancel"} -> UNCHANGED response
       [] r.cmd = "ping" -> Reply(i, r.cid, "ping", r.data)
       [] r.cmd = "diag" /\ i = "DEBUG" ->
            \E n \in AnswerLengths : Reply(i, r.cid, "diag", Answer(r, n))
       [] OTHER -> Error(i, r.cid)

\* Mutant: a request is dispatched by the packet that follows its last one.
ExtendPast(i, r) ==
  IF Len(r.data) > r.len
  THEN Dispatch(i, r)
  ELSE request' = [request EXCEPT ![i] = r] /\ UNCHANGED <<response, nextChannel, serving, served>>

\* The request with one more packet of it: dispatched when it is whole.
Extend(i, r) ==
  IF Len(r.data) >= r.len
  THEN Dispatch(i, r)
  ELSE request' = [request EXCEPT ![i] = r] /\ UNCHANGED <<response, nextChannel, serving, served>>

\* An error, and the request put together so far is dropped.
Reject(i, cid) ==
  /\ Error(i, cid)
  /\ request' = [request EXCEPT ![i] = Idle] /\ UNCHANGED <<nextChannel, serving, served>>

--------------------------------------------------------------------------------
(* ctap_hid_handle_report                                                    *)

\* A continuation of nothing, or of another channel's request, which goes on.
StrayPacket(i, p) ==
  /\ ~ p.init /\ (~ request[i].active \/ p.cid # request[i].cid)
  /\ IF p.cid = Broadcast THEN UNCHANGED response ELSE Error(i, p.cid)
  /\ UNCHANGED <<request, nextChannel, serving, served>>

\* Mutant: a continuation is taken for the request whatever its channel.
ContinuationOfAny(i, p) ==
  /\ ~ p.init /\ request[i].active
  /\ IF p.seq = request[i].seq
     THEN LET left == request[i].len - Len(request[i].data)
          IN  Extend(i, [request[i] EXCEPT !.seq = @ + 1,
                           !.data = @ \o Prefix(p.data, Min({left, ContPayload}))])
     ELSE Reject(i, p.cid)

Continuation(i, p) ==
  /\ ~ p.init /\ request[i].active /\ p.cid = request[i].cid
  /\ IF p.seq = request[i].seq
     THEN LET left == request[i].len - Len(request[i].data)
          IN  Extend(i, [request[i] EXCEPT !.seq = @ + 1,
                           !.data = @ \o Prefix(p.data, Min({left, ContPayload}))])
     ELSE Reject(i, p.cid)

\* Mutant: what the request that is dropped has gathered is kept.
InitializationOnTop(i, p) ==
  /\ p.init
  /\ IF p.len > MaxMessage \/ (p.cid = Broadcast /\ p.cmd # "init")
     THEN Reject(i, p.cid)
     ELSE Extend(i, [active |-> TRUE, cid |-> p.cid, cmd |-> p.cmd, len |-> p.len, seq |-> 0,
                     data |-> request[i].data \o Prefix(p.data, Min({p.len, InitPayload}))])

\* A new request drops the one that was being put together, whoever's that is.
Initialization(i, p) ==
  /\ p.init
  /\ IF p.len > MaxMessage \/ (p.cid = Broadcast /\ p.cmd # "init")
     THEN Reject(i, p.cid)
     ELSE Extend(i, [active |-> TRUE, cid |-> p.cid, cmd |-> p.cmd, len |-> p.len, seq |-> 0,
                     data |-> Prefix(p.data, Min({p.len, InitPayload}))])

Receive(i) ==
  /\ serving = NoInterface /\ toDevice[i] # <<>>
  /\ LET p == Head(toDevice[i])
     IN  StrayPacket(i, p) \/ Continuation(i, p) \/ Initialization(i, p)
  /\ toDevice' = [toDevice EXCEPT ![i] = Tail(@)]
  /\ UNCHANGED <<busy, toHost>>

--------------------------------------------------------------------------------
(* Sending                                                                   *)

Report(i, p) ==
  /\ busy' = [busy EXCEPT ![i] = TRUE] /\ toHost' = [toHost EXCEPT ![i] = <<p>>]

\* send_next_response_packet
SendNext(i) ==
  /\ serving = NoInterface /\ response[i].active /\ ~ busy[i]
  /\ LET r     == response[i]
         first == r.sent = 0
         data  == SubSeq(r.data, r.sent + 1,
                         Min({Len(r.data), r.sent + IF first THEN InitPayload ELSE ContPayload}))
         left  == Len(r.data) - r.sent - Len(data)
     IN  /\ Report(i, IF first THEN Packet(r.cid, TRUE, r.cmd, Len(r.data), 0, data)
                      ELSE Packet(r.cid, FALSE, "none", 0, r.seq, data))
         /\ response' = [response EXCEPT ![i] =
              IF left = 0 THEN NoReply
              ELSE [r EXCEPT !.sent = @ + Len(data), !.seq = IF first THEN 0 ELSE @ + 1]]
  /\ UNCHANGED <<request, nextChannel, serving, toDevice, served>>

\* tud_task learns that the host has taken the report.
EndpointDone(i) ==
  /\ serving = NoInterface /\ busy[i] /\ toHost[i] = <<>>
  /\ busy' = [busy EXCEPT ![i] = FALSE]
  /\ UNCHANGED <<request, response, nextChannel, serving, toDevice, toHost, served>>

\* ctap_hid_keepalive_up_needed, while a CBOR command waits for the user.
Keepalive(i) ==
  /\ serving = i /\ ~ busy[i]
  /\ Report(i, Packet(request[i].cid, TRUE, "keepalive", 1, 0, <<[of |-> 0, at |-> 2]>>))
  /\ UNCHANGED <<request, response, nextChannel, serving, toDevice, served>>

\* The end of handle_cbor.
FinishCbor(i) ==
  /\ serving = i
  /\ \E n \in AnswerLengths : Reply(i, request[i].cid, "cbor", Answer(request[i], n))
  /\ request' = [request EXCEPT ![i] = Idle]
  /\ serving' = NoInterface
  /\ UNCHANGED <<nextChannel, busy, toDevice, toHost, served>>

Device ==
  \E i \in Interfaces :
    Receive(i) \/ SendNext(i) \/ EndpointDone(i) \/ Keepalive(i) \/ FinishCbor(i)
================================================================================
