----------------------------- MODULE ManagerChannel -----------------------------
(***************************************************************************)
(* The formal management channel of the device:                            *)
(* src/src/manager_channel.c, on a USB bulk pipe in each direction.        *)
(*                                                                         *)
(* A request is handled whole in tud_vendor_rx_cb.  AUTHORIZE waits for    *)
(* the user there, with the main loop standing still; so does a CTAP       *)
(* command.  Meanwhile only time passes.                                   *)
(*                                                                         *)
(* Abstractions.  A credential is its identity.  The JSON of a response is *)
(* what a host reads from it; how many summaries fit a page depends on     *)
(* their text and is left open, but one fits at least.  The write commands *)
(* for the user presence are one: UserPresence.tla has their effects.      *)
(***************************************************************************)
EXTENDS Integers, Sequences, FiniteSets, SequencesExt

CONSTANTS
  Held,        \* the sets of slots that may be in use at the start
  Capacity,    \* slots of the credential store
  PageLimit,   \* MEOWKEY_MANAGER_CREDENTIAL_PAGE_MAX_LIMIT
  TTL,         \* MEOWKEY_MANAGER_AUTH_TTL_MS, in ticks
  ClockPeriod, \* board_millis is a uint32_t: 2^32 ms, in ticks
  UpTimeout,   \* request_timeout_ms of the user presence, in ticks
  Builds,      \* [debugHid, guarded]: MEOWKEY_ENABLE_DEBUG_HID and
               \* MEOWKEY_MANAGER_REQUIRE_AUTH_FOR_SUMMARIES
  PipeDepth,   \* bound on responses in CFG_TUD_VENDOR_TX_BUFSIZE
  MaxAdds,     \* bound on credentials registered
  MaxTokens,   \* bound on tokens issued
  MaxPlugs     \* bound on times the device is unplugged

ASSUME ChannelConstantsOK ==
  /\ {Capacity, PageLimit, PipeDepth, TTL, UpTimeout} \subseteq Nat \ {0}
  /\ ClockPeriod \in Nat /\ TTL < ClockPeriod
  /\ {MaxAdds, MaxTokens, MaxPlugs} \subseteq Nat
  /\ \A held \in Held : held \subseteq 0 .. Capacity - 1
  /\ Builds \subseteq [debugHid : BOOLEAN, guarded : BOOLEAN]

VARIABLES
  build,   \* the build of the firmware
  slots,   \* the credential in each slot of the store
  auth,    \* s_auth_state; `since` is board_millis() - issued_at_ms
  waiting, \* what the main loop waits for the user for, and for how long already
  out,     \* the request in the bulk OUT endpoint, or NoRequest
  inp,     \* the responses in the bulk IN pipe
  added, issued, plugs, \* counters: credentials, tokens, unplugs
  grant    \* history: the user's last confirmation since the device was plugged in

device == <<build, slots, auth, waiting, out, inp, added, issued, plugs, grant>>

Slots       == 0 .. Capacity - 1
Free        == 0
NoRequest   == [cmd |-> "none"]
NoAuth      == [active |-> FALSE, token |-> 0, perms |-> {}, since |-> 0]
NoWait      == [for |-> "nothing", age |-> 0]
NoGrant     == [token |-> 0, perms |-> {}, age |-> 0]
Permissions == {"credential_read", "credential_write", "user_presence_write"}

Occupied == {s \in Slots : slots[s] # Free}
Stored   == {slots[s] : s \in Occupied}

\* The requests that are read: the lengths are the command's (`sized`), and permissions are
\* asked for, none but those there are.
Commands  == {"snapshot", "ping", "summaries", "security", "authorize", "delete", "write_up"}
Parses(q) == q.sized /\ (q.cmd = "authorize" => q.perms # {} /\ q.perms \subseteq Permissions)

\* What a command needs, when it needs a permission.
Needs(cmd) ==
  CASE cmd = "summaries" -> "credential_read"
    [] cmd = "delete"    -> "credential_write"
    [] cmd = "write_up"  -> "user_presence_write"
    [] OTHER             -> "nothing"

ChannelInit ==
  /\ build \in Builds
  /\ \E held \in Held : slots = [s \in Slots |-> IF s \in held THEN s + 1 ELSE Free]
  /\ auth = NoAuth /\ waiting = NoWait
  /\ out = NoRequest /\ inp = <<>>
  /\ added = 0 /\ issued = 0 /\ plugs = 0
  /\ grant = NoGrant

--------------------------------------------------------------------------------
(* manager_auth_*                                                            *)

\* Mutant: tokens do not run out.
ActiveForever == auth.active

IsActive == auth.active /\ auth.since <= TTL

Verify(token, p) == IsActive /\ p \in auth.perms /\ token = auth.token

\* What manager_auth_is_active leaves behind
Checked == IF IsActive THEN auth ELSE NoAuth

\* send_response.  The transmit FIFO is as long as the longest response, so that it takes
\* any response when it is empty; else what does not fit is lost, all of it or its end.
Respond(cmd, status, body) ==
  \/ inp # <<>> /\ inp' = inp
  \/ \E cut \in BOOLEAN :
       /\ cut => inp # <<>>
       /\ Len(inp) < PipeDepth
       /\ inp' = Append(inp, [cmd |-> cmd, status |-> status, body |-> body, cut |-> cut])

Idle == waiting = NoWait

\* Mutant: the request is not flushed, and handled again.
HandleUnflushed(cmd) == Idle /\ out.cmd = cmd /\ Parses(out) /\ UNCHANGED out

Handle(cmd) == Idle /\ out.cmd = cmd /\ Parses(out) /\ out' = NoRequest

\* A request of no command of the device, or not well made.
Refuse ==
  /\ Idle /\ out # NoRequest
  /\ \/ out.cmd \notin Commands /\ Respond(out.cmd, "unsupported_command", <<>>)
     \/ out.cmd \in Commands /\ ~ Parses(out) /\ Respond(out.cmd, "invalid_request", <<>>)
  /\ out' = NoRequest
  /\ UNCHANGED <<build, slots, auth, waiting, added, issued, plugs, grant>>

\* The names of a build and of its board may be too long for the buffer; what the other
\* commands answer fits it, whatever is stored, and so does one summary on a page.
HandleQuery ==
  \E cmd \in {"snapshot", "ping", "security"} :
    /\ Handle(cmd)
    /\ \/ Respond(cmd, "ok", build)
       \/ cmd # "ping" /\ Respond(cmd, "internal_error", <<>>)
    /\ UNCHANGED <<build, slots, auth, waiting, added, issued, plugs, grant>>

--------------------------------------------------------------------------------
(* build_credential_summaries_json                                           *)

\* The number of a credential in the catalog, which is in slot order
Ordinal(s) == Cardinality({t \in Occupied : t < s})

\* Mutant: summaries are numbered by their place in the catalog.
ItemByOrdinal(s) == <<Ordinal(s), slots[s]>>

Item(s) == <<s, slots[s]>>

\* Mutant: there is more as long as the page is full.
MoreIfFull(cursor, returned) == returned = PageLimit

HasMore(cursor, returned) == cursor + returned < Cardinality(Occupied)

\* The page from `cursor` on, with the first `fits` of the summaries left
Page(cursor, fits) ==
  LET shown    == {s \in Occupied : cursor <= Ordinal(s) /\ Ordinal(s) < cursor + fits}
      returned == Cardinality(shown)
  IN  [items |-> {Item(s) : s \in shown},
       next  |-> cursor + returned,
       more  |-> HasMore(cursor, returned)]

HandleSummaries ==
  /\ Handle("summaries")
  /\ IF build.guarded /\ ~ Verify(out.token, "credential_read")
     THEN Respond("summaries", "auth_required", <<>>)
     ELSE \E fits \in 1 .. PageLimit : Respond("summaries", "ok", Page(out.cursor, fits))
  /\ auth' = IF build.guarded /\ out.token # 0 THEN Checked ELSE auth
  /\ UNCHANGED <<build, slots, waiting, added, issued, plugs, grant>>

--------------------------------------------------------------------------------
(* The commands behind an authorization                                      *)

HandleAuthorize ==
  /\ Idle /\ out.cmd = "authorize" /\ Parses(out)
  /\ waiting' = [for |-> "authorize", age |-> 0]
  /\ UNCHANGED <<build, slots, auth, out, inp, added, issued, plugs, grant>>

Confirmed ==
  /\ waiting.for = "authorize" /\ issued < MaxTokens
  /\ waiting' = NoWait /\ out' = NoRequest
  /\ issued' = issued + 1
  /\ auth'  = [active |-> TRUE, token |-> issued', perms |-> out.perms, since |-> 0]
  /\ grant' = [token |-> issued', perms |-> out.perms, age |-> 0]
  /\ Respond("authorize", "ok", [token |-> issued', perms |-> out.perms])
  /\ UNCHANGED <<build, slots, added, plugs>>

Unconfirmed ==
  /\ waiting.for = "authorize" /\ waiting.age = UpTimeout
  /\ waiting' = NoWait /\ out' = NoRequest
  /\ Respond("authorize", "confirmation_required", <<>>)
  /\ UNCHANGED <<build, slots, auth, added, issued, plugs, grant>>

\* A deletion; the store may have nothing in the slot, or fail to write it.
HandleDelete ==
  /\ Handle("delete")
  /\ auth' = Checked
  /\ IF ~ Verify(out.token, "credential_write")
     THEN Respond("delete", "auth_required", <<>>) /\ UNCHANGED slots
     ELSE \/ /\ out.slot \in Occupied
             /\ slots' = [slots EXCEPT ![out.slot] = Free]
             /\ Respond("delete", "ok", out.slot)
          \/ Respond("delete", "invalid_request", <<>>) /\ UNCHANGED slots
  /\ UNCHANGED <<build, waiting, added, issued, plugs, grant>>

\* SET_USER_PRESENCE_PERSISTED, SET_USER_PRESENCE_SESSION, CLEAR_USER_PRESENCE_SESSION
HandleWriteUp ==
  /\ Handle("write_up")
  /\ auth' = Checked
  /\ IF ~ Verify(out.token, "user_presence_write")
     THEN Respond("write_up", "auth_required", <<>>)
     ELSE \E status \in {"ok", "invalid_request"} : Respond("write_up", status, <<>>)
  /\ UNCHANGED <<build, slots, waiting, added, issued, plugs, grant>>

--------------------------------------------------------------------------------
(* The rest of the firmware                                                  *)

\* A CTAP command that waits for the user begins, and ends: with a credential in the
\* first free slot (meowkey_store_add_credential), or without.
CtapBegin ==
  /\ Idle
  /\ waiting' = [for |-> "ctap", age |-> 0]
  /\ UNCHANGED <<build, slots, auth, out, inp, added, issued, plugs, grant>>

IsFirstFree(s) == s \in Slots \ Occupied /\ \A t \in Slots \ Occupied : s <= t

CtapEnd ==
  /\ waiting.for = "ctap"
  /\ waiting' = NoWait
  /\ \/ UNCHANGED <<slots, added>>
     \/ /\ added < MaxAdds /\ added' = added + 1
        /\ \E s \in Slots : IsFirstFree(s) /\ slots' = [slots EXCEPT ![s] = Capacity + added']
  /\ UNCHANGED <<build, auth, out, inp, issued, plugs, grant>>

\* Debug HID's "clear credentials"
DebugClear ==
  /\ Idle /\ build.debugHid /\ Occupied # {}
  /\ slots' = [s \in Slots |-> Free]
  /\ UNCHANGED <<build, auth, waiting, out, inp, added, issued, plugs, grant>>

\* tud_umount_cb, or a loss of power: meowkey_manager_init, and empty pipes.  A callback
\* that comes during a wait runs right after it, with the same result.
Unplug ==
  /\ plugs < MaxPlugs /\ plugs' = plugs + 1
  /\ auth' = NoAuth /\ waiting' = NoWait /\ out' = NoRequest /\ inp' = <<>>
  /\ grant' = NoGrant
  /\ UNCHANGED <<build, slots, added, issued>>

\* A tick of the clock.  What the device can do it does before the next one.
ChannelTick ==
  /\ Idle => out = NoRequest
  /\ waiting.age < UpTimeout
  /\ waiting' = IF Idle THEN waiting ELSE [waiting EXCEPT !.age = @ + 1]
  /\ auth'  = IF auth.active THEN [auth EXCEPT !.since = (@ + 1) % ClockPeriod] ELSE auth
  /\ grant' = IF grant.token # 0 /\ grant.age < ClockPeriod THEN [grant EXCEPT !.age = @ + 1]
              ELSE grant
  /\ UNCHANGED <<build, slots, out, inp, added, issued, plugs>>

DeviceStep ==
  \/ Refuse \/ HandleQuery \/ HandleSummaries \/ HandleAuthorize \/ HandleDelete \/ HandleWriteUp
  \/ Confirmed \/ Unconfirmed
  \/ CtapBegin \/ CtapEnd \/ DebugClear

IsResponses(s) == s \in Seq({s[n] : n \in 1 .. Len(s)})

\* Whatever programs there are on the other end of the pipes: they write requests, but
\* for the one that is being handled, and take responses.
AnyHost ==
  /\ IsResponses(inp') /\ Len(inp') <= Len(inp) /\ (waiting.for = "authorize" => out' = out)
  /\ UNCHANGED <<build, slots, auth, waiting, added, issued, plugs, grant>>

\* The device by itself, with any host.
ChannelSpec == ChannelInit /\ [][DeviceStep \/ Unplug \/ ChannelTick \/ AnyHost]_device

--------------------------------------------------------------------------------
(* Properties                                                                *)

\* The request shows the token of the user's last confirmation, in its time, for p.
Granted(p) ==
  /\ out.token = grant.token /\ p \in grant.perms
  /\ grant.age <= TTL \/ grant.age = ClockPeriod

AnswerIsGranted ==
  Len(inp') > Len(inp) =>
    LET r == Last(inp')
    IN  r.status = "ok" /\ Needs(r.cmd) # "nothing" /\ (r.cmd = "summaries" => build.guarded)
          => Granted(Needs(r.cmd))

DeletionIsGranted ==
  ~ build.debugHid /\ ~ (Stored \subseteq Stored') => Granted("credential_write")

\* A command that needs a permission succeeds only with the token of the user's last
\* confirmation, made for that permission since the device was plugged in and no longer
\* ago than the token lives ("short-lived permission token"); a clock that went all the
\* way round between two checks is not told from a young one.  So does what it does: no
\* credential goes from a build without Debug HID but so, answered or not.
PrivilegesAreGranted == [][AnswerIsGranted /\ DeletionIsGranted]_device
================================================================================
