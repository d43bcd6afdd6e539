------------------------------ MODULE ManagerHost ------------------------------
(***************************************************************************)
(* The native manager on the formal channel: ManagerChannelBackend in      *)
(* src/native-rs/meowkey-manager/src/transport.rs, over the bulk transfers *)
(* of manager_usb.rs, with the catalog and the slot field of app.rs.       *)
(*                                                                         *)
(* The manager does one operation at a time, an operation sends one        *)
(* command at a time, and a transfer that takes too long fails both.  The  *)
(* device knows nothing of that: what it still answers stays in the pipe.  *)
(***************************************************************************)
EXTENDS ManagerChannel

CONSTANTS
  TransferTimeout, \* TRANSFER_TIMEOUT_MS, in ticks
  Strangers        \* whether other programs use the pipes, too

ASSUME HostConstantsOK == TransferTimeout \in Nat \ {0} /\ Strangers \in BOOLEAN

VARIABLES
  session,  \* the device handle: "none", "open", or "dead" once the device has gone
  cached,   \* ManagerChannelBackend.authorization; `left` is the time to its expiry
  task,     \* the operation in progress: its local variables
  link,     \* the transfer in progress, "writing", "reading" or, in the middle of a
            \* response that goes no further, "joining"; and its age
  listed,   \* the catalog on the screen, as <<slot, credential>> pairs
  \* history
  lost,     \* whether a transfer has timed out, or another program has been there, since
            \* the device was plugged in
  present,  \* the credentials that were in the store throughout the fetch in progress
  removed   \* whether one was deleted since the catalog was fetched, since the fetch began

host == <<session, cached, task, link, listed, lost, present, removed>>
vars == <<device, host>>

NoToken == [token |-> 0, perms |-> {}, left |-> 0]
NoTask  == [op |-> "none"]
NoLink  == [phase |-> "idle", age |-> 0]
Garbage == [cmd |-> "garbage", status |-> "ok", body |-> <<>>, cut |-> FALSE]

HostInit ==
  /\ session = "none" /\ cached = NoToken
  /\ task = NoTask /\ link = NoLink /\ listed = {}
  /\ lost = FALSE /\ present = {} /\ removed = [listed |-> FALSE, fetch |-> FALSE]

--------------------------------------------------------------------------------
(* send_manager_command                                                      *)

Request(cmd, token, cursor, slot, perms) ==
  [cmd |-> cmd, token |-> token, cursor |-> cursor, slot |-> slot, perms |-> perms, sized |-> TRUE]

\* The operation goes on with task t, which waits for the answer to its request.
Send(t) == task' = t /\ link' = [phase |-> "writing", age |-> 0]
Stop    == task' = NoTask /\ link' = NoLink

\* History: `present` is of the fetch in progress, if there is one.
Watch == present' = IF task' = NoTask THEN {} ELSE present

\* The device takes one request at a time, and none while it is inside tud_vendor_rx_cb.
CanWrite == out = NoRequest /\ waiting.for # "authorize"

Write ==
  /\ link.phase = "writing" /\ CanWrite
  /\ out' = task.request
  /\ link' = [phase |-> "reading", age |-> 0]
  /\ UNCHANGED <<build, slots, auth, waiting, inp, added, issued, plugs, grant>>
  /\ UNCHANGED <<session, cached, task, listed, lost, present, removed>>

\* There is something for the transfer in progress.
CanGoOn == (link.phase = "writing" /\ CanWrite) \/ (link.phase \in {"reading", "joining"} /\ inp # <<>>)

TimesOut == link.phase # "idle" /\ link.age = TransferTimeout

\* The transfer fails, and the operation with it.
GiveUp ==
  /\ TimesOut /\ ~ CanGoOn
  /\ Stop
  /\ lost' = TRUE
  /\ session' = IF task.op = "connect" THEN "none" ELSE session
  /\ UNCHANGED device /\ UNCHANGED <<cached, listed, removed>> /\ Watch

--------------------------------------------------------------------------------
(* Authorizations                                                            *)

Usable(p) == cached.token # 0 /\ cached.left > 0 /\ p \in cached.perms

\* resolve_cached_authorization: an authorization that does not serve is dropped.
Resolve(p) == IF Usable(p) THEN cached ELSE NoToken

\* The operation asks for permission p first, when it has no token for it.
Authorized(t, p, request) ==
  /\ cached' = Resolve(p)
  /\ IF Usable(p) THEN Send([t EXCEPT !.step = "command", !.request = request])
     ELSE Send([t EXCEPT !.step = "authorize", !.request = Request("authorize", 0, 0, 0, {p})])

Task(op) == [op |-> op, step |-> "command", request |-> NoRequest, cursor |-> 0,
             items |-> {}, slot |-> 0, again |-> FALSE]

\* build_credential_page_payload
PageRequest(cursor) == Request("summaries", Resolve("credential_read").token, cursor, 0, {})

DeleteRequest(token, slot) == Request("delete", token, 0, slot, {})
WriteUpRequest(token)      == Request("write_up", token, 0, 0, {})

--------------------------------------------------------------------------------
(* Operations                                                                *)

Ready == session = "open" /\ task = NoTask

Begin == UNCHANGED <<device, session, listed, lost>>

\* get_formal_credential_catalog, from its first page
FetchWith ==
  /\ cached' = Resolve("credential_read")
  /\ Send([Task("catalog") EXCEPT !.request = PageRequest(0)])
  /\ present' = Stored /\ removed' = [removed EXCEPT !.fetch = FALSE]

Connect ==
  /\ session = "none" /\ task = NoTask
  /\ Send([Task("connect") EXCEPT !.request = Request("snapshot", 0, 0, 0, {})])
  /\ Begin /\ UNCHANGED <<cached, present, removed>>

\* disconnect, and a dead handle dropped by it; the screen is reset.
Disconnect ==
  /\ session # "none" /\ task = NoTask
  /\ session' = "none" /\ cached' = NoToken /\ listed' = {}
  /\ UNCHANGED device /\ UNCHANGED <<task, link, lost, present, removed>>

FetchCatalog == Ready /\ FetchWith /\ Begin

FetchSecurity ==
  /\ Ready
  /\ Send([Task("security") EXCEPT !.request = Request("security", 0, 0, 0, {})])
  /\ Begin /\ UNCHANGED <<cached, present, removed>>

RequestAuthorization ==
  /\ Ready /\ ~ Usable("credential_read")
  /\ Authorized(Task("authorize"), "credential_read", NoRequest)
  /\ Begin /\ UNCHANGED <<present, removed>>

\* ensure_write_policy: formal writes are for builds without Debug HID.
DeleteSlot ==
  /\ Ready /\ ~ build.debugHid
  /\ \E s \in Slots :
       Authorized([Task("delete") EXCEPT !.slot = s], "credential_write",
                  DeleteRequest(cached.token, s))
  /\ Begin /\ UNCHANGED <<present, removed>>

WriteUserPresence ==
  /\ Ready /\ ~ build.debugHid
  /\ Authorized(Task("write_up"), "user_presence_write", WriteUpRequest(cached.token))
  /\ Begin /\ UNCHANGED <<present, removed>>

--------------------------------------------------------------------------------
(* Answers                                                                   *)

\* What is left in the pipe.  The transfer that brings the end of a response may carry
\* off what follows it: the next response whole, or the beginning of it.
Rest == {Tail(inp)} \cup
        (IF Len(inp) > 1 THEN {Tail(Tail(inp)), <<Garbage>> \o Tail(Tail(inp))} ELSE {})

\* The authorization is there: the operation goes on to its command.
GoOn(token) ==
  CASE task.op = "authorize" -> Stop
    [] task.op = "catalog"   ->
         Send([task EXCEPT !.step = "command", !.again = TRUE,
                           !.request = Request("summaries", token, task.cursor, 0, {})])
    [] task.op = "delete"    ->
         Send([task EXCEPT !.step = "command", !.request = DeleteRequest(token, task.slot)])
    [] task.op = "write_up"  ->
         Send([task EXCEPT !.step = "command", !.request = WriteUpRequest(token)])

\* A page resolves the new authorization as it did the old one (build_credential_page_payload):
\* one that does not give credential_read is dropped, and the page asked for without.
Kept(authorization) ==
  IF task.op = "catalog" /\ "credential_read" \notin authorization.perms THEN NoToken
  ELSE authorization

HearAuthorization(r) ==
  /\ task.step = "authorize"
  /\ IF r.status = "ok"
     THEN /\ cached' = Kept([token |-> r.body.token, perms |-> r.body.perms, left |-> TTL])
          /\ GoOn(cached'.token)
     ELSE Stop /\ UNCHANGED cached
  /\ UNCHANGED <<session, listed, removed>> /\ Watch

\* Mutant: a page is tried again as often as it is refused.
MayAlwaysRetry == TRUE

MayRetry == ~ task.again

\* A page asks for authorization: once, for the same page again.
HearRefusal(r) ==
  /\ task.op = "catalog" /\ task.step = "command" /\ r.status = "auth_required"
  /\ IF ~ MayRetry THEN Stop /\ UNCHANGED cached
     ELSE /\ cached' = Resolve("credential_read")
          /\ IF Usable("credential_read") THEN GoOn(cached.token)
             ELSE Send([task EXCEPT !.step = "authorize",
                          !.request = Request("authorize", 0, 0, 0, {"credential_read"})])
  /\ UNCHANGED <<session, listed, removed>> /\ Watch

HearPage(r) ==
  /\ task.op = "catalog" /\ task.step = "command" /\ r.status = "ok"
  /\ LET items == task.items \cup r.body.items
     IN  IF ~ r.body.more
         THEN /\ Stop /\ listed' = items
              /\ removed' = [removed EXCEPT !.listed = removed.fetch]
              /\ UNCHANGED cached
         ELSE IF r.body.next <= task.cursor
              THEN Stop /\ UNCHANGED <<cached, listed, removed>>
              ELSE /\ cached' = Resolve("credential_read")
                   /\ Send([task EXCEPT !.cursor = r.body.next, !.items = items,
                              !.again = FALSE, !.request = PageRequest(r.body.next)])
                   /\ UNCHANGED <<listed, removed>>
  /\ UNCHANGED session /\ Watch

\* Any other answer; after a successful deletion the catalog is fetched anew, after a
\* write to the user presence the security state.
HearOther(r) ==
  /\ task.op # "catalog" /\ task.step = "command"
  /\ session' = IF task.op = "connect" THEN (IF r.status = "ok" THEN "open" ELSE "none")
                ELSE session
  /\ CASE task.op = "delete" /\ r.status = "ok"   -> FetchWith
       [] task.op = "write_up" /\ r.status = "ok" ->
            /\ Send([Task("security") EXCEPT !.request = Request("security", 0, 0, 0, {})])
            /\ UNCHANGED <<cached, present, removed>>
       [] OTHER -> Stop /\ Watch /\ UNCHANGED <<cached, removed>>
  /\ UNCHANGED listed

\* parse_manager_response
IsAnswer(r) == r.cmd = task.request.cmd

Mismatch ==
  /\ Stop
  /\ session' = IF task.op = "connect" THEN "none" ELSE session
  /\ UNCHANGED <<cached, listed, removed>> /\ Watch

Read ==
  /\ link.phase = "reading" /\ inp # <<>> /\ ~ Head(inp).cut
  /\ inp' \in Rest
  /\ LET r == Head(inp)
     IN  \/ ~ IsAnswer(r) /\ Mismatch
         \/ IsAnswer(r) /\ HearAuthorization(r)
         \/ IsAnswer(r) /\ HearRefusal(r)
         \/ IsAnswer(r) /\ HearPage(r)
         \/ IsAnswer(r) /\ HearOther(r)
  /\ UNCHANGED <<build, slots, auth, waiting, out, added, issued, plugs, grant, lost>>

\* The beginning of a response, or the end of one, is in the buffer, and its length says,
\* or seems to say, that there is more: the next transfer is to bring it.
ReadPart ==
  /\ link.phase \in {"reading", "joining"} /\ inp # <<>>
  /\ link.phase = "reading" => Head(inp).cut \/ Head(inp) = Garbage
  /\ inp' = Tail(inp) /\ link' = [phase |-> "joining", age |-> 0]
  /\ UNCHANGED <<build, slots, auth, waiting, out, added, issued, plugs, grant>>
  /\ UNCHANGED <<session, cached, task, listed, lost, present, removed>>

\* What comes completes it; a header in the middle of the JSON is none.
ReadJoined ==
  /\ link.phase = "joining" /\ inp # <<>>
  /\ inp' \in {Tail(inp), <<Garbage>> \o Tail(inp)}
  /\ Mismatch
  /\ UNCHANGED <<build, slots, auth, waiting, out, added, issued, plugs, grant, lost>>

--------------------------------------------------------------------------------
(* The system                                                                *)

\* Another program has the device open while the manager has not: it asks for what it may
\* not have, or badly, and leaves the answer in the pipe.  Bound: it comes once, before
\* anything is lost, and after the last unplugging, which empties the pipes.
StrangeRequests ==
  {Request("authorize", 0, 0, 0, perms) : perms \in {{}, Permissions}}
    \cup {Request("delete", issued, 0, 1, {}), Request("unknown", 0, 0, 0, {}),
          [Request("ping", 0, 0, 0, {}) EXCEPT !.sized = FALSE]}

Stranger ==
  /\ Strangers /\ session = "none" /\ task = NoTask /\ CanWrite
  /\ ~ lost /\ lost' = TRUE /\ plugs = MaxPlugs
  /\ out' \in StrangeRequests
  /\ UNCHANGED <<build, slots, auth, waiting, inp, added, issued, plugs, grant>>
  /\ UNCHANGED <<session, cached, task, link, listed, present, removed>>

HostStep ==
  \/ Write \/ Read \/ ReadPart \/ ReadJoined \/ GiveUp
  \/ Stranger \/ Connect \/ Disconnect
  \/ FetchCatalog \/ FetchSecurity \/ RequestAuthorization \/ DeleteSlot \/ WriteUserPresence

\* What the device does leaves the manager alone; the history notes what it deletes.
DeviceAlone ==
  /\ DeviceStep
  /\ present' = present \cap Stored'
  /\ removed' = IF Stored \subseteq Stored' THEN removed ELSE [listed |-> TRUE, fetch |-> TRUE]
  /\ UNCHANGED <<session, cached, task, link, listed, lost>>

\* Mutant: nobody tells the operation.
GoneUnnoticed ==
  /\ Unplug
  /\ session' = IF session = "none" THEN "none" ELSE "dead"
  /\ lost' = FALSE
  /\ UNCHANGED <<cached, task, link, listed, present, removed>>

\* The device goes, and the transfer in progress fails.
Gone ==
  /\ Unplug
  /\ Stop
  /\ session' = IF session = "none" THEN "none" ELSE "dead"
  /\ lost' = FALSE
  /\ UNCHANGED <<cached, listed, removed>> /\ Watch

Tick ==
  /\ ChannelTick
  /\ ~ TimesOut /\ ~ CanGoOn
  /\ link' = IF link.phase = "idle" THEN link ELSE [link EXCEPT !.age = @ + 1]
  /\ cached' = IF cached.left > 0 THEN [cached EXCEPT !.left = @ - 1] ELSE cached
  /\ UNCHANGED <<session, task, listed, lost, present, removed>>

Init == ChannelInit /\ HostInit

Next == DeviceAlone \/ HostStep \/ Gone \/ Tick

Spec == Init /\ [][Next]_vars

--------------------------------------------------------------------------------
(* Properties                                                                *)

\* The types.
TypeOK ==
  /\ build \in Builds /\ slots \in [Slots -> 0 .. Capacity + MaxAdds]
  /\ auth.token \in 0 .. issued /\ auth.perms \subseteq Permissions
  /\ waiting.for \in {"nothing", "authorize", "ctap"} /\ waiting.age \in 0 .. UpTimeout
  /\ waiting.for = "authorize" => out.cmd = "authorize"
  /\ session \in {"none", "open", "dead"} /\ (session = "dead" => task = NoTask)
  /\ cached.left \in 0 .. TTL
  /\ task # NoTask <=> link.phase \in {"writing", "reading", "joining"}
  /\ link.age \in 0 .. TransferTimeout
  /\ Len(inp) <= PipeDepth

\* As long as no transfer has timed out and no other program has been there, nothing is in
\* the pipe but the answer the manager reads for, and all of it; so nothing that was
\* answered is lost for want of room, and nothing is read as what it is not.
AnswersAreWhole ==
  ~ lost /\ inp # <<>> =>
    /\ link.phase = "reading" /\ Len(inp) = 1
    /\ Head(inp).cmd = task.request.cmd /\ ~ Head(inp).cut

\* A catalog that was fetched shows every credential that was in the store all the
\* while, however many were registered between its pages, as long as no transfer has
\* timed out since the device was plugged in and no other program has been there.
CatalogIsComplete ==
  [][task.op = "catalog" /\ task' = NoTask /\ inp' # inp /\ session' = "open"
       /\ Head(inp).cmd = "summaries" /\ Head(inp).status = "ok" /\ ~ Head(inp).body.more /\ ~ lost
       => present \subseteq {entry[2] : entry \in listed'}]_vars

\* Deleting by slot deletes the credential that the catalog shows there, as long as the
\* catalog is younger than the deletion before: even when answers came late, and from
\* what another program asked for.
DeletesWhatIsListed ==
  [][\A s \in Slots, c \in Stored :
       /\ ~ build.debugHid /\ ~ removed.listed
       /\ slots[s] = c /\ slots'[s] = Free /\ s \in {entry[1] : entry \in listed}
       => <<s, c>> \in listed]_vars

\* How far an operation has come: a write before the reading that follows it, a page
\* before the next, a page before its authorization and that before the second attempt.
Rank(t) ==
  (IF t.op \in {"delete", "write_up"} THEN 0 ELSE 3) + 3 * t.cursor
    + (IF t.step = "authorize" THEN 1 ELSE IF t.again \/ t.op # "catalog" THEN 2 ELSE 0)

\* No operation goes round in circles: the command it sends next is further on than the
\* last, and a store has no more pages than slots.  Transfers end, by their timeout if
\* nothing else; so does the operation, whatever the device answers and the user does.
OperationsAdvance ==
  [][task # NoTask /\ link.phase = "reading" /\ link'.phase = "writing"
       => Rank(task') > Rank(task) /\ task'.cursor <= Capacity]_vars

\* "the device asks for local user presence, then grants a short-lived token": a user
\* who confirms in time grants it to a manager that is there to take it, where no other
\* program asks.
GrantReachesHost ==
  [][~ Strangers /\ issued' > issued =>
       task.op # "none" /\ task.step = "authorize" /\ link.phase = "reading"]_vars
================================================================================
