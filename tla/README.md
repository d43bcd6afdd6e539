# MeowKey in TLA+

MeowKey is a FIDO2 authenticator for RP2350 boards: firmware in C (`src/`), a native manager in
Rust (`native-rs/meowkey-manager/`), a WinUI manager in C# (`windows/gui/`) and a debug page
(`gui/`). This directory holds TLA+ modules translated from that code, TLC configurations that
check them on small instances, and proofs that TLAPS checks for every value of the constants.
Paths below are relative to the repository; `PROJECT.json` maps every definition to the lines
it stands for.

## The system

The firmware is one loop (`main.c:114`): `tud_task` delivers USB events to callbacks, and
`ctap_hid_task` sends what is queued. Nothing is preempted except by a power loss. A command that
needs the user polls a button inside its own callback, so the rest of the firmware waits with
it; only keepalives are sent meanwhile.

| part | state | operations | hard about it |
|---|---|---|---|
| credential store, `credential_store.c` | one RAM image; two flash slots written in turn with generation and CRC; a journal of sign counts bound to an image; images of formats 1 to 5 | boot (choose, import, sanitize, replay), add, delete, clear, set PIN, set user presence, update a count | power loss between any two flash operations, verifications that fail, builds of different trust over one flash |
| PIN protocol, `client_pin.c` | the PIN record in the store; a token, its age and the key agreement in RAM | the subcommands of authenticatorClientPIN, verification of a token | a guess must cost a retry whatever fails or loses power; the clock wraps |
| CTAPHID, `ctap_hid.c` | per interface: a request being put together, a response being sent; a channel counter | one handler per report, one packet out per turn | several programs share an interface, and only a channel id tells them apart |
| commands, `webauthn.c`, with the CBOR reader `cbor.c` | the credentials; the pending enumeration, with the request it stems from; the last confirmation | makeCredential, getAssertion, getNextAssertion, and a parser for each | entries come in any order, and an entry that is skipped or left half-read misplaces the rest; credentials, tokens and the PIN change between two commands; a confirmation may serve one retry |
| user presence, `user_presence.c` | four copies of the configuration; a gesture in progress | wait, set, set for the session, clear, reload | gestures against windows and timeouts, on a clock that wraps |
| management channel, `manager_channel.c` | an authorization: token, permissions, age | queries, AUTHORIZE, paged catalog, deletion, user-presence writes, refusals | the catalog changes between pages; a token expires or dies with the plug; a response may find no room, or room for a part of it |
| native manager, `transport.rs`, `manager_usb.rs`, `app.rs` | a handle, a cached authorization, the catalog on the screen | one operation at a time, one transfer at a time | timeouts, answers that come after them, and answers to another program |
| Debug HID backend, `transport.rs` | a channel | CBOR and diagnostic commands | keepalives between a command and its answer |

How they interact. CTAPHID hands CBOR commands to `ctap2.c`, which calls the commands and the PIN
protocol; both call the store and the user presence. The management channel calls the store and
the user presence directly, beside CTAPHID, so a credential may vanish between two commands and
appear between two pages. The managers talk to the management channel over bulk transfers and
to Debug HID over reports. The store is the only thing that persists.

What makes each part correct: the store survives any crash with the old image or the new one,
never a mixture, and nothing it has acknowledged is lost; guesses never outnumber retries; a
message is served whole or not at all and answered to the program that sent it; an enumeration
delivers what it announced; a confirmation is a whole gesture, made after it was asked for and
used as often as the code says; a request is read as what it
says, and its operation is marked as verified exactly when it showed the token then in force; a privileged command is backed by a confirmation of its own; the
manager shows and deletes what is there.

## The modules

| module | models | composes or checks |
|---|---|---|
| `TransactionalStore` | what the store promises: a durable value, a working copy, and steps that commit, abort or lose power | abstract specification |
| `CredentialStore` | `credential_store.c`, one step per flash operation | implements `TransactionalStore` by a refinement mapping |
| `CredentialStoreProofs` | its types, its invariants and the refinement of `TransactionalStore`, proved | |
| `ClientPin` | `client_pin.c` over the record in the store | |
| `ClientPinProofs` | all its properties, proved | |
| `Cbor` | the reader and the skipping of `cbor.c`, over items | |
| `CtapRequests` | the parsers of `webauthn.c` and `client_pin.c` | over `Cbor` |
| `RequestMeaning` | requests, and what each says, defined from its entries | the reference for `CtapRequests` |
| `Authenticator` | how a request becomes a verified operation: parser, token, wait, answer, getNextAssertion | composes `ClientPin` with the parsers |
| `AuthenticatorProofs` | that it implements `ClientPin`, and `VerifiedIsEarned`, proved | extends `ClientPinProofs` |
| `CtapHid` | `ctap_hid.c` for any set of interfaces | |
| `CtapHidSystem` | the programs of the host and the operating system between them; external, but for `tud_umount_cb` | composes `CtapHid` |
| `CtapHidProofs` | its types, `ChannelsDistinct` and `RequestsAreWhole`, proved | extends `CtapHidSystem` |
| `CtapAnswerProofs` | `AnswersMatch`, proved | extends `CtapHidProofs` |
| `DebugHidHost` | `send_command` of the Debug HID backend | composes `CtapHid` |
| `WebAuthn` | `webauthn.c` over the slots of the store | |
| `WebAuthnProofs` | all its properties, proved | |
| `UserPresence` | `user_presence.c`, one step per poll, and the four copies of the configuration | |
| `UserPresenceProofs` | all its safety properties, proved | |
| `ManagerChannel` | `manager_channel.c`, and `AnyHost`, which writes and reads as it pleases | `ChannelSpec` is the channel for every host |
| `ManagerHost` | the manager of `transport.rs`, with the transfers of `manager_usb.rs` and the screen of `app.rs` | composes `ManagerChannel`; implements `ChannelSpec` |
| `ManagerProofs` | the authorization theorems, for any host and for the manager; the manager's types, transfers, listings and deletions | |
| `MC*` | values and symmetry for TLC | |

State corresponds to the code's static variables; the comment at each VARIABLE names them. A
variable under "history" or "bookkeeping" has no counterpart in the code: no
step reads one but to bound a run, and they exist to state a property. Actions are
handlers. Where a handler waits, it is two actions: what it does up to the wait and what it does
after it; nothing but the clock, the button and the endpoint moves between them. Next to some definitions stands a
variant marked `Mutant`: a plausible slip in that code. Putting it in the place of the definition makes TLC
report the property that `PROJECT.json` names for it.

### Abstractions

* Bytes. A credential, a PIN or a configuration is a value; CRCs, MACs and ciphers are modelled by what
  they tell apart. In `CredentialStore` a slot validates if its header page, written last, was
  programmed, and a CRC of encrypted bytes differs from that of the same image decrypted: this is
  what the first finding turns on. A torn journal entry may validate, and its count is then no
  lower than what was being written, as programming flash only clears bits. An image of an older format lies
  in slot 0, in the tail of the region, which slot 1 and the journal share, or apart from all of it, and goes when what lies
  over it is erased. What a failed call undoes is field by field what the code puts back.
* Counters over power-ups. The store is of its own module; `WebAuthn` has the slots and whether a write succeeds. A power-up there
  keeps the counters or, as the run StoreCountLost shows that it may, puts one of them back to any lower count
  (`CountersPutBack`; a power-up that puts several back is as many in a row). The count of assertions of that credential starts anew then.
* Clocks. `board_millis` is a `uint32_t`. Clocks count in ticks modulo `ClockPeriod`, so that they wrap
  within every run; windows are one or two ticks.
* Requests. In `Cbor` a message is a sequence of items (a header with its argument and its string), so it can be
  cut between items only. In `CtapRequests` strings keep their length, which decides what is refused. The
  clientPIN requests that are parsed from items use subcommands that change nothing; what the others do is in
  `ClientPin`, over requests already parsed. Protocol and subcommand keep their eight bits. `WebAuthn` keeps the rejection of
  a request as a step, since it ends an enumeration.
* Transfers. In `ManagerChannel` a response is whole, or cut when it finds the pipe not empty, or dropped; the host that
  reads a cut one waits for more and joins it to what comes next. Only the snapshot and the security state, which hold the
  names of the build and of the board, may be too long for the buffer (`internal_error`): the other answers, and one summary of a
  page whatever its names are, fit it.
* Failures. A flash verification, a key generation or a signature fails at will, within a bound.

## The runs

All passing runs search their whole state space. Bounds are CONSTANTS, so that they stand in the
guards and in the theorems alike.

| run | what it asks | bounds, and why they are enough | states |
|---|---|---|---|
| StoreCommit | Does every crash and failed write leave the old image or the new, does success mean durable, does the journal lose, double or misplace a count, and does any flash operation lower one? | two credentials and a PIN: an operation can be undone over a slot it shares, and two slots share the journal; three generations use either slot twice; a journal of two entries fills up and is compacted, with counts up to three for each credential; two crashes hit a commit and the boot that repairs it, or tear an entry and then the compaction | 695k |
| StoreBuilds | Do builds of different trust respect each other, and is there always an image to load? | one credential: what matters is who wrote the configuration; three crashes allow three builds in a row | 427k |
| Authenticator | Can a guess be had for nothing, a token outlive its PIN, an operation be verified without its token, or a request be read as another? | two PINs, three retries, two tokens, one crash and one failed commit between, before or after any of them; a clock of period three, over a lifetime of one, wraps. Requests: a usual one of each command with any two entries replaced or left out, in the rotations of both directions, and each of the usual ones cut or spoilt at every item; they come as the first command, without a PIN and with one just set (`Fresh`), and eleven usual ones at any time | 501k |
| CtapHid | Is a message served whole and answered to its sender? | two programs; messages of three packets; four messages, one for each to open a channel with and one more each, to ask, to resynchronise or to disturb the other with; broadcast is the third id, so the channel counter wraps | 270k |
| WebAuthn | Does an enumeration deliver what it announced, once, does a confirmation serve one retry, and do counters grow unless a power-up puts them back? | three slots, two relying parties, three credentials, counters up to two, which a power-up may put back to zero or one; a pending list and a confirmation that expire after one tick, on a clock of period three: both live, expire, and seem young again when it has wrapped | 5.7M |
| UserPresence | Does only a whole gesture confirm, and every quick one? | gestures of one to three taps from either source, no source at all and a configuration that is not valid; windows and timeouts of a few ticks, polls up to two ticks apart, waits that begin before the clock wraps | 430k |
| Manager | Is everything privileged confirmed; is the catalog complete and the deletion aimed? | three slots in pages of at most two; one registration, two tokens, one unplugging; a timeout shorter than the wait for the user; a pipe of two responses, the second of which may be cut; one request of another program, of five kinds, while the manager is not connected, after the last unplugging | 7.6M |

Deadlock is checked except in CtapHid and DebugHidHost, where the programs may have nothing more
to send. UserPresence and the store need no bound on what they repeat; elsewhere `Max...` bounds
only what the environment starts: credentials made, messages sent, tokens granted, crashes. The
bounds on generations and counts refuse a new operation and never a step of one in progress.

Five runs expect a violation. Each states what the repository's documents say, and TLC finds that the
code does otherwise (`findings` in `PROJECT.json` quotes the line):

* **StoreCountLost**: a power loss between an image and its journal, then a boot, a sign count that is
  acknowledged and another boot: the count is gone. The journal was bound to the CRC of the
  decrypted image (`credential_store.c:1298`), and the next boot compares with that of the encrypted one.
* **StoreMigration**: an image of an older format that lies in the region of slot 0 is erased before its
  successor is written (`credential_store.c:954`); a power loss in between leaves an empty store.
* **RequestsAllowList**: a getAssertion that allows two credentials and has any entry after the list, such as a
  `pinUvAuthParam`, is refused as invalid CBOR: `parse_allow_list` returns at the first id (`webauthn.c:821`) and the next key is
  read from inside the list. `RequestsMeanWhatTheySay` is stated with this in mind (`ShortOrLast`).
* **DebugHidHost**: the Debug HID backend takes a keepalive for the answer (`transport.rs:1493`).
* **ManagerPatience**: the manager gives up on AUTHORIZE after 2 s (`manager_usb.rs:20`), the device waits
  8 s for the user: a confirmation in time grants a token nobody takes, and the manager then reads every answer
  one command late. Two of Manager's properties are stated with this in mind (`lost`); `GrantReachesHost` is stated
  where no other program uses the channel (`Strangers`).

### Fairness

* `CtapHidSystem!SysSpec`: weak fairness of the device's steps (the loop of `main.c` keeps turning, and a
  wait for the user ends with its timeout), of reading a report and of writing one that a program has ready (the
  operating system carries them). No program is obliged to send anything.
* `DebugHidHost!HostSpec` has none: its finding is a reachable state.
* `UserPresence!Spec`: weak fairness of the poll: the loop sleeps a fixed time and polls again. The clock is read by
  the poll itself, so a wait cannot poll forever without time passing.
* `ManagerHost!Spec` has none. That operations end is shown without it: `OperationsAdvance` says that each
  command an operation sends has a higher rank than the one before, and ranks are bounded.

## The proofs

A theorem holds for every value of the constants that satisfies the `ASSUME`s of the component's module; TLC
evaluates those on every run. Each invariant below is stated as far as it is needed to be inductive, and was
found or confirmed with TLC on the component's run first.

**The store.** `CredentialStoreProofs` proves, from `ConstantsOK` alone:

* `TypeCorrect`: `TypeOK` is inductive by itself, one step per action.
* `ActiveBestCorrect`: `ActiveImageIsBest` is inductive with `TypeOK`. At rest it says that RAM's generation is the
  largest in flash; while the other slot is being erased and programmed that slot does not validate, and
  once its header is there its generation is one more than the active one's, at which point the code
  switches over in the same step.
* `HardenedCorrect`: a hardened boot sanitizes whatever it loads, and every setter marks what it writes
  with the build that runs.
  The invariant has to speak of `undo` too, the image an operation falls back to when a write fails.
* `AckedCommitCorrect`: an acknowledged commit is durable, counts included. The invariant follows a commit through
  its phases: after the header the active slot holds the RAM image; after the erasure the journal is empty; hence at the end the replay
  adds nothing, and sanitizing changes nothing because of the second and third theorems.
* `StoreIsTransactional`: `Spec` implements `TransactionalStore`. A header page is the one write that changes what a
  power-up finds, so it is the commit, and every other flash operation a stutter; `HeldInv` says that from there on the
  active slot holds the RAM image. It holds if no old image lies in the slot written first (`"in place" \notin Factory`),
  and so does `ImageSurvives`; the run StoreMigration shows that neither does otherwise.
* `CountCorrect`: every image has its number of credentials right. `CountInv` says so of the images in
  flash and of `undo` as well: any of them may be the next one in RAM.
* `RefusalCorrect`: `JournalInv` says that RAM knows the first blank entry unless an entry was torn or a write failed.
* `BoundCountsCorrect`: what a power-up finds for a credential's count is what RAM has. `CountsInv` says, for each step of an
  update, of a compaction and of a commit, which image a power-up must agree with (the one in RAM, or the one the operation falls back to),
  and in which slot it may differ.
* `DurableCountsCorrect`: no flash operation, whole, failed or torn, lowers the count that a power-up would find, whatever flash the
  device began with. `GrowInv` says that the counts in RAM, and those an operation may fall back to, are never behind
  the flash (`Covers`); that the active image has every credential that RAM has outside a commit (`CredsHeld`), so that an entry is
  an entry of its slot's credential; and that no journal is bound to a generation that is still to come (`HeaderInv`), so that a new
  image is never met by entries of an old one. The journal is thus erased only when a power-up would not replay it or
  its counts are in the image. The finding StoreCountLost does not contradict this: there the counts are acknowledged but were
  never where a power-up finds them.

**PIN.** `ClientPinProofs` proves from `ConstantsOK` the types and all four properties. `GuessesCorrect` and `RetriesCorrect` need
`GuessInv`: the retries in flash and the retries in RAM keep to the bound, as a failed commit leaves them different and a
power-up or a later commit makes them one. `TokenCorrect` and `VerifiedCorrect` need `TokenInv`: the token in force is the last one
issued, and its age is what the clock says until the clock has gone all the way round.
`AuthenticatorProofs` proves `AuthIsClientPin`, that each step of the composition is a step of `ClientPin` or leaves it alone, so that
all its guarantees carry over (`AuthKeepsGuarantees`); and `VerifiedIsEarnedCorrect`, whose invariant makes the same claim of an
operation that waits for the user and of one that is pending, from which answers are made later.

**Commands.** `WebAuthnProofs` proves the types and all four properties. `SlotsInv`: credential numbers are distinct and
below the next one, and the counter in flash is not behind the one released since a power-up last put it back, hence `CountsCorrect`. `CommandInv` and `ListInv`
relate the pending slots to what was announced: the place in the list is the number delivered, and a slot still to be visited holds the
credential announced or nothing, through deletions, clears and the credentials stored in their place; hence `PendingCorrect` and `EnumerationCorrect`.
`GrantInv` relates the armed confirmation to the one it stems from, on a clock that wraps; hence `PresenceCorrect`.
The lists rest on one lemma, `InOrderProperty`: any set of slots can be put in order. `InOrder` is
written as a choice rather than with `SetToSortSeq`, whose recursion the provers cannot see into.

**User presence.** `UserPresenceProofs` proves the types, which bound a wait by its timeout and one poll, and the four safety
properties. `ConfigInv` relates the four copies of the configuration; `PollInv` relates the
counter of taps and the time of the first one to the history of presses: with three taps to make, a first press that is too old
is forgotten only when the next one comes, and the invariant has to allow for it.

**Management channel.** `ManagerProofs` proves, from the assumptions of `ManagerChannel` and `ManagerHost`:

* `AnyHostIsGranted`: `ChannelSpec => PrivilegesAreGranted`, where the host writes any request, well formed or not, and reads
  when it likes. It speaks of answers and of deletions: a deletion whose answer finds no room in the pipe is granted, too. The invariant (`GrantInv`) relates the authorization the device keeps to the confirmation it stems from: same
  token and permissions, and an age that agrees until the clock has gone all the way round.
* `ManagerIsAHost`: every step of the manager is a step of such a host or leaves the channel alone: a refinement with
  the identity mapping.
* `ManagerIsGranted`: hence the property the run checks, for every capacity, page limit and timeout.
* `ManagerTypeCorrect`: the types of device, pipes and manager. A transfer is typed by the operation it serves, from the first command
  of the operation to the answer of the last.
* `AnswersCorrect`: while nothing has been lost, the pipes hold the request of the transfer in progress or its answer and
  nothing else (`AnswersInv`); so the answer finds room, and what is read is that answer, uncut.
* `AdvanceCorrect`: an answer taken moves its operation on. In `PageInv` the command sent is that of the operation
  and step in progress, and a page that announces more has its next cursor below the capacity.
* `DeletesCorrect`: what is deleted is what the screen shows in that slot. Answers of operations that were given up may still come, so
  this holds after losses, too. `PipeInv` bounds them: one at most, and before the one that is awaited. By `TruthInv` the catalog
  shown, the pages fetched and those under way are true until a credential is deleted, and the only deletion that overtakes a page is
  the one the manager waits for. `SlotsInv` has the credentials distinct, and those yet to be registered new.
* `CatalogCorrect`: a finished listing has every credential that was there all the while. By `CoverInv` the pages so far
  have those with numbers below the cursor. A registration between two pages may raise the number of a credential but not lower it
  (`StepsKeep`), so that one may come twice but none is skipped.

**Transport.** `CtapHidProofs` proves three theorems of `CtapHidSystem`, for any interfaces, programs and sizes of packets.
They assume `ConstantsOK` and `AppsOK`: a message has something in it to tell it by, and an INIT request fits one packet and a buffer
(in the code 8 bytes in packets of 57 and buffers of `CTAP_HID_MAX_MESSAGE_SIZE`).

* `HidTypeCorrect`: the types, which keep what is gathered within the announced total and the buffer.
* `ChannelsCorrect`: two programs never have the same channel, until the counter has gone round (`Wrapped`). `WireInv` says that
  what is under way to the device are packets of the messages sent, or cancels. `OpenInv` says that each INIT of the broadcast
  channel is in one place, still to be written, on its way or carried out, so that none is carried out twice;
  `CountInv` that the counter is one more than those carried out. `ClaimsInv` says that each channel given out has
  one claimant, which is the reply being sent, the report to be read or the program that took it: a reply
  nobody waits for any more still claims its channel.
* `RequestsCorrect`: a request carried out is a message that a program sent, whole and on its channel. In `StreamInv`, the
  request being put together is the beginning of a message sent (`Gathered`), and the packet before a continuation on its channel, under way
  or already gathered, is of the same message (`Follows`). It needs `ChannelsCorrect`: with a shared
  channel the code would splice two messages together whenever their sequence numbers fit.

`CtapAnswerProofs` adds the way down:

* `MatchCorrect`: the answer a program takes is the one to its own request, whole, until the counter has gone round. `MineInv`
  says that what a program waits for is what it sent under that number. `AnswersInv` then follows each program through its phases.
  One that is ready or has its answer has nothing on its channel that would still bring an answer (`Quiet`). While one
  waits for an answer, the packets of its own request are all that asks for one, in order (`InOrder`); and as soon as any of
  the answer exists nothing else asks (`Settled`), and the response, the report and what the program has put together
  are consecutive packets of one answer (`Asked`, `Echo`). The INIT a program waits for is in one place and is the last
  on its channel (`Hailed`), so that what it left there before is aborted by the time the reply comes. `OwnedOK` says that
  whatever is on a channel is some program's, hence a channel about to be given out has nothing on it (`GivenUnused`), for
  which the proof needs `ChannelsCorrect`. Of a program that has failed nothing is claimed: it must resynchronize before it
  takes an answer again.

Only model-checked, and why:

* liveness (`RequestsAnswered`, `WaitEnds`), which is beyond the prover;
* `RequestsMeanWhatTheySay`: what the parsers compute for messages of every length is an induction over data, and `Cbor` and
  `CtapRequests` are recursive;
* the findings, each a violation on an instance.

## What is not modelled

* The diagnostics ring: a log that commands show and nothing reads.
* The WinUI manager, a second client of the management channel: what any client can do to the device is proved
  (`AnyHostIsGranted`); its own cache and screen are not modelled. The debug page speaks the protocol of `DebugHidHost`.
* Release updates: a pure function of version strings.
* Board identification, the probe, descriptors and security status read hardware once and report it.
* LEDs, pages, wording, the test harness and scripts have no behaviour a property is about.
* Within the modelled parts: the CBOR writer and the widths of lengths, the hmac-secret output and COSE encodings,
  lookups that change nothing, the bytes of the wrapping and of the simulated secure element, and the preview backend.

## Plan

Every component above is modelled and checked, and every safety property of the passing runs is proved
but `RequestsMeanWhatTheySay`. That one, liveness and the findings stay with TLC for the reasons given under
the proofs.
