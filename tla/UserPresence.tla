------------------------------ MODULE UserPresence ------------------------------
(***************************************************************************)
(* Local confirmation: src/src/user_presence.c, with the configuration it  *)
(* reads from the credential store.                                        *)
(*                                                                         *)
(* wait_for_confirmation polls a button in a loop that keeps everything    *)
(* else of the firmware waiting; a poll is a step.  The configuration in   *)
(* force is the one of the session, if there is one, or the persisted one. *)
(*                                                                         *)
(* Abstractions.  A configuration is what its fields decide: where the     *)
(* signal comes from, how many taps within which window, and for how long. *)
(* The signal is what the polls sample.                                    *)
(***************************************************************************)
EXTENDS Integers, Sequences

CONSTANTS
  Configs,       \* configurations that may be asked for or found in flash
  DefaultConfig, \* the build's
  ClockPeriod,   \* board_millis is a uint32_t: 2^32 ms, in ticks
  Starts,        \* readings of the clock at which a wait begins
  MaxLag         \* ticks between two polls, at most

ASSUME ConstantsOK ==
  /\ DefaultConfig \in Configs /\ DefaultConfig.valid
  /\ ClockPeriod \in Nat \ {0} /\ Starts \subseteq 0 .. ClockPeriod - 1 /\ MaxLag \in Nat \ {0}
  /\ \A c \in Configs : /\ c.valid \in BOOLEAN
                        /\ c.valid => /\ c.source \in {"none", "bootsel", "gpio"}
                                       /\ c.timeout \in Nat /\ c.timeout + MaxLag < ClockPeriod
                                       /\ c.taps \in Nat \ {0} /\ c.window \in Nat

VARIABLES
  flash,     \* the configuration in the store's active image
  storeRam,  \* s_store.data.fixed.user_presence
  persisted, \* s_persisted_config
  session,   \* s_session_config while s_session_config_active, or NoConfig
  cached,    \* s_cached_config
  pulled,    \* s_configured_gpio_pin
  wait,      \* the wait in progress: its local variables
  now,       \* board_millis
  \* history
  refused,   \* the store has refused a configuration since it was last read or written
  seen       \* of the last wait: its samples so far, when presses began, and its outcome

config == <<flash, storeRam, persisted, session, cached, pulled>>
vars   == <<config, wait, now, refused, seen>>

NoConfig == [source |-> "absent"]
NoPin    == -1
NoWait   == [on |-> FALSE, start |-> 0, last |-> FALSE, armed |-> FALSE, taps |-> 0, first |-> 0]

Since(t) == (now - t) % ClockPeriod

\* apply_effective_config and configure_gpio_source
Apply(s, p) ==
  LET c == IF s = NoConfig THEN p ELSE s
  IN  /\ cached' = c
      /\ pulled' = IF c.source = "gpio" THEN c.pin ELSE NoPin

OrDefault(c) == IF c.valid THEN c ELSE DefaultConfig

--------------------------------------------------------------------------------
Init ==
  /\ flash \in Configs /\ storeRam = flash
  /\ persisted = OrDefault(flash) /\ session = NoConfig
  /\ cached = persisted /\ pulled = IF cached.source = "gpio" THEN cached.pin ELSE NoPin
  /\ wait = NoWait /\ now = 0
  /\ refused = FALSE
  /\ seen = [lapse |-> 0, sample |-> FALSE, presses |-> <<>>, outcome |-> "none"]

Quiet == UNCHANGED <<wait, now, seen>>

\* Mutant: what the store holds is not checked.
ReloadUnchecked ==
  /\ ~ wait.on
  /\ persisted' = storeRam
  /\ Apply(session, persisted')
  /\ UNCHANGED <<flash, storeRam, session, refused>> /\ Quiet

\* meowkey_user_presence_init at boot, and again for every snapshot and security state
\* that the manager asks for: the store's copy is read anew.
Reload ==
  /\ ~ wait.on
  /\ persisted' = OrDefault(storeRam)
  /\ Apply(session, persisted')
  /\ UNCHANGED <<flash, storeRam, session, refused>> /\ Quiet

\* A power cycle at any moment.
Reboot ==
  /\ storeRam' = flash /\ persisted' = OrDefault(flash) /\ session' = NoConfig
  /\ Apply(NoConfig, persisted')
  /\ wait' = NoWait /\ refused' = FALSE
  /\ UNCHANGED <<flash, now, seen>>

\* Mutant: the new configuration is in force at once, even during an override.
SetConfigNow(c) ==
  /\ ~ wait.on /\ c.valid
  /\ storeRam' = c
  /\ \/ /\ flash' = c /\ persisted' = c /\ refused' = FALSE
        /\ Apply(NoConfig, c)
     \/ /\ refused' = TRUE /\ UNCHANGED <<flash, persisted, cached, pulled>>
  /\ UNCHANGED session /\ Quiet

\* meowkey_user_presence_set_config, of a valid configuration.  The store writes its
\* RAM image to flash; when that fails, the image keeps the configuration.
SetConfig(c) ==
  /\ ~ wait.on /\ c.valid
  /\ storeRam' = c
  /\ \/ /\ flash' = c /\ persisted' = c /\ refused' = FALSE
        /\ Apply(session, c)
     \/ /\ refused' = TRUE /\ UNCHANGED <<flash, persisted, cached, pulled>>
  /\ UNCHANGED session /\ Quiet

\* Any other commit of the store writes the image as it stands.
OtherCommit ==
  /\ ~ wait.on
  /\ flash' = storeRam
  /\ UNCHANGED <<storeRam, persisted, session, cached, pulled, refused>> /\ Quiet

SetSession(c) ==
  /\ ~ wait.on /\ c.valid
  /\ session' = c
  /\ Apply(c, persisted)
  /\ UNCHANGED <<flash, storeRam, persisted, refused>> /\ Quiet

ClearSession ==
  /\ ~ wait.on /\ session # NoConfig
  /\ session' = NoConfig
  /\ Apply(NoConfig, persisted)
  /\ UNCHANGED <<flash, storeRam, persisted, refused>> /\ Quiet

--------------------------------------------------------------------------------
(* meowkey_user_presence_wait_for_confirmation                               *)

\* Mutant: a button that is already down counts as a press.
ReleasedAt(sample) == [on |-> TRUE, start |-> now', last |-> FALSE, armed |-> TRUE,
                       taps |-> 0, first |-> 0]

Entered(sample) == [on |-> TRUE, start |-> now', last |-> sample, armed |-> ~ sample,
                    taps |-> 0, first |-> 0]

BeginWait ==
  /\ ~ wait.on
  /\ now' \in Starts
  /\ IF cached.source = "none"
     THEN /\ wait' = wait
          /\ seen' = [lapse |-> 0, sample |-> FALSE, presses |-> <<>>, outcome |-> "bypassed"]
     ELSE \E down \in BOOLEAN :
            /\ wait' = Entered(down)
            /\ seen' = [lapse |-> 0, sample |-> down, presses |-> <<>>, outcome |-> "none"]
  /\ UNCHANGED <<config, refused>>

\* Mutant: the time is not looked at before the button has been released.
InTimeOnceArmed == ~ wait.armed \/ Since(wait.start) < cached.timeout

InTime == Since(wait.start) < cached.timeout

\* The head of the loop, once the time has run out.
Timeout ==
  /\ wait.on /\ ~ InTime
  /\ wait' = NoWait
  /\ seen' = [seen EXCEPT !.outcome = "timeout"]
  /\ UNCHANGED <<config, now, refused>>

Edge(down) == wait.armed /\ down /\ ~ wait.last
Late       == Since(wait.first) > cached.window

\* Mutant: a tap that comes too late for the first one is not a first tap either.
TapsWithout(down) ==
  IF Edge(down) THEN (IF wait.taps = 0 THEN 1 ELSE IF Late THEN 0 ELSE wait.taps + 1)
  ELSE IF Late THEN 0 ELSE wait.taps

\* taps_seen after the poll
Taps(down) ==
  IF Edge(down) THEN (IF wait.taps = 0 \/ Late THEN 1 ELSE wait.taps + 1)
  ELSE IF Late THEN 0 ELSE wait.taps

\* Mutant: a tap starts the request's time anew.
ContinueRestarted(down) ==
  [on |-> TRUE, start |-> IF Edge(down) THEN now ELSE wait.start, last |-> down,
   armed |-> wait.armed \/ ~ down, taps |-> Taps(down),
   first |-> IF Edge(down) /\ Taps(down) = 1 THEN now ELSE wait.first]

Continue(down) ==
  [on |-> TRUE, start |-> wait.start, last |-> down,
   armed |-> wait.armed \/ ~ down, taps |-> Taps(down),
   first |-> IF Edge(down) /\ Taps(down) = 1 THEN now ELSE wait.first]

Capped(lapse) == IF lapse > ClockPeriod THEN ClockPeriod ELSE lapse

\* One turn of the loop, and the sleep after it.
Poll ==
  /\ wait.on /\ InTime
  /\ \E down \in BOOLEAN, lag \in 1 .. MaxLag :
       LET presses == IF down /\ ~ seen.sample THEN Append(seen.presses, seen.lapse)
                      ELSE seen.presses
       IN  IF Edge(down) /\ Taps(down) >= cached.taps
           THEN /\ wait' = NoWait /\ UNCHANGED now
                /\ seen' = [seen EXCEPT !.presses = presses, !.sample = down, !.outcome = "ok"]
           ELSE /\ wait' = Continue(down)
                /\ now' = (now + lag) % ClockPeriod
                /\ seen' = [seen EXCEPT !.presses = presses, !.sample = down, !.lapse = Capped(@ + lag)]
  /\ UNCHANGED <<config, refused>>

Next ==
  \/ Reload \/ Reboot \/ OtherCommit \/ ClearSession
  \/ \E c \in Configs : SetConfig(c) \/ SetSession(c)
  \/ BeginWait \/ Timeout \/ Poll

\* The loop turns, whatever the button does.
Spec == Init /\ [][Next]_vars /\ WF_vars(Timeout \/ Poll)

--------------------------------------------------------------------------------
(* Properties                                                                *)

\* The types, and that a wait has fewer taps than it needs and lasts no longer than the
\* timeout and one poll.
TypeOK ==
  /\ {flash, storeRam, persisted, cached} \subseteq Configs
  /\ session \in Configs \cup {NoConfig}
  /\ now \in 0 .. ClockPeriod - 1 /\ refused \in BOOLEAN
  /\ wait.on => wait.taps \in 0 .. cached.taps - 1 /\ seen.lapse < cached.timeout + MaxLag
  /\ seen.outcome \in {"none", "bypassed", "ok", "timeout"}

\* The last k presses, when they fit in the window.
Gesture(k) ==
  LET n == Len(seen.presses)
  IN  n >= k /\ seen.presses[n] - seen.presses[n - k + 1] <= cached.window

\* What confirms a request is the gesture that is configured, made while the request
\* waited: a button held from before is none, nor are taps too far apart.
ConfirmedByGesture ==
  [][wait.on /\ ~ wait'.on /\ seen'.outcome = "ok" => Gesture(cached.taps)']_vars

\* A request that goes on waiting has not seen a gesture of one tap or two.  (With three
\* or four taps it may: the window is counted from the first tap after the last window
\* ran out, and a gesture that begins with the second tap of a run is passed over.)
GestureIsSeen == wait.on /\ cached.taps <= 2 => ~ Gesture(cached.taps)

\* A wait ends, with the gesture or with the timeout, whatever the button does.
WaitEnds == wait.on ~> ~ wait.on

\* What is in force is valid, and it is the session's configuration or else the
\* persisted one; only the pin that it names is pulled.
InForce ==
  /\ cached = IF session = NoConfig THEN persisted ELSE session
  /\ cached.valid
  /\ pulled = IF cached.source = "gpio" THEN cached.pin ELSE NoPin

\* Unless the store has refused a configuration, what is reported as persisted is what
\* a power cycle would find; a refused one can be in force and in flash all the same.
PersistedIsStored == ~ refused => persisted = OrDefault(flash)
================================================================================
