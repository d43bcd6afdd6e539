--------------------------- MODULE TransactionalStore ---------------------------
(***************************************************************************)
(* What the credential store promises its callers ("the main area uses A/B *)
(* transactional commits", docs/architecture.md): a durable value that     *)
(* changes in one step, to the whole of what the device was working on, or *)
(* does not change.  The value is the credentials, the PIN record and the  *)
(* user-presence configuration; sign counts have a weaker promise of their *)
(* own, stated in CredentialStore.                                         *)
(***************************************************************************)
CONSTANTS Slots, Creds, NoCred, Pins, UPConfigs, DefaultUP

VARIABLES
  durable,   \* what a power-up finds
  working,   \* the device's copy in RAM
  fallback,  \* what `working` becomes if the operation in progress fails
  phase      \* "off", "idle", "busy", or "counting" for a sign-count update

tvars == <<durable, working, fallback, phase>>

Facts == [creds: [Slots -> Creds \cup {NoCred}], pin: Pins, up: UPConfigs]

TInit ==
  /\ durable \in Facts /\ working \in Facts /\ fallback \in Facts
  /\ phase = "off"

\* The stored configuration may be distrusted, never the rest.
PowerUp ==
  /\ phase = "off" /\ phase' \in {"idle", "busy"}
  /\ working' \in {durable, [durable EXCEPT !.up = DefaultUP]}
  /\ fallback' = working'
  /\ UNCHANGED durable

\* One change of one kind.
Changes(f) ==
  {[f EXCEPT !.creds[s] = c] : s \in Slots, c \in Creds \cup {NoCred}}
    \cup {[f EXCEPT !.creds = [s \in Slots |-> NoCred]]}
    \cup {[f EXCEPT !.pin = p] : p \in Pins}
    \cup {[f EXCEPT !.up = u] : u \in UPConfigs}

Begin ==
  /\ phase = "idle" /\ phase' = "busy"
  /\ working' \in Changes(working) /\ fallback' \in {working, working'}
  /\ UNCHANGED durable

\* A sign-count update leaves the three facts alone.
BeginCount ==
  /\ phase = "idle" /\ phase' = "counting" /\ fallback' = working
  /\ UNCHANGED <<durable, working>>

Commit ==
  /\ phase \in {"busy", "counting"} /\ durable' = working
  /\ UNCHANGED <<working, fallback, phase>>

\* Success is reported only once what was asked for is durable.
Succeed ==
  /\ phase \in {"busy", "counting"} /\ phase' = "idle"
  /\ phase = "busy" => durable = working
  /\ UNCHANGED <<durable, working, fallback>>

Abort ==
  /\ phase \in {"busy", "counting"} /\ phase' = "idle" /\ working' = fallback
  /\ UNCHANGED <<durable, fallback>>

\* Power is lost: RAM may hold anything until it is loaded again.
PowerLoss ==
  /\ phase # "off" /\ phase' = "off"
  /\ working' \in Facts /\ fallback' \in Facts
  /\ UNCHANGED durable

TNext == PowerUp \/ Begin \/ BeginCount \/ Commit \/ Succeed \/ Abort \/ PowerLoss

TSpec == TInit /\ [][TNext]_tvars
=================================================================================
