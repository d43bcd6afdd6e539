------------------------------- MODULE MCManager -------------------------------
EXTENDS ManagerHost

Hardened == [debugHid |-> FALSE, guarded |-> TRUE]
Debug    == [debugHid |-> TRUE, guarded |-> FALSE]

BothBuilds   == {Hardened, Debug}
HardenedOnly == {Hardened}
SomeHeld     == {{1, 2}}
================================================================================
