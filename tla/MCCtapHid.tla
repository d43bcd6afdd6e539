------------------------------- MODULE MCCtapHid -------------------------------
EXTENDS CtapHidSystem

CONSTANTS browser, agent

OneInterface == [a \in {browser, agent} |-> "FIDO"]
================================================================================
