------------------------------- MODULE MCWebAuthn -------------------------------
EXTENDS WebAuthn

CONSTANTS rpA, rpB

Symmetry == Permutations({rpA, rpB})
================================================================================
