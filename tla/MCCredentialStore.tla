--------------------------- MODULE MCCredentialStore ---------------------------
EXTENDS CredentialStore, TLC

Symmetry == Permutations(Creds)
================================================================================
