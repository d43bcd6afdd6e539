---------------------------- MODULE MCAuthenticator -----------------------------
EXTENDS Authenticator

Symmetry == Permutations(Hashes)
================================================================================
