------------------------------ MODULE MCAuthService -------------------------------
\* Callers and passwords are interchangeable.
EXTENDS AuthService, TLC

MCSymmetry == Permutations(Tasks) \cup Permutations(Passwords)
===================================================================================
