-------------------------- MODULE MCSessionManager --------------------------
EXTENDS SessionManager, TLC

\* Safety does not tell one start attempt, or one session name, from another.
Symmetry == Permutations(Client)
SymmetryOfNames == Permutations(Client) \cup Permutations(Name)
=============================================================================
