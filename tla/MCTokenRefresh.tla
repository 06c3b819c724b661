---------------------------- MODULE MCTokenRefresh ----------------------------
(* Small instances of TokenRefresh.                                        *)
EXTENDS TokenRefresh, TLC

Processes == Permutations(Proc)

\* Every safety property claims something only until the first cause, so a
\* search for a violation need not go past it.
BeforeAnyCause == blame = NoCause
==============================================================================
