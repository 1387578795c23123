----------------------------- MODULE MCAccounts -----------------------------
(* Constant values for model checking Accounts.                            *)
EXTENDS Accounts, TLC

CONSTANTS u1, u2, b1, b2, q1, q2, k1

\* The names differ in case only, and the browsers are behind one address.
MCFoldedNames == [u \in User |-> [b \in Browser |-> k1]]

MCSymmetry == Permutations(User) \cup Permutations(Browser) \cup Permutations(Request)
=============================================================================
