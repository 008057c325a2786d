------------------------------- MODULE MCAuth -------------------------------
(***************************************************************************)
(* Small instances of Auth and Sessions.                                   *)
(***************************************************************************)
EXTENDS Sessions, TLC

CONSTANTS a1, a2, t1, t2

MCAccounts == {a1, a2}
MCTokens   == {t1, t2}

\* Accounts are alike, and so are tokens; all properties are about safety.
Symmetric == Permutations(MCAccounts) \cup Permutations(MCTokens)
=============================================================================
