----------------------------- MODULE MCAccounts -----------------------------
(***************************************************************************)
(* Accounts, for TLC: the clients are interchangeable, and so are the calls *)
(* of theirs.                                                               *)
(***************************************************************************)
EXTENDS Accounts, TLC

Interchangeable == Permutations(Clients) \cup Permutations(Calls)
=============================================================================
