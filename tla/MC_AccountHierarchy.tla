---------------------- MODULE MC_AccountHierarchy ----------------------
(* AccountHierarchy for TLC: accounts, users and requests are interchangeable. *)
EXTENDS AccountHierarchy, TLC

Symmetry == Permutations(Accounts) \cup Permutations(Users) \cup Permutations(Requests)
=========================================================================
