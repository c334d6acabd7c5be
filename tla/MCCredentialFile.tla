-------------------------- MODULE MCCredentialFile --------------------------
(***************************************************************************)
(* CredentialFile on small instances.                                      *)
(***************************************************************************)
EXTENDS CredentialFile, TLC

\* After a login with a private token, and after an import.
Logins == {{"token", "private"}, {"session"}}

\* Accounts are told apart by their names only; processes are ids as well, and
\* told apart by nothing.
Symmetry == Permutations(Name) \cup Permutations(Process)
=============================================================================
