----------------------------- MODULE MCAccounts -----------------------------
(* Three calls, two names, three users at most, two periods: enough for two  *)
(* logins with one code around a change of the secret, for two changes of a   *)
(* user around a login, and for two calls that check one name.               *)
EXTENDS Accounts, TLC

Symmetry == Permutations(Call)
=============================================================================
