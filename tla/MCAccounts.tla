----------------------------- MODULE MCAccounts -----------------------------
(* Constants and symmetry for Accounts. *)
EXTENDS Accounts, TLC

CONSTANTS email, telegram

EmailOnly == {email}
EmailTelegram == {email, telegram}
Symmetry == Permutations(Request)
=============================================================================
