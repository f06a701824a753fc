----------------------------- MODULE MCAccounts -----------------------------
(* Instances of Accounts for TLC. *)
EXTENDS Accounts, TLC

CONSTANTS ann, bob, p1, p2

TwoEmails == {ann, bob}
TwoPasses == {p1, p2}
InstanceSymmetry == Permutations(TwoPasses) \union Permutations(TwoEmails)

=============================================================================
