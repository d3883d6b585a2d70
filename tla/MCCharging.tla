----------------------------- MODULE MCCharging -----------------------------
(* Small instances of Charging for TLC. *)
EXTENDS Charging

\* The owner can pay for what the budgets are overshot by; the members have the
\* free allowance and what they deposit.
OwnerSavings == [u \in Users |-> IF u = Owner THEN 6 ELSE 0]
=============================================================================
