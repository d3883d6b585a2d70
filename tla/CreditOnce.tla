---------------------------- MODULE CreditOnce ----------------------------
(***************************************************************************)
(* What a user may rely on about deposits, whatever happens between the    *)
(* browser, the workers, the card provider and its webhooks: the wallet    *)
(* grows by a payment's amount at most once, only after the card was       *)
(* charged for it, and what was credited stays so.                         *)
(***************************************************************************)
EXTENDS Naturals

CONSTANT PaymentIds

VARIABLES
    charged,   \* payments the provider has taken the money for
    credited,  \* payments the wallet holds the money of
    balance    \* the purchased wallet, in deposits

creditVars == <<charged, credited, balance>>

Init ==
    /\ charged = {}
    /\ credited = {}
    /\ balance = 0

Charge(p) ==
    /\ charged' = charged \cup {p}
    /\ UNCHANGED <<credited, balance>>

Credit(p) ==
    /\ p \in charged \ credited
    /\ credited' = credited \cup {p}
    /\ balance' = balance + 1
    /\ UNCHANGED charged

Next == \E p \in PaymentIds : Charge(p) \/ Credit(p)

Spec == Init /\ [][Next]_creditVars
=============================================================================
