----------------------------- MODULE Payments -----------------------------
(***************************************************************************)
(* Deposits of one user: the form in the browser, the process endpoint     *)
(* that charges the card, and the provider's webhook that credits the      *)
(* wallet.                                                                 *)
(*                                                                         *)
(* A process call reads the payment, calls the provider and records the    *)
(* outcome in three separate steps; the webhook may arrive between any of  *)
(* them, several times, and before the row says awaiting_webhook.  It then *)
(* tries again a number of times and answers 500, and the provider         *)
(* delivers it again.  Any worker may die between two of its steps.        *)
(*                                                                         *)
(* The provider is known from how the code calls it: it decides once per   *)
(* idempotency key, the payment's id, answers a repeated call as it        *)
(* answered the first, and delivers a webhook until one is answered 200.   *)
(***************************************************************************)
EXTENDS Integers, FiniteSets

CONSTANTS
    PaymentIds,  \* rows of payments the deposit may come to create
    Calls,       \* process calls in flight at once
    Hooks,       \* webhook deliveries in flight at once
    MaxRetries,  \* maxRetries of processWithRetry
    None         \* no payment

ASSUME PaymentsAssumption == None \notin PaymentIds
ASSUME RetriesAssumption == MaxRetries \in Nat

VARIABLES
    (* the database *)
    status,   \* payments.status, absent before the row is inserted
    balance,  \* the user's purchased wallet, in deposits
    account,  \* the users row exists; payments and wallets point to it
    (* the workers *)
    call,
    hook,
    (* the provider *)
    charge,
    acked,    \* payments whose webhook was answered 200
    (* the clock and the browser *)
    late,     \* payments older than PAYMENT_EXPIRATION_MS
    form

dbVars       == <<status, balance, account>>
providerVars == <<charge, acked>>
vars         == <<dbVars, call, hook, providerVars, late, form>>

-----------------------------------------------------------------------------

Statuses == {"absent", "pending", "awaiting_webhook", "completed", "failed"}

Call == [stage   : {"idle", "read", "expired", "approved", "declined"},
         payment : PaymentIds \cup {None}]

Hook == [stage   : {"idle", "claim", "check"},
         payment : PaymentIds \cup {None},
         retries : 0..MaxRetries]

Form == [stage   : {"ready", "waiting", "polling", "error", "success"},
         payment : PaymentIds \cup {None}]

IdleCall  == [stage |-> "idle", payment |-> None]
IdleHook  == [stage |-> "idle", payment |-> None, retries |-> 0]
ReadyForm == [stage |-> "ready", payment |-> None]

Init ==
    /\ status = [p \in PaymentIds |-> "absent"]
    /\ balance = 0
    /\ account = TRUE
    /\ call = [c \in Calls |-> IdleCall]
    /\ hook = [h \in Hooks |-> IdleHook]
    /\ charge = [p \in PaymentIds |-> "none"]
    /\ acked = {}
    /\ late = {}
    /\ form = ReadyForm

-----------------------------------------------------------------------------
(* The form *)

\* POST /payments.  The form sends no idempotency key, so every submission
\* inserts a row; if the answer is lost, the form shows an error.
Create(p) ==
    /\ account
    /\ form.stage = "ready"
    /\ status[p] = "absent"
    /\ status' = [status EXCEPT ![p] = "pending"]
    /\ form' \in {[stage |-> "waiting", payment |-> p],
                  [stage |-> "error", payment |-> None]}
    /\ UNCHANGED <<balance, account, call, hook, providerVars, late>>

\* The call failed, its answer was lost, or the confirmation took over a minute.
GiveUp ==
    /\ form.stage \in {"waiting", "polling"}
    /\ form' = [form EXCEPT !.stage = "error"]
    /\ UNCHANGED <<dbVars, call, hook, providerVars, late>>

\* GET /payments/:id.
Poll ==
    /\ form.stage = "polling"
    /\ account
    /\ status[form.payment] = "completed"
    /\ form' = [form EXCEPT !.stage = "success"]
    /\ UNCHANGED <<dbVars, call, hook, providerVars, late>>

\* The button of the error card empties the form for another submission.
TryAgain ==
    /\ form.stage = "error"
    /\ form' = ReadyForm
    /\ UNCHANGED <<dbVars, call, hook, providerVars, late>>

-----------------------------------------------------------------------------
(* POST /payments/:id/process *)

EndCall(c) == call' = [call EXCEPT ![c] = IdleCall]

\* A call, first or repeated, comes from a client that was told the id.  The
\* row is read and its status and age are looked at.
ReadPayment(c, p) ==
    /\ account
    /\ form.payment = p
    /\ call[c].stage = "idle"
    /\ status[p] = "pending"
    /\ call' = [call EXCEPT ![c] = [stage |-> IF p \in late THEN "expired" ELSE "read",
                                    payment |-> p]]
    /\ UNCHANGED <<dbVars, hook, providerVars, late, form>>

\* The provider decides, unless it has decided for this key before, and answers.
CallProvider(c) ==
    LET p == call[c].payment IN
    /\ call[c].stage = "read"
    /\ \E decision \in IF charge[p] = "none" THEN {"approved", "declined"} ELSE {charge[p]} :
          /\ charge' = [charge EXCEPT ![p] = decision]
          /\ call' = [call EXCEPT ![c].stage = decision]
    /\ UNCHANGED <<dbVars, hook, acked, late, form>>

\* (The first form updates the row whatever its status.)
RecordAnyStatus(c) ==
    LET p == call[c].payment IN
    /\ call[c].stage = "approved"
    /\ status' = [status EXCEPT ![p] = "awaiting_webhook"]
    /\ form' = form
    /\ EndCall(c)
    /\ UNCHANGED <<balance, account, hook, providerVars, late>>

\* UPDATE ... SET awaiting_webhook WHERE status = 'pending'.  If the answer
\* arrives, the form starts to poll.
Record(c) ==
    LET p == call[c].payment IN
    /\ call[c].stage = "approved"
    /\ \/ /\ status[p] = "pending"
          /\ status' = [status EXCEPT ![p] = "awaiting_webhook"]
          /\ \/ form' = form
             \/ /\ form = [stage |-> "waiting", payment |-> p]
                /\ form' = [form EXCEPT !.stage = "polling"]
       \/ /\ status[p] # "pending"
          /\ UNCHANGED <<status, form>>
    /\ EndCall(c)
    /\ UNCHANGED <<balance, account, hook, providerVars, late>>

\* UPDATE ... SET failed WHERE status = 'pending', after a decline or an expiry.
MarkFailed(c) ==
    LET p == call[c].payment IN
    /\ call[c].stage \in {"expired", "declined"}
    /\ status' = IF status[p] = "pending" THEN [status EXCEPT ![p] = "failed"] ELSE status
    /\ EndCall(c)
    /\ UNCHANGED <<balance, account, hook, providerVars, late, form>>

\* The worker dies, the provider's answer is lost, is not JSON, or names no
\* transaction.  What the provider did stays done.
LoseCall(c) ==
    /\ call[c].stage # "idle"
    /\ EndCall(c)
    /\ UNCHANGED <<dbVars, hook, providerVars, late, form>>

-----------------------------------------------------------------------------
(* POST /webhooks/payment *)

Deliver(h, p) ==
    /\ charge[p] = "approved"
    /\ hook[h].stage = "idle"
    /\ hook' = [hook EXCEPT ![h] = [stage |-> "claim", payment |-> p, retries |-> 0]]
    /\ UNCHANGED <<dbVars, call, providerVars, late, form>>

EndHook(h) == hook' = [hook EXCEPT ![h] = IdleHook]

\* The provider is answered 200, unless the answer is lost.
Answer(p) == acked' \in {acked, acked \cup {p}}

\* (The first form takes a payment in any status.)
ClaimAnyStatus(h, p) ==
    /\ hook[h].stage = "claim"
    /\ hook[h].payment = p
    /\ account
    /\ status' = [status EXCEPT ![p] = "completed"]
    /\ balance' = balance + 1
    /\ Answer(p)
    /\ EndHook(h)
    /\ UNCHANGED <<account, call, charge, late, form>>

\* processWebhookCredit: one transaction takes the payment and credits the
\* wallet, and throws when the account is gone.
Claim(h, p) ==
    /\ hook[h].stage = "claim"
    /\ hook[h].payment = p
    /\ \/ /\ status[p] = "awaiting_webhook"
          /\ account
          /\ status' = [status EXCEPT ![p] = "completed"]
          /\ balance' = balance + 1
          /\ Answer(p)
          /\ EndHook(h)
       \/ /\ status[p] = "awaiting_webhook"
          /\ ~account
          /\ EndHook(h)
          /\ UNCHANGED <<status, balance, acked>>
       \/ /\ status[p] # "awaiting_webhook"
          /\ hook' = [hook EXCEPT ![h].stage = "check"]
          /\ UNCHANGED <<status, balance, acked>>
    /\ UNCHANGED <<account, call, charge, late, form>>

\* (The first form answers 200 to the last attempt, whatever it found.)
CheckAcksAll(h) ==
    LET p == hook[h].payment IN
    /\ hook[h].stage = "check"
    /\ \/ /\ status[p] = "completed" \/ hook[h].retries = MaxRetries
          /\ Answer(p)
          /\ EndHook(h)
       \/ /\ status[p] # "completed"
          /\ hook[h].retries < MaxRetries
          /\ hook' = [hook EXCEPT ![h].stage = "claim", ![h].retries = @ + 1]
          /\ UNCHANGED acked
    /\ UNCHANGED <<dbVars, call, charge, late, form>>

\* (The first form makes one attempt too many.)
CheckOnceMore(h) ==
    LET p == hook[h].payment IN
    /\ hook[h].stage = "check"
    /\ \/ /\ status[p] = "completed"
          /\ Answer(p)
          /\ EndHook(h)
       \/ /\ status[p] # "completed"
          /\ hook[h].retries <= MaxRetries
          /\ hook' = [hook EXCEPT ![h].stage = "claim", ![h].retries = @ + 1]
          /\ UNCHANGED acked
    /\ UNCHANGED <<dbVars, call, charge, late, form>>

\* Someone else credited it, or another attempt follows, or the answer is 500.
Check(h) ==
    LET p == hook[h].payment IN
    /\ hook[h].stage = "check"
    /\ \/ /\ status[p] = "completed"
          /\ Answer(p)
          /\ EndHook(h)
       \/ /\ status[p] # "completed"
          /\ hook[h].retries < MaxRetries
          /\ hook' = [hook EXCEPT ![h].stage = "claim", ![h].retries = @ + 1]
          /\ UNCHANGED acked
       \/ /\ status[p] # "completed"
          /\ hook[h].retries = MaxRetries
          /\ EndHook(h)
          /\ UNCHANGED acked
    /\ UNCHANGED <<dbVars, call, charge, late, form>>

LoseHook(h) ==
    /\ hook[h].stage # "idle"
    /\ EndHook(h)
    /\ UNCHANGED <<dbVars, call, providerVars, late, form>>

-----------------------------------------------------------------------------
(* Time and the end of the account *)

\* Thirty minutes pass.
Expire(p) ==
    /\ status[p] # "absent"
    /\ p \notin late
    /\ late' = late \cup {p}
    /\ UNCHANGED <<dbVars, call, hook, providerVars, form>>

\* Deleting the users row sets user_id to null in payments and wallets.
DeleteAccount ==
    /\ account
    /\ account' = FALSE
    /\ UNCHANGED <<status, balance, call, hook, providerVars, late, form>>

-----------------------------------------------------------------------------

Next ==
    \/ \E p \in PaymentIds : Create(p) \/ Expire(p)
    \/ GiveUp \/ Poll \/ TryAgain \/ DeleteAccount
    \/ \E c \in Calls :
          \/ \E p \in PaymentIds : ReadPayment(c, p)
          \/ CallProvider(c) \/ Record(c) \/ MarkFailed(c) \/ LoseCall(c)
    \/ \E h \in Hooks :
          \/ \E p \in PaymentIds : Deliver(h, p) \/ Claim(h, p)
          \/ Check(h) \/ LoseHook(h)

\* The provider delivers again until it is answered 200, not every delivery is
\* lost, and a worker that lives goes on.  Users and clocks promise nothing.
Fairness ==
    /\ \A p \in PaymentIds :
          /\ SF_vars(p \notin acked /\ \E h \in Hooks : Deliver(h, p))
          /\ SF_vars(\E h \in Hooks : Claim(h, p))
    /\ \A h \in Hooks : WF_vars(Check(h))
    /\ \A c \in Calls : WF_vars(CallProvider(c)) /\ WF_vars(Record(c)) /\ WF_vars(MarkFailed(c))

Spec == Init /\ [][Next]_vars

FairSpec == Spec /\ Fairness

-----------------------------------------------------------------------------
(* Properties *)

\* Every variable has its type.
TypeOK ==
    /\ status \in [PaymentIds -> Statuses]
    /\ balance \in Nat
    /\ account \in BOOLEAN
    /\ call \in [Calls -> Call]
    /\ hook \in [Hooks -> Hook]
    /\ charge \in [PaymentIds -> {"none", "approved", "declined"}]
    /\ acked \subseteq PaymentIds
    /\ late \subseteq PaymentIds
    /\ form \in Form

\* Concurrent process calls, repeated webhooks and lost workers never credit a
\* payment twice, credit one that was not charged, or take a credit back.
Charged  == {p \in PaymentIds : charge[p] = "approved"}
Credited == {p \in PaymentIds : status[p] = "completed"}

Credits == INSTANCE CreditOnce WITH charged <- Charged, credited <- Credited

CreditedOnce == Credits!Spec

\* A status a user has been shown as final stays: a slow process call never
\* reopens or overwrites a payment that was credited or has failed meanwhile.
FinalStatusStays ==
    [][\A p \in PaymentIds :
          status[p] \in {"completed", "failed"} => status'[p] = status[p]]_vars

\* A webhook answered 200 has had its effect: the provider never stops
\* delivering one for a payment that is still to be credited.
AckedMeansCredited == \A p \in acked : status[p] = "completed"

\* A payment that waits for its webhook is credited in the end, however many
\* deliveries are early, lost or repeated, unless the account is deleted.
RecordedIsCredited ==
    \A p \in PaymentIds :
        status[p] = "awaiting_webhook" ~> (status[p] = "completed" \/ ~account)

-----------------------------------------------------------------------------
(* What the documentation claims and the code does not do *)

\* "Every operation is safe to retry. Network glitch? Just retry. No duplicate
\* charges": one deposit, with all its retries, charges the card once.
OneChargePerDeposit == Cardinality(Charged) <= 1

\* "no corrupted state": the money of a charged card reaches the wallet.
ChargedIsCredited ==
    \A p \in PaymentIds :
        charge[p] = "approved" ~> (status[p] = "completed" \/ ~account)
=============================================================================
