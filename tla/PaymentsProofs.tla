-------------------------- MODULE PaymentsProofs --------------------------
(***************************************************************************)
(* Theorems of Payments for every number of payments, calls, deliveries    *)
(* and retries.                                                            *)
(*                                                                         *)
(* CreditedOnce needs to know that a payment taken by a webhook was        *)
(* charged.  The charge happens three steps earlier, in a call that may be *)
(* long gone, so IInv carries it along: from the provider's answer in the  *)
(* call to the row's status, and from the charge to the delivery.          *)
(***************************************************************************)
EXTENDS Payments, TLAPS

\* Only a charged payment waits for its webhook or has been credited.
RowsCharged ==
    \A p \in PaymentIds :
        status[p] \in {"awaiting_webhook", "completed"} => charge[p] = "approved"

\* A call works on a payment, and believes in a charge that was made.
CallsOK ==
    \A c \in Calls : call[c].stage # "idle" =>
        /\ call[c].payment \in PaymentIds
        /\ call[c].stage = "approved" => charge[call[c].payment] = "approved"

\* A delivery speaks of a charged payment.
HooksOK ==
    \A h \in Hooks : hook[h].stage # "idle" =>
        /\ hook[h].payment \in PaymentIds
        /\ charge[hook[h].payment] = "approved"

IInv == TypeOK /\ RowsCharged /\ CallsOK /\ HooksOK /\ AckedMeansCredited

DatabaseStep ==
    \/ \E p \in PaymentIds : Create(p) \/ Expire(p)
    \/ GiveUp \/ Poll \/ TryAgain \/ DeleteAccount

\* Initially no payment, call or delivery exists.
LEMMA InitHolds == Init => IInv
BY PaymentsAssumption, RetriesAssumption
   DEF Init, IInv, TypeOK, RowsCharged, CallsOK, HooksOK, AckedMeansCredited,
       Statuses, Call, Hook, Form, IdleCall, IdleHook, ReadyForm

\* The form, the clock and the end of the account touch no call, no delivery
\* and no charge, and a new row is pending.
LEMMA FormSteps == IInv /\ DatabaseStep => IInv'
<1> SUFFICES ASSUME IInv, DatabaseStep
             PROVE  IInv'
  OBVIOUS
<1> USE DEF IInv, TypeOK, RowsCharged, CallsOK, HooksOK, AckedMeansCredited,
            dbVars, providerVars, Statuses
<1>1. ASSUME NEW p \in PaymentIds, Create(p)
      PROVE  IInv'
  BY <1>1 DEF Create, Form
<1>2. ASSUME NEW p \in PaymentIds, Expire(p)
      PROVE  IInv'
  BY <1>2 DEF Expire
<1>3. CASE GiveUp
  BY <1>3 DEF GiveUp, Form
<1>4. CASE Poll
  BY <1>4 DEF Poll, Form
<1>5. CASE TryAgain
  BY <1>5 DEF TryAgain, ReadyForm, Form
<1>6. CASE DeleteAccount
  BY <1>6 DEF DeleteAccount
<1>7. QED
  BY <1>1, <1>2, <1>3, <1>4, <1>5, <1>6 DEF DatabaseStep

\* A new call has a payment of its own and has not heard of a charge.
LEMMA ReadPaymentStep ==
  ASSUME IInv, NEW c \in Calls, NEW p \in PaymentIds, ReadPayment(c, p)
  PROVE  IInv'
<1> USE DEF IInv, dbVars, providerVars
<1>1. TypeOK'
  BY DEF ReadPayment, TypeOK, Call
<1>2. RowsCharged' /\ HooksOK' /\ AckedMeansCredited'
  BY DEF ReadPayment, RowsCharged, HooksOK, AckedMeansCredited
<1>3. CallsOK'
  BY DEF ReadPayment, TypeOK, CallsOK
<1>4. QED
  BY <1>1, <1>2, <1>3

\* The provider keeps an earlier decision: what was charged stays charged.
LEMMA CallProviderStep ==
  ASSUME IInv, NEW c \in Calls, CallProvider(c)
  PROVE  IInv'
<1> DEFINE p == call[c].payment
<1>1. PICK decision \in {"approved", "declined"} :
        /\ charge[p] = "approved" => decision = "approved"
        /\ charge' = [charge EXCEPT ![p] = decision]
        /\ call' = [call EXCEPT ![c].stage = decision]
  BY DEF CallProvider, IInv, TypeOK, CallsOK
<1>2. /\ p \in PaymentIds
      /\ charge \in [PaymentIds -> {"none", "approved", "declined"}]
      /\ call \in [Calls -> Call]
      /\ UNCHANGED <<status, balance, account, hook, acked, late, form>>
  BY DEF CallProvider, IInv, TypeOK, CallsOK, dbVars
<1>3. \A q \in PaymentIds : charge[q] = "approved" => charge'[q] = "approved"
  BY <1>1, <1>2
<1>4. TypeOK'
  BY <1>1, <1>2 DEF IInv, TypeOK, Call
<1>5. RowsCharged' /\ HooksOK' /\ AckedMeansCredited'
  BY <1>2, <1>3 DEF IInv, RowsCharged, HooksOK, AckedMeansCredited
<1>6. CallsOK'
  BY <1>1, <1>2, <1>3 DEF IInv, CallsOK, Call
<1>7. QED
  BY <1>4, <1>5, <1>6 DEF IInv

\* A call that ends leaves a row that is charged if it says so.
LEMMA EndOfCallSteps ==
  ASSUME IInv, NEW c \in Calls, Record(c) \/ MarkFailed(c) \/ LoseCall(c)
  PROVE  IInv'
<1> DEFINE p == call[c].payment
<1> USE DEF IInv, dbVars, providerVars
<1>1. /\ p \in PaymentIds
      /\ call' = [call EXCEPT ![c] = IdleCall]
      /\ UNCHANGED <<balance, account, hook, charge, acked, late>>
  BY DEF CallsOK, Record, MarkFailed, LoseCall, EndCall
<1>2. \/ status' = status
      \/ /\ status[p] = "pending"
         /\ status' = [status EXCEPT ![p] = "failed"]
      \/ /\ status[p] = "pending"
         /\ charge[p] = "approved"
         /\ status' = [status EXCEPT ![p] = "awaiting_webhook"]
  BY DEF CallsOK, Record, MarkFailed, LoseCall
<1>3. form' \in Form
  BY DEF TypeOK, Record, MarkFailed, LoseCall, Form
<1>4. TypeOK'
  BY <1>1, <1>2, <1>3 DEF TypeOK, Statuses, IdleCall, Call
<1>5. RowsCharged' /\ AckedMeansCredited'
  BY <1>1, <1>2 DEF TypeOK, RowsCharged, AckedMeansCredited
<1>6. CallsOK' /\ HooksOK'
  BY <1>1 DEF TypeOK, CallsOK, HooksOK, IdleCall
<1>7. QED
  BY <1>4, <1>5, <1>6

\* A delivery starts for a charged payment, and a lost one leaves nothing.
LEMMA DeliverySteps ==
  ASSUME IInv, NEW h \in Hooks,
         LoseHook(h) \/ \E p \in PaymentIds : Deliver(h, p)
  PROVE  IInv'
<1> USE RetriesAssumption DEF IInv, dbVars, providerVars
<1>1. UNCHANGED <<status, balance, account, call, charge, acked, late, form>>
  BY DEF LoseHook, Deliver
<1>2. TypeOK'
  BY <1>1 DEF TypeOK, LoseHook, Deliver, EndHook, IdleHook, Hook
<1>3. RowsCharged' /\ CallsOK' /\ AckedMeansCredited'
  BY <1>1 DEF RowsCharged, CallsOK, AckedMeansCredited
<1>4. HooksOK'
  BY <1>1 DEF TypeOK, HooksOK, LoseHook, Deliver, EndHook, IdleHook
<1>5. QED
  BY <1>2, <1>3, <1>4

\* A webhook takes only a row that waits for it, and 200 follows the credit.
LEMMA ClaimStep ==
  ASSUME IInv, NEW h \in Hooks, NEW p \in PaymentIds, Claim(h, p)
  PROVE  IInv'
<1> USE RetriesAssumption DEF IInv
<1>1. /\ hook[h].stage # "idle"
      /\ UNCHANGED <<account, call, charge, late, form>>
      /\ hook' \in {[hook EXCEPT ![h] = IdleHook], [hook EXCEPT ![h].stage = "check"]}
  BY DEF Claim, EndHook
<1>2. \/ UNCHANGED <<status, balance, acked>>
      \/ /\ status[p] = "awaiting_webhook"
         /\ status' = [status EXCEPT ![p] = "completed"]
         /\ balance' = balance + 1
         /\ acked' \in {acked, acked \cup {p}}
  BY DEF Claim, Answer
<1>3. TypeOK'
  BY <1>1, <1>2 DEF TypeOK, Statuses, IdleHook, Hook
<1>4. RowsCharged' /\ CallsOK' /\ AckedMeansCredited'
  BY <1>1, <1>2 DEF TypeOK, RowsCharged, CallsOK, AckedMeansCredited
<1>5. HooksOK'
  <2>1. ASSUME NEW g \in Hooks, hook'[g].stage # "idle"
        PROVE  hook[g].stage # "idle" /\ hook'[g].payment = hook[g].payment
    BY <1>1, <2>1 DEF TypeOK, Hook, IdleHook
  <2>2. QED
    BY <1>1, <2>1 DEF HooksOK
<1>6. QED
  BY <1>3, <1>4, <1>5

\* A repeated webhook is answered 200 only if it finds the payment credited.
LEMMA CheckStep ==
  ASSUME IInv, NEW h \in Hooks, Check(h)
  PROVE  IInv'
<1> DEFINE p == hook[h].payment
<1> USE RetriesAssumption DEF IInv, dbVars
<1>1. /\ hook[h].stage # "idle"
      /\ p \in PaymentIds
      /\ UNCHANGED <<status, balance, account, call, charge, late, form>>
  BY DEF Check, HooksOK
<1>2. \/ acked' = acked
      \/ status[p] = "completed" /\ acked' = acked \cup {p}
  BY DEF Check, Answer
<1>3. \/ hook' = [hook EXCEPT ![h] = IdleHook]
      \/ /\ hook[h].retries < MaxRetries
         /\ hook' = [hook EXCEPT ![h].stage = "claim", ![h].retries = @ + 1]
  BY DEF Check, EndHook
<1>4. hook' \in [Hooks -> Hook]
  BY <1>3 DEF TypeOK, IdleHook, Hook
<1>5. TypeOK'
  BY <1>1, <1>2, <1>4 DEF TypeOK
<1>6. RowsCharged' /\ CallsOK' /\ AckedMeansCredited'
  BY <1>1, <1>2 DEF TypeOK, RowsCharged, CallsOK, AckedMeansCredited
<1>7. HooksOK'
  <2>1. ASSUME NEW g \in Hooks, hook'[g].stage # "idle"
        PROVE  hook[g].stage # "idle" /\ hook'[g].payment = hook[g].payment
    BY <1>1, <1>3, <2>1 DEF TypeOK, Hook, IdleHook
  <2>2. QED
    BY <1>1, <2>1 DEF HooksOK
<1>8. QED
  BY <1>5, <1>6, <1>7

\* Every step, and every step that leaves the variables alone, keeps IInv.
LEMMA NextKeepsIInv == IInv /\ [Next]_vars => IInv'
<1> SUFFICES ASSUME IInv, [Next]_vars
             PROVE  IInv'
  OBVIOUS
<1>1. CASE DatabaseStep
  BY <1>1, FormSteps
<1>2. ASSUME NEW c \in Calls, NEW p \in PaymentIds, ReadPayment(c, p)
      PROVE  IInv'
  BY <1>2, ReadPaymentStep
<1>3. ASSUME NEW c \in Calls, CallProvider(c)
      PROVE  IInv'
  BY <1>3, CallProviderStep
<1>4. ASSUME NEW c \in Calls, Record(c) \/ MarkFailed(c) \/ LoseCall(c)
      PROVE  IInv'
  BY <1>4, EndOfCallSteps
<1>5. ASSUME NEW h \in Hooks, LoseHook(h) \/ \E p \in PaymentIds : Deliver(h, p)
      PROVE  IInv'
  BY <1>5, DeliverySteps
<1>6. ASSUME NEW h \in Hooks, NEW p \in PaymentIds, Claim(h, p)
      PROVE  IInv'
  BY <1>6, ClaimStep
<1>7. ASSUME NEW h \in Hooks, Check(h)
      PROVE  IInv'
  BY <1>7, CheckStep
<1>8. CASE UNCHANGED vars
  BY <1>8 DEF IInv, TypeOK, RowsCharged, CallsOK, HooksOK, AckedMeansCredited,
              vars, dbVars, providerVars
<1>9. QED
  BY <1>1, <1>2, <1>3, <1>4, <1>5, <1>6, <1>7, <1>8 DEF Next, DatabaseStep

-----------------------------------------------------------------------------

\* IInv holds throughout every behaviour of the payment handlers.
THEOREM InvariantHolds == Spec => []IInv
BY InitHolds, NextKeepsIInv, PTL DEF Spec

\* The rows, calls and deliveries of payments keep their types; in particular
\* a delivery never makes more than MaxRetries further attempts.
THEOREM TypeCorrect == Spec => []TypeOK
<1>1. IInv => TypeOK
  BY DEF IInv
<1>2. QED
  BY <1>1, InvariantHolds, PTL

\* The webhook route answers 200 for credited payments only.
THEOREM AnswersAreTrue == Spec => []AckedMeansCredited
<1>1. IInv => AckedMeansCredited
  BY DEF IInv
<1>2. QED
  BY <1>1, InvariantHolds, PTL

\* No step of any handler takes a payment out of completed or failed: each
\* UPDATE names the status it expects.
LEMMA FinalStep ==
  ASSUME IInv, [Next]_vars, NEW p \in PaymentIds,
         status[p] \in {"completed", "failed"}
  PROVE  status'[p] = status[p]
<1>1. status \in [PaymentIds -> Statuses]
  BY DEF IInv, TypeOK
<1>2. CASE DatabaseStep
  BY <1>1, <1>2 DEF DatabaseStep, Create, Expire, GiveUp, Poll, TryAgain,
                    DeleteAccount, dbVars
<1>3. ASSUME NEW c \in Calls,
             \/ \E q \in PaymentIds : ReadPayment(c, q)
             \/ CallProvider(c) \/ LoseCall(c)
      PROVE  status' = status
  BY <1>3 DEF ReadPayment, CallProvider, LoseCall, dbVars
<1>4. ASSUME NEW c \in Calls, Record(c) \/ MarkFailed(c)
      PROVE  status'[p] = status[p]
  BY <1>1, <1>4 DEF Record, MarkFailed, IInv, CallsOK
<1>5. ASSUME NEW h \in Hooks,
             \/ \E q \in PaymentIds : Deliver(h, q)
             \/ Check(h) \/ LoseHook(h)
      PROVE  status' = status
  BY <1>5 DEF Deliver, Check, LoseHook, dbVars
<1>6. ASSUME NEW h \in Hooks, NEW q \in PaymentIds, Claim(h, q)
      PROVE  status'[p] = status[p]
  BY <1>1, <1>6 DEF Claim
<1>7. CASE UNCHANGED vars
  BY <1>7 DEF vars, dbVars
<1>8. QED
  BY <1>2, <1>3, <1>4, <1>5, <1>6, <1>7 DEF Next, DatabaseStep

\* A payment shown as completed or failed stays what it was shown to be.
THEOREM FinalStatusIsFinal == Spec => FinalStatusStays
<1>1. IInv /\ [Next]_vars =>
        [\A p \in PaymentIds :
            status[p] \in {"completed", "failed"} => status'[p] = status[p]]_vars
  BY FinalStep
<1>2. QED
  BY <1>1, InvariantHolds, PTL DEF Spec, FinalStatusStays

-----------------------------------------------------------------------------

\* The handlers start where CreditOnce starts.
LEMMA CreditInit == Init => Credits!Init
BY DEF Init, Credits!Init, Charged, Credited

\* A webhook that takes a payment is Credit; a provider's decision is Charge
\* or no step; the rest change neither charges, credits nor the wallet.
LEMMA CreditStep ==
  ASSUME IInv, [Next]_vars
  PROVE  [Credits!Next]_(Credits!creditVars)
<1> USE DEF Credits!creditVars, Charged, Credited
<1>1. /\ status \in [PaymentIds -> Statuses]
      /\ charge \in [PaymentIds -> {"none", "approved", "declined"}]
  BY DEF IInv, TypeOK
<1>2. ASSUME NEW h \in Hooks, NEW p \in PaymentIds, Claim(h, p)
      PROVE  Credits!Credit(p) \/ UNCHANGED <<Charged, Credited, balance>>
  <2>1. CASE UNCHANGED <<status, balance, acked>>
    BY <1>2, <2>1 DEF Claim
  <2>2. CASE /\ status[p] = "awaiting_webhook"
             /\ status' = [status EXCEPT ![p] = "completed"]
             /\ balance' = balance + 1
    <3>1. p \in Charged \ Credited
      BY <2>2 DEF IInv, RowsCharged
    <3>2. Credited' = Credited \cup {p}
      BY <1>1, <2>2
    <3>3. Charged' = Charged
      BY <1>2 DEF Claim
    <3>4. QED
      BY <2>2, <3>1, <3>2, <3>3 DEF Credits!Credit
  <2>3. QED
    BY <1>2, <2>1, <2>2 DEF Claim
<1>3. ASSUME NEW c \in Calls, CallProvider(c)
      PROVE  \/ \E p \in PaymentIds : Credits!Charge(p)
             \/ UNCHANGED <<Charged, Credited, balance>>
  <2> DEFINE p == call[c].payment
  <2>1. PICK decision : charge' = [charge EXCEPT ![p] = decision]
    BY <1>3 DEF CallProvider
  <2>2. /\ p \in PaymentIds
        /\ charge[p] = "approved" => decision = "approved"
        /\ UNCHANGED <<status, balance>>
    BY <1>1, <1>3, <2>1 DEF CallProvider, IInv, CallsOK, dbVars
  <2>3. CASE decision = "approved"
    <3>1. Charged' = Charged \cup {p}
      BY <1>1, <2>1, <2>2, <2>3
    <3>2. QED
      BY <2>2, <3>1 DEF Credits!Charge
  <2>4. CASE decision # "approved"
    BY <1>1, <2>1, <2>2, <2>4
  <2>5. QED
    BY <2>3, <2>4
<1>4. ASSUME NEW c \in Calls, Record(c) \/ MarkFailed(c)
      PROVE  UNCHANGED <<Charged, Credited, balance>>
  BY <1>1, <1>4 DEF Record, MarkFailed, IInv, CallsOK, providerVars
<1>5. CASE DatabaseStep
  BY <1>1, <1>5 DEF DatabaseStep, Create, Expire, GiveUp, Poll, TryAgain,
                    DeleteAccount, dbVars, providerVars
<1>6. ASSUME NEW c \in Calls,
             (\E p \in PaymentIds : ReadPayment(c, p)) \/ LoseCall(c)
      PROVE  UNCHANGED <<Charged, Credited, balance>>
  BY <1>6 DEF ReadPayment, LoseCall, dbVars, providerVars
<1>7. ASSUME NEW h \in Hooks,
             (\E p \in PaymentIds : Deliver(h, p)) \/ Check(h) \/ LoseHook(h)
      PROVE  UNCHANGED <<Charged, Credited, balance>>
  BY <1>7 DEF Deliver, Check, LoseHook, dbVars, providerVars
<1>8. CASE UNCHANGED vars
  BY <1>8 DEF vars, dbVars, providerVars
<1>9. QED
  BY <1>2, <1>3, <1>4, <1>5, <1>6, <1>7, <1>8
     DEF Next, DatabaseStep, Credits!Next

\* However calls, webhooks and losses interleave, the wallet grows once per
\* payment, after its charge, and no credit is taken back: the handlers
\* implement CreditOnce.
THEOREM ImplementsCreditOnce == Spec => CreditedOnce
<1>1. Spec => []IInv
  BY InvariantHolds
<1>2. IInv /\ [Next]_vars => [Credits!Next]_(Credits!creditVars)
  BY CreditStep
<1>3. QED
  BY <1>1, <1>2, CreditInit, PTL DEF Spec, CreditedOnce, Credits!Spec
=============================================================================
