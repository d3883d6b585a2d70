------------------------------ MODULE Charging ------------------------------
(***************************************************************************)
(* Who pays for a turn, and how turns that run at once share the money.    *)
(*                                                                         *)
(* Every account has a purchased wallet and a free one that is filled up   *)
(* once a day.  A turn reads wallets, spending and the reservations that   *)
(* other turns made, decides what it may cost at worst, reserves that in   *)
(* counters kept in Redis, and compares what the counters answer with what *)
(* it read before.  Much later, when the answer is complete, one           *)
(* transaction takes the true cost from a wallet; then the counters are    *)
(* given back.  A group turn is paid by the owner of the conversation and  *)
(* has three counters, each a call of its own.                             *)
(*                                                                         *)
(* A counter is deleted when it falls to zero or below and when nobody     *)
(* touched it for its TTL, which a long turn may outlive.  A worker may    *)
(* die between two steps; then its reservation is never given back.        *)
(***************************************************************************)
EXTENDS Integers, FiniteSetsExt

CONSTANTS
    Workers,      \* requests in flight at once
    Users,
    Owner,        \* of the one conversation
    Costs,        \* what a turn may cost
    Allowance,    \* FREE_ALLOWANCE_DOLLARS
    Cushion,      \* MAX_ALLOWED_NEGATIVE_BALANCE_CENTS
    ConversationBudget,
    MemberBudget, \* of every member
    Savings,      \* the purchased wallets at the start
    TopUp,        \* the amount of a deposit
    MaxBalance,   \* bound: no deposit goes beyond
    MaxTurns,     \* bound: turns ever begun
    MaxExpiries   \* bound: counters that expire under a living turn

ASSUME OwnerAssumption == Owner \in Users
ASSUME WorkersAssumption == IsFiniteSet(Workers) /\ Workers # {}
ASSUME CostsAssumption == Costs \subseteq Nat \ {0} /\ IsFiniteSet(Costs) /\ Costs # {}
ASSUME AmountsAssumption ==
    /\ Allowance \in Nat /\ Cushion \in Nat /\ TopUp \in Nat /\ MaxBalance \in Nat
    /\ ConversationBudget \in Nat /\ MemberBudget \in Nat
    /\ Savings \in [Users -> Nat]
ASSUME CapsAssumption == MaxTurns \in Nat /\ MaxExpiries \in Nat

VARIABLES
    (* the database *)
    purchased,  \* wallets of type purchased, priority 0
    free,       \* wallets of type free_tier, priority 1
    renewals,   \* today's renewal rows in the ledger, by account
    spent,      \* conversation_spending and member_budgets.spent
    (* Redis *)
    reserved,   \* the reservation counters; 0 is no key
    (* the workers *)
    turn,
    (* caps *)
    begun,
    expiries

dbVars   == <<purchased, free, renewals, spent>>
capVars  == <<begun, expiries>>
vars     == <<dbVars, reserved, turn, capVars>>

-----------------------------------------------------------------------------

Members == Users \ {Owner}
Kinds   == {"member", "conversation", "payer"}

\* A key is a kind and whom it is about; a conversation is named by its owner.
Keys == ({"payer"} \X Users) \cup ({"member"} \X Members) \cup {<<"conversation", Owner>>}

Sources == {"wallets", "counters", "budgets"}

Turn == [stage    : {"idle", "reading", "reserving", "streaming", "releasing", "unpaid", "dead"},
         user     : Users,
         group    : BOOLEAN,           \* a member's turn, paid by the owner
         got      : SUBSET Sources,    \* what it has read
         due      : BOOLEAN,           \* the payer's allowance is to be renewed
         bal      : Nat,               \* the payer's purchased wallet, as read
         allow    : Nat,               \* the payer's free wallet, as read
         spent    : [Keys -> Nat],
         reserved : [Keys -> Nat],
         worst    : Costs \cup {0},    \* what it reserves
         fits     : BOOLEAN,           \* no counter has gone past its limit
         held     : SUBSET Keys]       \* counters it was added to

Nothing == [k \in Keys |-> 0]

IdleTurn == [stage |-> "idle", user |-> Owner, group |-> FALSE, got |-> {}, due |-> FALSE,
             bal |-> 0, allow |-> 0, spent |-> Nothing, reserved |-> Nothing,
             worst |-> 0, fits |-> TRUE, held |-> {}]

Init ==
    /\ purchased = Savings
    /\ free = [u \in Users |-> Allowance]
    /\ renewals = [u \in Users |-> 1]
    /\ spent = Nothing
    /\ reserved = Nothing
    /\ turn = [w \in Workers |-> IdleTurn]
    /\ begun = 0
    /\ expiries = 0

-----------------------------------------------------------------------------
(* Limits *)

Payer(t) == IF t.group THEN Owner ELSE t.user

KeyOf(t, kind) ==
    <<kind, IF kind = "payer" THEN Payer(t) ELSE IF kind = "member" THEN t.user ELSE Owner>>

KeysOf(t) == {KeyOf(t, kind) : kind \in IF t.group THEN Kinds ELSE {"payer"}}

\* getUserTier: an account is paid while its purchased wallet holds anything,
\* and a paid one may go below zero by the cushion.
CushionOf(bal) == IF bal > 0 THEN Cushion ELSE 0

Budget(k) == IF k[1] = "conversation" THEN ConversationBudget ELSE MemberBudget

\* What one of the turn's limits leaves of what the turn has read.
Room(t, k) ==
    IF k[1] # "payer" THEN Budget(k) - t.spent[k]
    ELSE IF t.bal > 0 \/ t.group THEN t.bal
    ELSE t.allow

\* What the same limit would leave now.
RoomNow(k) ==
    IF k[1] # "payer" THEN Budget(k) - spent[k]
    ELSE IF purchased[k[2]] > 0 THEN purchased[k[2]]
    ELSE free[k[2]]

\* resolveBilling: the owner pays as long as each of the three limits leaves
\* anything; whoever pays himself must be able to.  What a group turn costs is
\* not compared with what is left.
Affordable(t, worst) ==
    IF t.group THEN \A k \in KeysOf(t) : Room(t, k) - t.reserved[k] > 0
    ELSE \A k \in KeysOf(t) : Room(t, k) - t.reserved[k] + CushionOf(t.bal) >= worst

-----------------------------------------------------------------------------
(* Reading *)

Goes(w, t) == turn' = [turn EXCEPT ![w] = t]

\* A turn paid by whoever sends it, or by the owner.  A member whose group
\* turn is not affordable goes on as the first kind.
Begin(w, u, group) ==
    /\ turn[w].stage = "idle"
    /\ begun < MaxTurns
    /\ group => u # Owner
    /\ Goes(w, [IdleTurn EXCEPT !.stage = "reading", !.user = u, !.group = group,
                                !.got = IF group THEN {} ELSE {"budgets"}])
    /\ begun' = begun + 1
    /\ UNCHANGED <<dbVars, reserved, expiries>>

Reads(w, source) ==
    /\ turn[w].stage = "reading"
    /\ source \notin turn[w].got

ReadWallets(w) ==
    LET t == turn[w] IN
    /\ Reads(w, "wallets")
    /\ Goes(w, [t EXCEPT !.got = @ \cup {"wallets"}, !.bal = purchased[Payer(t)],
                         !.allow = free[Payer(t)], !.due = (renewals[Payer(t)] = 0)])
    /\ UNCHANGED <<dbVars, reserved, capVars>>

ReadCounters(w) ==
    LET t == turn[w] IN
    /\ Reads(w, "counters")
    /\ Goes(w, [t EXCEPT !.got = @ \cup {"counters"},
                         !.reserved = [k \in Keys |-> IF k \in KeysOf(t) THEN reserved[k] ELSE 0]])
    /\ UNCHANGED <<dbVars, reserved, capVars>>

ReadBudgets(w) ==
    LET t == turn[w] IN
    /\ Reads(w, "budgets")
    /\ Goes(w, [t EXCEPT !.got = @ \cup {"budgets"},
                         !.spent = [k \in Keys |-> IF k \in KeysOf(t) THEN spent[k] ELSE 0]])
    /\ UNCHANGED <<dbVars, reserved, capVars>>

\* maybeRenewFreeAllowance: the wallet is filled up where it is below the
\* allowance, with a row in the ledger.
Renew(w) ==
    LET t == turn[w]
        p == Payer(t)
    IN
    /\ t.stage = "reading"
    /\ t.due
    /\ IF free[p] < Allowance
       THEN /\ free' = [free EXCEPT ![p] = Allowance]
            /\ renewals' = [renewals EXCEPT ![p] = @ + 1]
       ELSE UNCHANGED <<free, renewals>>
    /\ Goes(w, [t EXCEPT !.due = FALSE, !.allow = Allowance])
    /\ UNCHANGED <<purchased, spent, reserved, capVars>>

Known(w) ==
    /\ turn[w].stage = "reading"
    /\ turn[w].got = Sources
    /\ ~turn[w].due

\* The worst case of the turn is settled and the reservation begins.
Admit(w, worst) ==
    /\ Known(w)
    /\ Affordable(turn[w], worst)
    /\ Goes(w, [turn[w] EXCEPT !.stage = "reserving", !.worst = worst, !.got = {},
                               !.reserved = Nothing])
    /\ UNCHANGED <<dbVars, reserved, capVars>>

\* 402, or 409 because the client expected somebody else to pay.
Refuse(w) ==
    /\ Known(w)
    /\ Goes(w, IdleTurn)
    /\ UNCHANGED <<dbVars, reserved, capVars>>

-----------------------------------------------------------------------------
(* Reservations *)

Order(kind) == IF kind = "member" THEN 1 ELSE IF kind = "conversation" THEN 2 ELSE 3

IsFirst(k, keys) == k \in keys /\ \A other \in keys : Order(k[1]) <= Order(other[1])

\* (Without the other turns' reservations.)
OverrunsAlone(t, k, total) == Room(t, k) - t.worst < -CushionOf(t.bal)

\* (Without the check after the reservation.)
OverrunsNever(t, k, total) == FALSE

Overruns(t, k, total) == Room(t, k) - total < -CushionOf(t.bal)

\* (A refused turn does not give back.)
ReserveForGood(w) ==
    LET t == turn[w] IN
    /\ t.stage = "reserving"
    /\ \E k \in KeysOf(t) : LET fits == t.fits /\ ~Overruns(t, k, reserved[k] + t.worst) IN
          /\ IsFirst(k, KeysOf(t) \ t.held)
          /\ reserved' = [reserved EXCEPT ![k] = @ + t.worst]
          /\ Goes(w, IF KeysOf(t) # t.held \cup {k}
                     THEN [t EXCEPT !.held = @ \cup {k}, !.fits = fits]
                     ELSE IF fits THEN [t EXCEPT !.held = @ \cup {k}, !.stage = "streaming"]
                     ELSE IdleTurn)
    /\ UNCHANGED <<dbVars, capVars>>

\* redisIncrByFloat, once for each counter of the turn.  With the last answer
\* the turn goes on, or gives everything back and is refused with 402.
Reserve(w) ==
    LET t == turn[w] IN
    /\ t.stage = "reserving"
    /\ \E k \in KeysOf(t) :
          LET fits == t.fits /\ ~Overruns(t, k, reserved[k] + t.worst)
              last == KeysOf(t) = t.held \cup {k}
          IN
          /\ IsFirst(k, KeysOf(t) \ t.held)
          /\ reserved' = [reserved EXCEPT ![k] = @ + t.worst]
          /\ Goes(w, [t EXCEPT !.held = @ \cup {k}, !.fits = fits,
                               !.stage = IF ~last THEN "reserving"
                                         ELSE IF fits THEN "streaming" ELSE "releasing"])
    /\ UNCHANGED <<dbVars, capVars>>

Remainder(t, k) == IF t.held = {k} THEN IdleTurn ELSE [t EXCEPT !.held = @ \ {k}]

\* (The counter may fall below zero.)
ReleaseBelowZero(w) ==
    LET t == turn[w] IN
    /\ t.stage \in {"releasing", "unpaid"}
    /\ \E k \in Keys :
          /\ IsFirst(k, t.held)
          /\ reserved' = [reserved EXCEPT ![k] = @ - t.worst]
          /\ Goes(w, Remainder(t, k))
    /\ UNCHANGED <<dbVars, capVars>>

\* redisIncrByFloat with the amount negated.  A counter that would not stay
\* above zero is deleted.
Release(w) ==
    LET t == turn[w] IN
    /\ t.stage \in {"releasing", "unpaid"}
    /\ \E k \in Keys :
          /\ IsFirst(k, t.held)
          /\ reserved' = [reserved EXCEPT ![k] = IF @ > t.worst THEN @ - t.worst ELSE 0]
          /\ Goes(w, Remainder(t, k))
    /\ UNCHANGED <<dbVars, capVars>>

HoldersOf(k) == {w \in Workers : k \in turn[w].held}
Living(ws)   == {w \in ws : turn[w].stage # "dead"}

\* (The counter has no TTL.)
ExpireNever(k) == reserved[k] < 0 /\ UNCHANGED vars

\* The TTL of a counter has passed.  What dead workers left in it is gone.
Expire(k) ==
    /\ reserved[k] > 0
    /\ IF Living(HoldersOf(k)) = {} THEN expiries' = expiries
       ELSE expiries < MaxExpiries /\ expiries' = expiries + 1
    /\ reserved' = [reserved EXCEPT ![k] = 0]
    /\ turn' = [w \in Workers |-> IF turn[w].stage # "dead" THEN turn[w]
                                  ELSE Remainder(turn[w], k)]
    /\ UNCHANGED <<dbVars, begun>>

-----------------------------------------------------------------------------
(* Charging *)

\* chargeWalletForUsageRecord: the first wallet that holds the whole cost.  If
\* there is none, the transaction that saves the turn is rolled back and the
\* answer is lost.  A group turn also counts what it cost.
Save(w, cost) ==
    LET t == turn[w]
        p == Payer(t)
        Spend == spent' = [k \in Keys |-> IF t.group /\ k \in KeysOf(t) /\ k[1] # "payer"
                                          THEN spent[k] + cost ELSE spent[k]]
    IN
    /\ t.stage = "streaming"
    /\ cost <= t.worst
    /\ \/ /\ purchased[p] >= cost
          /\ purchased' = [purchased EXCEPT ![p] = @ - cost]
          /\ Spend
          /\ Goes(w, [t EXCEPT !.stage = "releasing"])
          /\ UNCHANGED <<free, renewals>>
       \/ /\ purchased[p] < cost
          /\ free[p] >= cost
          /\ free' = [free EXCEPT ![p] = @ - cost]
          /\ Spend
          /\ Goes(w, [t EXCEPT !.stage = "releasing"])
          /\ UNCHANGED <<purchased, renewals>>
       \/ /\ purchased[p] < cost
          /\ free[p] < cost
          /\ Goes(w, [t EXCEPT !.stage = "unpaid"])
          /\ UNCHANGED dbVars
    /\ UNCHANGED <<reserved, capVars>>

\* Every model failed, or the save did for another reason.
Fail(w) ==
    /\ turn[w].stage = "streaming"
    /\ Goes(w, [turn[w] EXCEPT !.stage = "releasing"])
    /\ UNCHANGED <<dbVars, reserved, capVars>>

\* The worker is gone, or Redis is when it is asked.
Crash(w) ==
    /\ turn[w].stage \notin {"idle", "dead"}
    /\ Goes(w, IF turn[w].held = {} THEN IdleTurn
               ELSE [IdleTurn EXCEPT !.stage = "dead", !.user = turn[w].user,
                                     !.group = turn[w].group, !.worst = turn[w].worst,
                                     !.held = turn[w].held])
    /\ UNCHANGED <<dbVars, reserved, capVars>>

\* A payment arrives in the wallet.
Deposit(u) ==
    /\ purchased[u] + TopUp <= MaxBalance
    /\ purchased' = [purchased EXCEPT ![u] = @ + TopUp]
    /\ UNCHANGED <<free, renewals, spent, reserved, turn, capVars>>

Midnight ==
    /\ renewals' = [u \in Users |-> 0]
    /\ UNCHANGED <<purchased, free, spent, reserved, turn, capVars>>

Work(w) ==
    \/ ReadWallets(w)
    \/ ReadCounters(w)
    \/ ReadBudgets(w)
    \/ Renew(w)
    \/ \E worst \in Costs : Admit(w, worst)
    \/ Refuse(w)
    \/ Reserve(w)
    \/ Release(w)
    \/ \E cost \in Costs : Save(w, cost)
    \/ Fail(w)

Next ==
    \/ \E w \in Workers, u \in Users, group \in BOOLEAN : Begin(w, u, group)
    \/ \E w \in Workers : Work(w) \/ Crash(w)
    \/ \E k \in Keys : Expire(k)
    \/ \E u \in Users : Deposit(u)
    \/ Midnight

Spec == Init /\ [][Next]_vars

\* A request goes on until it ends or dies, and a TTL passes for a counter that
\* no living turn is in.
FairSpec ==
    /\ Spec
    /\ \A w \in Workers : WF_vars(Work(w))
    /\ \A k \in Keys : WF_vars(Living(HoldersOf(k)) = {} /\ Expire(k))

-----------------------------------------------------------------------------
(* Properties *)

\* Every variable has its type.
TypeOK ==
    /\ purchased \in [Users -> Nat]
    /\ free \in [Users -> 0..Allowance]
    /\ renewals \in [Users -> Nat]
    /\ spent \in [Keys -> Nat]
    /\ reserved \in [Keys -> Nat]
    /\ turn \in [Workers -> Turn]
    /\ begun \in 0..MaxTurns
    /\ expiries \in 0..MaxExpiries

\* What the turns of these workers reserve.
Worst        == [w \in Workers |-> turn[w].worst]
Together(ws) == MapThenSumSet(LAMBDA w : Worst[w], ws)

\* A counter never says more than the turns that are in it reserved, dead ones
\* included, and as long as no TTL passed under a living turn it says exactly
\* that: no failed check, lost answer, failed save or crash leaves it short or
\* makes it grow.
CountersMatch ==
    \A k \in Keys :
        /\ reserved[k] <= Together(HoldersOf(k))
        /\ expiries = 0 => reserved[k] = Together(HoldersOf(k))

\* No running turn may cost more than each limit left it when it read them, and
\* the cushion, whatever became of the counters and of the other turns since.
NoTurnOverdraws ==
    \A w \in Workers : turn[w].stage = "streaming" =>
        \A k \in KeysOf(turn[w]) : turn[w].worst <= Room(turn[w], k) + CushionOf(turn[w].bal)

\* The promise of the reservations: as long as none of the running turns under
\* one limit has read of it what is no longer true, what they may still cost
\* together stays within that limit and the cushion.
FreshTurnsFit ==
    \A k \in Keys :
        LET running == {w \in Workers : turn[w].stage = "streaming" /\ k \in KeysOf(turn[w])} IN
        (/\ expiries = 0
         /\ running # {}
         /\ \A w \in running : Room(turn[w], k) = RoomNow(k))
        => \E w \in running : Together(running) <= RoomNow(k) + CushionOf(turn[w].bal)

\* What a conversation or a member has spent goes beyond the budget by no more
\* than the cushion and one turn of every other request in flight.
OvershootBound ==
    \A k \in Keys : k[1] # "payer" =>
        spent[k] <= Budget(k) + Cushion + (Cardinality(Workers) - 1) * Max(Costs)

\* A reservation that nobody gives back does not outlive its TTL.
LeaksExpire == <>[](\A k \in Keys : reserved[k] = 0)

\* "Maximum allowed negative balance in cents for paid users.  Paid users get
\* this cushion above their actual balance": what was admitted can be charged.
AdmittedTurnsPaid == \A w \in Workers : turn[w].stage # "unpaid"

\* "This prevents two simultaneous sends from overshooting": no budget is
\* exceeded by more than the cushion that every check grants.
NoOvershoot == \A k \in Keys : k[1] # "payer" => spent[k] <= Budget(k) + Cushion

\* "If two requests race, only the first succeeds": the allowance is renewed at
\* most once a day.
OneRenewalADay == \A u \in Users : renewals[u] <= 1
=============================================================================
