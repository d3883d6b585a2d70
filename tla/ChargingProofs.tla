--------------------------- MODULE ChargingProofs ---------------------------
(***************************************************************************)
(* Theorems of Charging for every value of its constants.                  *)
(*                                                                         *)
(* NoTurnOverdraws is about a turn that has made its whole reservation;    *)
(* Sound adds what holds of the counters it has been added to so far.  A   *)
(* turn keeps what it has read, so Sound speaks of the turn alone; that    *)
(* no counter is negative is what the step of Reserve needs of the rest.   *)
(*                                                                         *)
(* The sums of CountersMatch, FreshTurnsFit and OvershootBound need no     *)
(* other induction than over time, once Induction has shown what one more  *)
(* or one less turn adds to a sum.  CountersMatch is inductive with IInv.  *)
(* FreshTurnsFit follows from FitTogether, which speaks of every set of    *)
(* turns that passed their checks, fresh or not.  OvershootBound follows   *)
(* from SpendingFits, which speaks of every set of turns that may yet be   *)
(* charged, and so of the spending that is still to come.                  *)
(***************************************************************************)
EXTENDS Charging, Induction

Within(t, k) == t.worst <= Room(t, k) + CushionOf(t.bal)

Sound(t) ==
    /\ t \in Turn
    /\ t.group => t.user \in Members
    /\ t.stage \in {"idle", "reading"} => t.held = {}
    /\ t.stage \in {"reserving", "streaming"} /\ t.fits => \A k \in t.held : Within(t, k)
    /\ t.stage = "streaming" => t.fits /\ KeysOf(t) \subseteq t.held

IInv == TypeOK /\ \A w \in Workers : Sound(turn[w])

(* Types *)

LEMMA OwnerPays == ASSUME NEW t, t \in Turn PROVE Payer(t) \in Users
  BY OwnerAssumption DEF Payer, Turn

LEMMA KeysAreKeys == ASSUME NEW t, Sound(t) PROVE KeysOf(t) \subseteq Keys
<1> SUFFICES ASSUME NEW kind \in Kinds, t.group \/ kind = "payer"
             PROVE  KeyOf(t, kind) \in Keys
  BY DEF KeysOf, Kinds
<1>1. CASE kind = "payer" BY <1>1, OwnerPays DEF KeyOf, Keys, Sound
<1>2. CASE kind = "member" BY <1>2 DEF KeyOf, Keys, Sound
<1>3. CASE kind = "conversation" BY <1>3 DEF KeyOf, Keys
<1> QED BY <1>1, <1>2, <1>3 DEF Kinds

LEMMA WorstIsNatural == ASSUME NEW t, t \in Turn PROVE t.worst \in Nat
<1>1. Costs \cup {0} \subseteq Nat BY CostsAssumption
<1>2. t.worst \in Costs \cup {0} BY DEF Turn
<1> HIDE DEF Turn
<1> QED BY <1>1, <1>2, Zenon

LEMMA IdleSound == Sound(IdleTurn)
<1>1. IdleTurn \in Turn
  BY OwnerAssumption DEF IdleTurn, Turn, Nothing
<1> QED BY <1>1 DEF Sound, IdleTurn

LEMMA LimitsAreIntegers ==
    ASSUME NEW t, t \in Turn, NEW k \in Keys
    PROVE  Room(t, k) \in Int /\ CushionOf(t.bal) \in Nat
<1>1. t.spent[k] \in Nat /\ t.bal \in Nat /\ t.allow \in Nat BY DEF Turn
<1>2. Budget(k) \in Nat BY AmountsAssumption DEF Budget
<1> QED BY <1>1, <1>2, AmountsAssumption DEF Room, CushionOf

\* A step of one worker.
LEMMA TurnStep ==
    ASSUME IInv, NEW w \in Workers, NEW q, Sound(q), turn' = [turn EXCEPT ![w] = q]
    PROVE  turn' \in [Workers -> Turn] /\ \A v \in Workers : Sound(turn'[v])
  BY DEF IInv, TypeOK, Sound

\* A step of one worker that changes nothing else.
LEMMA OwnStep ==
    ASSUME IInv, NEW w \in Workers, NEW q, Sound(q), turn' = [turn EXCEPT ![w] = q],
           UNCHANGED <<dbVars, reserved, expiries>>, begun' \in 0..MaxTurns
    PROVE  IInv'
<1>1. turn' \in [Workers -> Turn] /\ \A v \in Workers : Sound(turn'[v])
  BY TurnStep
<1> QED BY <1>1 DEF IInv, TypeOK, dbVars

(* Reading *)

LEMMA BeginStep ==
    ASSUME IInv, NEW w \in Workers, NEW u \in Users, NEW group \in BOOLEAN,
           Begin(w, u, group)
    PROVE  IInv'
<1> DEFINE q == [IdleTurn EXCEPT !.stage = "reading", !.user = u, !.group = group,
                                 !.got = IF group THEN {} ELSE {"budgets"}]
<1>1. q \in Turn BY OwnerAssumption DEF IdleTurn, Turn, Nothing, Sources
<1>2. q.stage = "reading" /\ q.user = u /\ q.group = group /\ q.held = {} BY DEF IdleTurn
<1>3. Sound(q) BY <1>1, <1>2 DEF Sound, Begin, Members
<1>4. begun' \in 0..MaxTurns BY CapsAssumption DEF Begin, IInv, TypeOK
<1> QED BY <1>3, <1>4, OwnStep DEF Begin, Goes

\* What a reading step changes of the turn does not matter yet.
LEMMA ReadingStep ==
    ASSUME IInv, NEW w \in Workers, NEW q \in Turn,
           q.stage = "reading", turn[w].stage = "reading",
           q.group = turn[w].group, q.user = turn[w].user, q.held = turn[w].held,
           turn' = [turn EXCEPT ![w] = q],
           UNCHANGED <<dbVars, reserved, capVars>>
    PROVE  IInv'
<1>1. Sound(q) BY DEF IInv, Sound
<1> QED BY <1>1, OwnStep DEF capVars, IInv, TypeOK

LEMMA ReadWalletsStep ==
    ASSUME IInv, NEW w \in Workers, ReadWallets(w) PROVE IInv'
<1> DEFINE t == turn[w]
           q == [t EXCEPT !.got = @ \cup {"wallets"}, !.bal = purchased[Payer(t)],
                          !.allow = free[Payer(t)], !.due = (renewals[Payer(t)] = 0)]
<1>1. t \in Turn BY DEF IInv, TypeOK
<1>2. purchased[Payer(t)] \in Nat /\ free[Payer(t)] \in Nat
  BY <1>1, OwnerPays, AmountsAssumption DEF IInv, TypeOK
<1>3. q \in Turn BY <1>1, <1>2 DEF Turn, Sources
<1>4. q.stage = "reading" /\ q.group = t.group /\ q.user = t.user /\ q.held = t.held
  BY <1>1 DEF ReadWallets, Reads, Turn
<1> QED BY <1>3, <1>4, ReadingStep DEF ReadWallets, Reads, Goes

LEMMA ReadCountersStep ==
    ASSUME IInv, NEW w \in Workers, ReadCounters(w) PROVE IInv'
<1> DEFINE t == turn[w]
           seen == [k \in Keys |-> IF k \in KeysOf(t) THEN reserved[k] ELSE 0]
           q == [t EXCEPT !.got = @ \cup {"counters"}, !.reserved = seen]
<1>1. t \in Turn BY DEF IInv, TypeOK
<1>2. seen \in [Keys -> Nat] BY DEF IInv, TypeOK
<1>3. q \in Turn BY <1>1, <1>2 DEF Turn, Sources
<1>4. q.stage = "reading" /\ q.group = t.group /\ q.user = t.user /\ q.held = t.held
  BY <1>1 DEF ReadCounters, Reads, Turn
<1> QED BY <1>3, <1>4, ReadingStep DEF ReadCounters, Reads, Goes

LEMMA ReadBudgetsStep ==
    ASSUME IInv, NEW w \in Workers, ReadBudgets(w) PROVE IInv'
<1> DEFINE t == turn[w]
           seen == [k \in Keys |-> IF k \in KeysOf(t) THEN spent[k] ELSE 0]
           q == [t EXCEPT !.got = @ \cup {"budgets"}, !.spent = seen]
<1>1. t \in Turn BY DEF IInv, TypeOK
<1>2. seen \in [Keys -> Nat] BY DEF IInv, TypeOK
<1>3. q \in Turn BY <1>1, <1>2 DEF Turn, Sources
<1>4. q.stage = "reading" /\ q.group = t.group /\ q.user = t.user /\ q.held = t.held
  BY <1>1 DEF ReadBudgets, Reads, Turn
<1> QED BY <1>3, <1>4, ReadingStep DEF ReadBudgets, Reads, Goes

LEMMA RenewStep ==
    ASSUME IInv, NEW w \in Workers, Renew(w) PROVE IInv'
<1> DEFINE t == turn[w]
           q == [t EXCEPT !.due = FALSE, !.allow = Allowance]
<1>1. t \in Turn /\ Payer(t) \in Users BY OwnerPays DEF IInv, TypeOK
<1>2. q \in Turn BY <1>1, AmountsAssumption DEF Turn
<1>3. q.stage = "reading" /\ q.group = t.group /\ q.user = t.user /\ q.held = t.held
  BY <1>1 DEF Renew, Turn
<1>4. Sound(q) BY <1>2, <1>3 DEF IInv, Sound, Renew
<1>5. turn' \in [Workers -> Turn] /\ \A v \in Workers : Sound(turn'[v])
  BY <1>4, TurnStep DEF Renew, Goes
<1>6. free' \in [Users -> 0..Allowance]
  BY <1>1, AmountsAssumption DEF Renew, IInv, TypeOK
<1>7. renewals' \in [Users -> Nat] BY <1>1 DEF Renew, IInv, TypeOK
<1> QED BY <1>5, <1>6, <1>7 DEF IInv, TypeOK, Renew, capVars

LEMMA AdmitStep ==
    ASSUME IInv, NEW w \in Workers, NEW worst \in Costs, Admit(w, worst) PROVE IInv'
<1> DEFINE t == turn[w]
           q == [t EXCEPT !.stage = "reserving", !.worst = worst, !.got = {},
                          !.reserved = Nothing]
<1>1. t \in Turn /\ Sound(t) /\ t.stage = "reading" BY DEF IInv, TypeOK, Admit, Known
<1>2. q \in Turn BY <1>1 DEF Turn, Nothing
<1>3. q.stage = "reserving" /\ q.group = t.group /\ q.user = t.user /\ q.held = {}
  BY <1>1 DEF Sound, Turn
<1>4. Sound(q) BY <1>1, <1>2, <1>3 DEF Sound
<1> QED BY <1>4, OwnStep DEF Admit, Goes, capVars, IInv, TypeOK

LEMMA RefuseStep ==
    ASSUME IInv, NEW w \in Workers, Refuse(w) PROVE IInv'
  BY IdleSound, OwnStep DEF Refuse, Goes, capVars, IInv, TypeOK

(* Reservations *)

LEMMA ReserveStep ==
    ASSUME IInv, NEW w \in Workers, Reserve(w) PROVE IInv'
<1> DEFINE t == turn[w]
<1>1. PICK k \in KeysOf(t) :
          /\ IsFirst(k, KeysOf(t) \ t.held)
          /\ reserved' = [reserved EXCEPT ![k] = @ + t.worst]
          /\ turn' = [turn EXCEPT ![w] =
                [t EXCEPT !.held = @ \cup {k},
                          !.fits = t.fits /\ ~Overruns(t, k, reserved[k] + t.worst),
                          !.stage = IF KeysOf(t) # t.held \cup {k} THEN "reserving"
                                    ELSE IF t.fits /\ ~Overruns(t, k, reserved[k] + t.worst)
                                    THEN "streaming" ELSE "releasing"]]
  BY DEF Reserve, Goes
<1> DEFINE fits == t.fits /\ ~Overruns(t, k, reserved[k] + t.worst)
           stage == IF KeysOf(t) # t.held \cup {k} THEN "reserving"
                    ELSE IF fits THEN "streaming" ELSE "releasing"
           q == [t EXCEPT !.held = @ \cup {k}, !.fits = fits, !.stage = stage]
<1>2. t \in Turn /\ Sound(t) /\ t.stage = "reserving" BY DEF IInv, TypeOK, Reserve
<1>3. k \in Keys BY <1>2, KeysAreKeys
<1>4. reserved[k] \in Nat /\ t.worst \in Nat
  BY <1>2, <1>3, WorstIsNatural DEF IInv, TypeOK
<1>5. reserved' \in [Keys -> Nat] BY <1>1, <1>3, <1>4 DEF IInv, TypeOK
<1>6. fits => \A j \in t.held \cup {k} : Within(t, j)
  <2>1. fits => Within(t, k)
    BY <1>2, <1>3, <1>4, LimitsAreIntegers DEF Overruns, Within
  <2> QED BY <1>2, <2>1 DEF Sound
<1>7. q \in Turn
  <2>1. fits \in BOOLEAN BY <1>2 DEF Turn
  <2>2. stage \in {"reserving", "streaming", "releasing"} OBVIOUS
  <2> HIDE DEF fits, stage
  <2> QED BY <1>2, <1>3, <2>1, <2>2 DEF Turn
<1>8. /\ q.stage = stage /\ q.fits = fits /\ q.held = t.held \cup {k}
      /\ q.group = t.group /\ q.user = t.user
      /\ q.worst = t.worst /\ q.bal = t.bal /\ q.allow = t.allow /\ q.spent = t.spent
  BY <1>2 DEF Turn
<1>9. KeysOf(q) = KeysOf(t) BY <1>8 DEF KeysOf, KeyOf, Payer
<1>10. \A j : Within(q, j) <=> Within(t, j)
  BY <1>8 DEF Within, Room, CushionOf
<1>11. stage = "reserving" \/ (stage = "streaming" /\ fits /\ KeysOf(t) = t.held \cup {k})
       \/ stage = "releasing"
  OBVIOUS
<1>12. Sound(q)
  <2> HIDE DEF fits, stage, q
  <2> QED BY <1>2, <1>6, <1>7, <1>8, <1>9, <1>10, <1>11 DEF Sound
<1>13. turn' \in [Workers -> Turn] /\ \A v \in Workers : Sound(turn'[v])
  BY <1>1, <1>12, TurnStep
<1> QED BY <1>5, <1>13 DEF IInv, TypeOK, Reserve, dbVars, capVars

LEMMA RemainderSound ==
    ASSUME NEW t, Sound(t), t.stage \in {"releasing", "unpaid", "dead"}, NEW k
    PROVE  Sound(Remainder(t, k))
<1>1. CASE t.held = {k} BY <1>1, IdleSound DEF Remainder
<1>2. CASE t.held # {k}
  <2> DEFINE q == [t EXCEPT !.held = @ \ {k}]
  <2>1. q \in Turn BY DEF Sound, Turn
  <2>2. q.stage = t.stage /\ q.group = t.group /\ q.user = t.user BY DEF Sound, Turn
  <2>3. Sound(q) BY <2>1, <2>2 DEF Sound
  <2> QED BY <1>2, <2>3 DEF Remainder
<1> QED BY <1>1, <1>2

LEMMA ReleaseStep ==
    ASSUME IInv, NEW w \in Workers, Release(w) PROVE IInv'
<1> DEFINE t == turn[w]
<1>1. PICK k \in Keys :
          /\ reserved' = [reserved EXCEPT ![k] = IF @ > t.worst THEN @ - t.worst ELSE 0]
          /\ turn' = [turn EXCEPT ![w] = Remainder(t, k)]
  BY DEF Release, Goes
<1>2. Sound(t) /\ t \in Turn /\ t.stage \in {"releasing", "unpaid"}
  BY DEF IInv, TypeOK, Release
<1>3. t.worst \in Nat /\ reserved[k] \in Nat
  BY <1>2, WorstIsNatural DEF IInv, TypeOK
<1>4. reserved' \in [Keys -> Nat] BY <1>1, <1>3 DEF IInv, TypeOK
<1>5. Sound(Remainder(t, k)) BY <1>2, RemainderSound
<1>6. turn' \in [Workers -> Turn] /\ \A v \in Workers : Sound(turn'[v])
  BY <1>1, <1>5, TurnStep
<1> QED BY <1>4, <1>6 DEF IInv, TypeOK, Release, dbVars, capVars

LEMMA ExpireStep ==
    ASSUME IInv, NEW k \in Keys, Expire(k) PROVE IInv'
<1>1. \A v \in Workers : Sound(turn'[v])
  <2> SUFFICES ASSUME NEW v \in Workers PROVE Sound(turn'[v]) OBVIOUS
  <2>1. Sound(turn[v]) BY DEF IInv
  <2>2. CASE turn[v].stage = "dead"
    BY <2>1, <2>2, RemainderSound DEF Expire
  <2>3. CASE turn[v].stage # "dead" BY <2>1, <2>3 DEF Expire
  <2> QED BY <2>2, <2>3
<1>2. turn' \in [Workers -> Turn] BY <1>1 DEF Sound, Expire
<1>3. reserved' \in [Keys -> Nat] BY DEF Expire, IInv, TypeOK
<1>4. expiries' \in 0..MaxExpiries BY CapsAssumption DEF Expire, IInv, TypeOK
<1> QED BY <1>1, <1>2, <1>3, <1>4 DEF IInv, TypeOK, Expire, dbVars

(* Charging *)

\* A turn that leaves its inference has no more to show.
LEMMA LeavesSound ==
    ASSUME NEW t, Sound(t), NEW stage \in {"releasing", "unpaid"}
    PROVE  Sound([t EXCEPT !.stage = stage])
<1> DEFINE q == [t EXCEPT !.stage = stage]
<1>1. q \in Turn BY DEF Sound, Turn
<1>2. q.stage = stage /\ q.group = t.group /\ q.user = t.user BY DEF Sound, Turn
<1>3. Sound(q) BY <1>1, <1>2 DEF Sound
<1> QED BY <1>3

LEMMA SaveStep ==
    ASSUME IInv, NEW w \in Workers, NEW cost \in Costs, Save(w, cost) PROVE IInv'
<1> DEFINE t == turn[w]
           p == Payer(t)
<1>1. Sound(t) /\ p \in Users BY OwnerPays DEF IInv, TypeOK
<1>2. cost \in Nat BY CostsAssumption
<1>3. turn' \in [Workers -> Turn] /\ \A v \in Workers : Sound(turn'[v])
  <2>1. PICK stage \in {"releasing", "unpaid"} : turn' = [turn EXCEPT ![w] = [t EXCEPT !.stage = stage]]
    BY DEF Save, Goes
  <2> QED BY <1>1, <2>1, LeavesSound, TurnStep
<1>4. spent' \in [Keys -> Nat]
  BY <1>2 DEF Save, dbVars, IInv, TypeOK
<1>5. purchased' \in [Users -> Nat]
  BY <1>1, <1>2 DEF Save, dbVars, IInv, TypeOK
<1>6. free' \in [Users -> 0..Allowance]
  BY <1>1, <1>2, AmountsAssumption DEF Save, dbVars, IInv, TypeOK
<1>7. UNCHANGED <<renewals, reserved, capVars>> BY DEF Save, dbVars
<1> QED BY <1>3, <1>4, <1>5, <1>6, <1>7 DEF IInv, TypeOK, capVars

LEMMA FailStep ==
    ASSUME IInv, NEW w \in Workers, Fail(w) PROVE IInv'
<1>1. Sound([turn[w] EXCEPT !.stage = "releasing"]) BY LeavesSound DEF IInv
<1> QED BY <1>1, OwnStep DEF Fail, Goes, capVars, IInv, TypeOK

LEMMA CrashStep ==
    ASSUME IInv, NEW w \in Workers, Crash(w) PROVE IInv'
<1> DEFINE t == turn[w]
           q == [IdleTurn EXCEPT !.stage = "dead", !.user = t.user, !.group = t.group,
                                 !.worst = t.worst, !.held = t.held]
<1>1. t \in Turn /\ Sound(t) BY DEF IInv, TypeOK
<1>2. q \in Turn BY <1>1, IdleSound DEF Sound, Turn
<1>3. q.stage = "dead" /\ q.user = t.user /\ q.group = t.group BY DEF IdleTurn
<1>4. Sound(q) BY <1>1, <1>2, <1>3 DEF Sound
<1>5. PICK r \in {IdleTurn, q} : turn' = [turn EXCEPT ![w] = r] BY DEF Crash, Goes
<1>6. Sound(r) BY <1>4, <1>5, IdleSound
<1> QED BY <1>5, <1>6, OwnStep DEF Crash, capVars, IInv, TypeOK

LEMMA DepositStep ==
    ASSUME IInv, NEW u \in Users, Deposit(u) PROVE IInv'
<1>1. purchased' \in [Users -> Nat] BY AmountsAssumption DEF Deposit, IInv, TypeOK
<1> QED BY <1>1 DEF Deposit, IInv, TypeOK, capVars

LEMMA MidnightStep ==
    ASSUME IInv, Midnight PROVE IInv'
  BY DEF Midnight, IInv, TypeOK, capVars

-----------------------------------------------------------------------------

LEMMA Initially == ASSUME Init PROVE IInv
<1>1. turn \in [Workers -> Turn] /\ \A w \in Workers : Sound(turn[w])
  BY IdleSound DEF Init, Sound
<1> QED BY <1>1, AmountsAssumption, CapsAssumption DEF Init, IInv, TypeOK, Nothing

LEMMA Invariance == ASSUME IInv, [Next]_vars PROVE IInv'
<1>1. CASE UNCHANGED vars BY <1>1 DEF vars, dbVars, capVars, IInv, TypeOK
<1>2. ASSUME NEW w \in Workers, Work(w) PROVE IInv'
  BY <1>2, ReadWalletsStep, ReadCountersStep, ReadBudgetsStep, RenewStep, AdmitStep,
     RefuseStep, ReserveStep, ReleaseStep, SaveStep, FailStep DEF Work
<1> QED
  BY <1>1, <1>2, BeginStep, CrashStep, ExpireStep, DepositStep, MidnightStep DEF Next

LEMMA Always == Spec => []IInv
  BY Initially, Invariance, PTL DEF Spec

\* Every variable has its type: no counter and no wallet is ever negative,
\* whatever expires, dies or is charged in between.
THEOREM TypeCorrect == Spec => []TypeOK
<1>1. IInv => TypeOK BY DEF IInv
<1> QED BY <1>1, Always, PTL

\* No running turn may cost more than each of its limits left it when it read
\* them, and the cushion.
THEOREM NoTurnEverOverdraws == Spec => []NoTurnOverdraws
<1>1. IInv => NoTurnOverdraws BY DEF IInv, Sound, Within, NoTurnOverdraws
<1> QED BY <1>1, Always, PTL

-----------------------------------------------------------------------------
(* The counters *)

\* The actions that leave a worker's part in the counters, and what it may
\* still spend of a budget, as they were.
KeepsHold(t, q) == q.held = t.held /\ (t.held # {} => q.worst = t.worst)

Promises(t) == t.stage \in {"reserving", "streaming"} /\ t.fits /\ t.held # {}

Spends(t) == /\ t.group
             /\ \/ t.stage = "reading" /\ "budgets" \in t.got
                \/ t.stage \in {"reserving", "streaming"}

KeepsSpending(t, q) ==
    Spends(q) => Spends(t) /\ q.group = t.group /\ q.user = t.user /\ q.spent = t.spent

Quiet(w, q) ==
    /\ turn' = [turn EXCEPT ![w] = q]
    /\ KeepsHold(turn[w], q)
    /\ ~Promises(q)
    /\ UNCHANGED <<reserved, expiries>>

LEMMA SumsOfTurns ==
    ASSUME NEW ws
    PROVE  Together(ws) = Total(Worst, ws) /\ Together(ws)' = Total(Worst', ws)
  BY DEF Together, Total, MapThenSumSet, MapThenFoldSet

LEMMA CountersNext ==
    CountersMatch' <=>
        \A k \in Keys : /\ reserved'[k] <= Total(Worst', HoldersOf(k)')
                        /\ expiries' = 0 => reserved'[k] = Total(Worst', HoldersOf(k)')
  BY DEF CountersMatch, Together, Total, MapThenSumSet, MapThenFoldSet

LEMMA WorstOfWorkers ==
    ASSUME IInv, NEW ws \in SUBSET Workers
    PROVE  IsFiniteSet(ws) /\ NaturalOn(Worst, ws) /\ Together(ws) \in Nat
<1>1. IsFiniteSet(ws) BY WorkersAssumption, FS_Subset
<1>2. \A w \in Workers : turn[w].worst \in Nat BY WorstIsNatural DEF IInv, TypeOK
<1>3. NaturalOn(Worst, ws) BY <1>2 DEF NaturalOn, Worst
<1> QED BY <1>1, <1>3, SumType, SumsOfTurns

LEMMA WorstNext ==
    ASSUME IInv', NEW ws \in SUBSET Workers
    PROVE  IsFiniteSet(ws) /\ NaturalOn(Worst', ws) /\ Total(Worst', ws) \in Nat
<1>1. IsFiniteSet(ws) BY WorkersAssumption, FS_Subset
<1>2. \A w \in Workers : turn'[w].worst \in Nat BY WorstIsNatural DEF IInv, TypeOK
<1>3. NaturalOn(Worst', ws) BY <1>2 DEF NaturalOn, Worst
<1> QED BY <1>1, <1>3, SumType

\* Workers that keep their amounts keep their sum.
LEMMA SumKept ==
    ASSUME NEW ws \in SUBSET Workers, \A w \in ws : turn'[w].worst = turn[w].worst
    PROVE  Total(Worst', ws) = Total(Worst, ws)
<1>1. IsFiniteSet(ws) BY WorkersAssumption, FS_Subset
<1>2. \A w \in ws : Worst'[w] = Worst[w] BY DEF Worst
<1> QED BY <1>1, <1>2, SumSame

LEMMA QuietCounters ==
    ASSUME IInv, CountersMatch, NEW w \in Workers, NEW q, Quiet(w, q)
    PROVE  CountersMatch'
<1> SUFFICES ASSUME NEW k \in Keys
             PROVE  /\ reserved'[k] <= Total(Worst', HoldersOf(k)')
                    /\ expiries' = 0 => reserved'[k] = Total(Worst', HoldersOf(k)')
  BY CountersNext
<1>1. HoldersOf(k)' = HoldersOf(k)
  BY DEF HoldersOf, Quiet, KeepsHold, IInv, TypeOK
<1>2. \A v \in HoldersOf(k) : turn'[v].worst = turn[v].worst
  BY DEF HoldersOf, Quiet, KeepsHold, IInv, TypeOK
<1>3. HoldersOf(k) \in SUBSET Workers BY DEF HoldersOf
<1>4. Total(Worst', HoldersOf(k)) = Total(Worst, HoldersOf(k)) BY <1>2, <1>3, SumKept
<1> QED BY <1>1, <1>4, SumsOfTurns DEF CountersMatch, Quiet

\* Most actions of a worker are quiet; but for one of them they do not add to
\* what a worker may still spend of a budget.
LEMMA QuietActions ==
    ASSUME IInv, NEW w \in Workers,
           \/ \E u \in Users, group \in BOOLEAN : Begin(w, u, group)
           \/ ReadWallets(w) \/ ReadCounters(w) \/ Renew(w)
           \/ \E worst \in Costs : Admit(w, worst)
           \/ Refuse(w) \/ Fail(w) \/ Crash(w)
    PROVE  \E q : Quiet(w, q) /\ KeepsSpending(turn[w], q) /\ spent' = spent
<1> DEFINE t == turn[w]
<1> USE DEF Quiet, KeepsHold, KeepsSpending, Promises, Spends, Goes, dbVars, capVars
<1>1. t \in Turn /\ Sound(t) BY DEF IInv, TypeOK
<1>2. ASSUME NEW u \in Users, NEW group \in BOOLEAN, Begin(w, u, group)
      PROVE  \E q : Quiet(w, q) /\ KeepsSpending(t, q) /\ spent' = spent
  <2> DEFINE q == [IdleTurn EXCEPT !.stage = "reading", !.user = u, !.group = group,
                                   !.got = IF group THEN {} ELSE {"budgets"}]
  <2>1. /\ q.held = {} /\ q.stage = "reading" /\ q.group = group
        /\ q.got = IF group THEN {} ELSE {"budgets"}
    BY DEF IdleTurn
  <2>2. t.held = {} BY <1>1, <1>2 DEF Begin, Sound
  <2>3. turn' = [turn EXCEPT ![w] = q] /\ UNCHANGED <<reserved, expiries, spent>>
    BY <1>2 DEF Begin
  <2> HIDE DEF q
  <2> QED BY <2>1, <2>2, <2>3
<1>3. CASE ReadWallets(w)
  <2> DEFINE q == [t EXCEPT !.got = @ \cup {"wallets"}, !.bal = purchased[Payer(t)],
                            !.allow = free[Payer(t)], !.due = (renewals[Payer(t)] = 0)]
  <2>1. /\ q.held = t.held /\ q.stage = t.stage /\ q.group = t.group /\ q.user = t.user
        /\ q.spent = t.spent /\ q.got = t.got \cup {"wallets"}
    BY <1>1 DEF Turn
  <2>2. t.stage = "reading" /\ t.held = {} BY <1>1, <1>3 DEF ReadWallets, Reads, Sound
  <2>3. turn' = [turn EXCEPT ![w] = q] /\ UNCHANGED <<reserved, expiries, spent>>
    BY <1>3 DEF ReadWallets
  <2> HIDE DEF q
  <2> QED BY <2>1, <2>2, <2>3
<1>4. CASE ReadCounters(w)
  <2> DEFINE q == [t EXCEPT !.got = @ \cup {"counters"},
                            !.reserved = [k \in Keys |-> IF k \in KeysOf(t) THEN reserved[k] ELSE 0]]
  <2>1. /\ q.held = t.held /\ q.stage = t.stage /\ q.group = t.group /\ q.user = t.user
        /\ q.spent = t.spent /\ q.got = t.got \cup {"counters"}
    BY <1>1 DEF Turn
  <2>2. t.stage = "reading" /\ t.held = {} BY <1>1, <1>4 DEF ReadCounters, Reads, Sound
  <2>3. turn' = [turn EXCEPT ![w] = q] /\ UNCHANGED <<reserved, expiries, spent>>
    BY <1>4 DEF ReadCounters
  <2> HIDE DEF q
  <2> QED BY <2>1, <2>2, <2>3
<1>5. CASE Renew(w)
  <2> DEFINE q == [t EXCEPT !.due = FALSE, !.allow = Allowance]
  <2>1. /\ q.held = t.held /\ q.stage = t.stage /\ q.group = t.group /\ q.user = t.user
        /\ q.spent = t.spent /\ q.got = t.got
    BY <1>1 DEF Turn
  <2>2. t.stage = "reading" /\ t.held = {} BY <1>1, <1>5 DEF Renew, Sound
  <2>3. turn' = [turn EXCEPT ![w] = q] /\ UNCHANGED <<reserved, expiries, spent>>
    BY <1>5 DEF Renew
  <2> HIDE DEF q
  <2> QED BY <2>1, <2>2, <2>3
<1>6. ASSUME NEW worst \in Costs, Admit(w, worst)
      PROVE  \E q : Quiet(w, q) /\ KeepsSpending(t, q) /\ spent' = spent
  <2> DEFINE q == [t EXCEPT !.stage = "reserving", !.worst = worst, !.got = {},
                            !.reserved = Nothing]
  <2>1. /\ q.held = t.held /\ q.stage = "reserving" /\ q.group = t.group /\ q.user = t.user
        /\ q.spent = t.spent
    BY <1>1 DEF Turn
  <2>2. t.stage = "reading" /\ t.held = {} /\ "budgets" \in t.got
    BY <1>1, <1>6 DEF Admit, Known, Sound, Sources
  <2>3. turn' = [turn EXCEPT ![w] = q] /\ UNCHANGED <<reserved, expiries, spent>>
    BY <1>6 DEF Admit
  <2> HIDE DEF q
  <2> QED BY <2>1, <2>2, <2>3
<1>7. CASE Refuse(w)
  <2>1. t.held = {} BY <1>1, <1>7 DEF Refuse, Known, Sound
  <2>2. IdleTurn.held = {} /\ IdleTurn.stage = "idle" BY DEF IdleTurn
  <2>3. turn' = [turn EXCEPT ![w] = IdleTurn] /\ UNCHANGED <<reserved, expiries, spent>>
    BY <1>7 DEF Refuse
  <2> QED BY <2>1, <2>2, <2>3
<1>8. CASE Fail(w)
  <2> DEFINE q == [t EXCEPT !.stage = "releasing"]
  <2>1. q.held = t.held /\ q.stage = "releasing" /\ q.worst = t.worst BY <1>1 DEF Turn
  <2>2. turn' = [turn EXCEPT ![w] = q] /\ UNCHANGED <<reserved, expiries, spent>>
    BY <1>8 DEF Fail
  <2> HIDE DEF q
  <2> QED BY <2>1, <2>2
<1>9. CASE Crash(w)
  <2> DEFINE q == [IdleTurn EXCEPT !.stage = "dead", !.user = t.user, !.group = t.group,
                                   !.worst = t.worst, !.held = t.held]
  <2>1. q.held = t.held /\ q.stage = "dead" /\ q.worst = t.worst BY DEF IdleTurn
  <2>2. IdleTurn.held = {} /\ IdleTurn.stage = "idle" BY DEF IdleTurn
  <2>3. turn' = [turn EXCEPT ![w] = IF t.held = {} THEN IdleTurn ELSE q]
        /\ UNCHANGED <<reserved, expiries, spent>>
    BY <1>9 DEF Crash
  <2> HIDE DEF q
  <2> QED BY <2>1, <2>2, <2>3
<1> QED BY <1>2, <1>3, <1>4, <1>5, <1>6, <1>7, <1>8, <1>9

LEMMA ReadBudgetsQuiet ==
    ASSUME IInv, NEW w \in Workers, ReadBudgets(w)
    PROVE  \E q : /\ Quiet(w, q) /\ spent' = spent
                  /\ q.group = turn[w].group /\ q.user = turn[w].user
                  /\ q.spent = [k \in Keys |-> IF k \in KeysOf(turn[w]) THEN spent[k] ELSE 0]
<1> DEFINE t == turn[w]
           seen == [k \in Keys |-> IF k \in KeysOf(t) THEN spent[k] ELSE 0]
           q == [t EXCEPT !.got = @ \cup {"budgets"}, !.spent = seen]
<1>1. t \in Turn /\ Sound(t) BY DEF IInv, TypeOK
<1>2. /\ q.held = t.held /\ q.stage = t.stage /\ q.group = t.group /\ q.user = t.user
      /\ q.spent = seen
  BY <1>1 DEF Turn
<1>3. t.stage = "reading" /\ t.held = {} BY <1>1 DEF ReadBudgets, Reads, Sound
<1>4. turn' = [turn EXCEPT ![w] = q] /\ UNCHANGED <<reserved, expiries, spent>>
  BY DEF ReadBudgets, Goes, dbVars, capVars
<1> HIDE DEF q
<1> QED BY <1>2, <1>3, <1>4 DEF Quiet, KeepsHold, Promises

LEMMA SaveQuiet ==
    ASSUME IInv, NEW w \in Workers, NEW cost \in Costs, Save(w, cost)
    PROVE  \E q : Quiet(w, q) /\ ~Spends(q)
<1> DEFINE t == turn[w]
<1>1. t \in Turn BY DEF IInv, TypeOK
<1>2. PICK stage \in {"releasing", "unpaid"} : turn' = [turn EXCEPT ![w] = [t EXCEPT !.stage = stage]]
  BY DEF Save, Goes
<1> DEFINE q == [t EXCEPT !.stage = stage]
<1>3. q.held = t.held /\ q.stage = stage /\ q.worst = t.worst BY <1>1 DEF Turn
<1>4. turn' = [turn EXCEPT ![w] = q] /\ UNCHANGED <<reserved, expiries>>
  BY <1>2 DEF Save, capVars
<1> HIDE DEF q
<1> QED BY <1>3, <1>4 DEF Quiet, KeepsHold, Promises, Spends

\* What one call of Reserve does: the counter k grows by what the turn reserves,
\* and the turn, now q, is in it.
Adds(w, k, q) ==
    /\ k \notin turn[w].held
    /\ reserved' = [reserved EXCEPT ![k] = @ + turn[w].worst]
    /\ turn' = [turn EXCEPT ![w] = q]
    /\ q.held = turn[w].held \cup {k} /\ q.worst = turn[w].worst
    /\ q.group = turn[w].group /\ q.user = turn[w].user
    /\ q.spent = turn[w].spent /\ q.bal = turn[w].bal /\ q.allow = turn[w].allow
    /\ q.fits => /\ turn[w].fits
                 /\ reserved[k] + turn[w].worst <= Room(turn[w], k) + CushionOf(turn[w].bal)
    /\ turn[w].stage = "reserving"
    /\ UNCHANGED <<spent, expiries>>

LEMMA ReserveAdds ==
    ASSUME IInv, NEW w \in Workers, Reserve(w)
    PROVE  \E k \in Keys : \E q : Adds(w, k, q)
<1> DEFINE t == turn[w]
<1>1. PICK k \in KeysOf(t) :
          /\ IsFirst(k, KeysOf(t) \ t.held)
          /\ reserved' = [reserved EXCEPT ![k] = @ + t.worst]
          /\ turn' = [turn EXCEPT ![w] =
                [t EXCEPT !.held = @ \cup {k},
                          !.fits = t.fits /\ ~Overruns(t, k, reserved[k] + t.worst),
                          !.stage = IF KeysOf(t) # t.held \cup {k} THEN "reserving"
                                    ELSE IF t.fits /\ ~Overruns(t, k, reserved[k] + t.worst)
                                    THEN "streaming" ELSE "releasing"]]
  BY DEF Reserve, Goes
<1> DEFINE q == turn'[w]
<1>2. t \in Turn /\ Sound(t) /\ k \in Keys /\ t.stage = "reserving"
  BY KeysAreKeys DEF IInv, TypeOK, Reserve
<1>3. reserved[k] + t.worst \in Int /\ t.worst \in Nat
  BY <1>2, WorstIsNatural DEF IInv, TypeOK
<1>4. ~Overruns(t, k, reserved[k] + t.worst) =>
          reserved[k] + t.worst <= Room(t, k) + CushionOf(t.bal)
  BY <1>2, <1>3, LimitsAreIntegers DEF Overruns
<1>5. turn' = [turn EXCEPT ![w] = q] BY <1>1 DEF IInv, TypeOK
<1>6. /\ q.held = t.held \cup {k} /\ q.worst = t.worst
      /\ q.group = t.group /\ q.user = t.user
      /\ q.spent = t.spent /\ q.bal = t.bal /\ q.allow = t.allow
      /\ q.fits <=> (t.fits /\ ~Overruns(t, k, reserved[k] + t.worst))
  BY <1>1, <1>2 DEF IInv, TypeOK, Turn
<1>7. k \notin t.held BY <1>1 DEF IsFirst
<1>8. UNCHANGED <<spent, expiries>> BY DEF Reserve, dbVars, capVars
<1> HIDE DEF q
<1>9. Adds(w, k, q) BY <1>1, <1>2, <1>4, <1>5, <1>6, <1>7, <1>8 DEF Adds
<1> QED BY <1>2, <1>9

LEMMA ReserveCounters ==
    ASSUME IInv, IInv', CountersMatch, NEW w \in Workers, Reserve(w)
    PROVE  CountersMatch'
<1>0. PICK k \in Keys : \E q : Adds(w, k, q) BY ReserveAdds
<1>1. PICK q :
          /\ k \notin turn[w].held
          /\ reserved' = [reserved EXCEPT ![k] = @ + turn[w].worst]
          /\ turn' = [turn EXCEPT ![w] = q]
          /\ q.held = turn[w].held \cup {k} /\ q.worst = turn[w].worst
          /\ UNCHANGED expiries
  BY <1>0 DEF Adds
<1>2. \A v \in Workers : turn'[v].worst = turn[v].worst BY <1>1 DEF IInv, TypeOK
<1> SUFFICES ASSUME NEW j \in Keys
             PROVE  /\ reserved'[j] <= Total(Worst', HoldersOf(j)')
                    /\ expiries' = 0 => reserved'[j] = Total(Worst', HoldersOf(j)')
  BY CountersNext
<1> DEFINE H == HoldersOf(j)
<1>3. H \in SUBSET Workers BY DEF HoldersOf
<1>4. Total(Worst', H) = Total(Worst, H) BY <1>2, <1>3, SumKept
<1>5. /\ reserved[j] <= Total(Worst, H)
      /\ expiries = 0 => reserved[j] = Total(Worst, H)
  BY SumsOfTurns DEF CountersMatch
<1>6. CASE j # k
  <2>1. HoldersOf(j)' = H BY <1>1, <1>6 DEF HoldersOf, IInv, TypeOK
  <2>2. reserved'[j] = reserved[j] BY <1>1, <1>6 DEF IInv, TypeOK
  <2> QED BY <1>1, <1>4, <1>5, <2>1, <2>2
<1>7. CASE j = k
  <2>1. HoldersOf(j)' = H \cup {w} /\ w \notin H BY <1>1, <1>7 DEF HoldersOf, IInv, TypeOK
  <2>2. IsFiniteSet(H \cup {w}) /\ NaturalOn(Worst', H \cup {w})
    BY <1>3, WorstNext
  <2>3. Total(Worst', H \cup {w}) = Worst'[w] + Total(Worst', (H \cup {w}) \ {w})
    BY <2>2, SumTakes
  <2>4. (H \cup {w}) \ {w} = H BY <2>1
  <2>5. Worst'[w] = turn[w].worst BY <1>2 DEF Worst
  <2>6. reserved'[j] = reserved[j] + turn[w].worst BY <1>1, <1>7 DEF IInv, TypeOK
  <2>7. reserved[j] \in Nat /\ turn[w].worst \in Nat /\ Total(Worst, H) \in Nat
    BY <1>3, WorstOfWorkers, WorstIsNatural, SumsOfTurns DEF IInv, TypeOK
  <2> HIDE DEF H
  <2>8. Total(Worst', HoldersOf(j)') = turn[w].worst + Total(Worst, H)
    BY <1>4, <2>1, <2>3, <2>4, <2>5
  <2>9. expiries' = expiries BY <1>1
  <2> QED BY <1>5, <2>6, <2>7, <2>8, <2>9
<1> QED BY <1>6, <1>7

\* A turn without one of its counters.
LEMMA RemainderHolds ==
    ASSUME NEW t \in Turn, NEW k \in t.held
    PROVE  /\ Remainder(t, k).held = t.held \ {k}
           /\ Remainder(t, k).held # {} => Remainder(t, k).worst = t.worst
           /\ Remainder(t, k).stage \in {t.stage, "idle"}
           /\ Remainder(t, k).stage = "idle" => Remainder(t, k) = IdleTurn \/ t.stage = "idle"
<1>1. CASE t.held = {k} BY <1>1 DEF Remainder, IdleTurn
<1>2. CASE t.held # {k} BY <1>2 DEF Remainder, Turn
<1> QED BY <1>1, <1>2

LEMMA ReleaseCounters ==
    ASSUME IInv, CountersMatch, NEW w \in Workers, Release(w)
    PROVE  CountersMatch'
<1> DEFINE t == turn[w]
<1>1. PICK k \in Keys :
          /\ k \in t.held
          /\ reserved' = [reserved EXCEPT ![k] = IF @ > t.worst THEN @ - t.worst ELSE 0]
          /\ turn' = [turn EXCEPT ![w] = Remainder(t, k)]
          /\ UNCHANGED expiries
  BY DEF Release, Goes, IsFirst, capVars
<1> DEFINE q == Remainder(t, k)
<1>2. q.held = t.held \ {k} /\ (q.held # {} => q.worst = t.worst)
  BY <1>1, RemainderHolds DEF IInv, TypeOK
<1> HIDE DEF q
<1>3. turn' = [turn EXCEPT ![w] = q] BY <1>1 DEF q
<1> SUFFICES ASSUME NEW j \in Keys
             PROVE  /\ reserved'[j] <= Total(Worst', HoldersOf(j)')
                    /\ expiries' = 0 => reserved'[j] = Total(Worst', HoldersOf(j)')
  BY CountersNext
<1> DEFINE H == HoldersOf(j)
<1>4. H \in SUBSET Workers BY DEF HoldersOf
<1>5. /\ reserved[j] <= Total(Worst, H)
      /\ expiries = 0 => reserved[j] = Total(Worst, H)
  BY SumsOfTurns DEF CountersMatch
<1>6. CASE j # k
  <2>1. HoldersOf(j)' = H BY <1>2, <1>3, <1>6 DEF HoldersOf, IInv, TypeOK
  <2>2. reserved'[j] = reserved[j] BY <1>1, <1>6 DEF IInv, TypeOK
  <2>3. \A v \in H : turn'[v].worst = turn[v].worst
    BY <1>2, <1>3, <1>6 DEF HoldersOf, IInv, TypeOK
  <2>4. Total(Worst', H) = Total(Worst, H) BY <1>4, <2>3, SumKept
  <2> QED BY <1>1, <1>5, <2>1, <2>2, <2>4
<1>7. CASE j = k
  <2>1. HoldersOf(j)' = H \ {w} /\ w \in H BY <1>1, <1>2, <1>3, <1>7 DEF HoldersOf, IInv, TypeOK
  <2>2. \A v \in H \ {w} : turn'[v].worst = turn[v].worst
    BY <1>3 DEF HoldersOf, IInv, TypeOK
  <2>3. Total(Worst', H \ {w}) = Total(Worst, H \ {w}) BY <1>4, <2>2, SumKept
  <2>4. IsFiniteSet(H) /\ NaturalOn(Worst, H) BY <1>4, WorstOfWorkers
  <2>5. Total(Worst, H) = Worst[w] + Total(Worst, H \ {w})
    BY <2>1, <2>4, SumTakes
  <2>6. Worst[w] = t.worst BY DEF Worst
  <2>7. reserved'[j] = IF reserved[j] > t.worst THEN reserved[j] - t.worst ELSE 0
    BY <1>1, <1>7 DEF IInv, TypeOK
  <2>8. H \ {w} \in SUBSET Workers BY <1>4
  <2>9. reserved[j] \in Nat /\ t.worst \in Nat /\ Total(Worst, H \ {w}) \in Nat
    BY <2>8, WorstOfWorkers, WorstIsNatural, SumsOfTurns DEF IInv, TypeOK
  <2> HIDE DEF H, t
  <2> QED BY <1>1, <1>5, <2>1, <2>3, <2>5, <2>6, <2>7, <2>9
<1> QED BY <1>6, <1>7

LEMMA ExpireCounters ==
    ASSUME IInv, IInv', CountersMatch, NEW k \in Keys, Expire(k)
    PROVE  CountersMatch'
<1>1. \A v \in Workers :
          turn'[v] = IF turn[v].stage # "dead" THEN turn[v] ELSE Remainder(turn[v], k)
  BY DEF Expire
<1>2. \A v \in Workers, j \in Keys :
          j # k => /\ j \in turn'[v].held <=> j \in turn[v].held
                   /\ j \in turn[v].held => turn'[v].worst = turn[v].worst
  <2> SUFFICES ASSUME NEW v \in Workers, NEW j \in Keys, j # k
               PROVE  /\ j \in turn'[v].held <=> j \in turn[v].held
                      /\ j \in turn[v].held => turn'[v].worst = turn[v].worst
    OBVIOUS
  <2>1. CASE turn[v].stage # "dead" BY <1>1, <2>1
  <2>2. CASE turn[v].stage = "dead"
    <3>1. turn'[v] = Remainder(turn[v], k) /\ turn[v] \in Turn
      BY <1>1, <2>2 DEF IInv, TypeOK
    <3>2. CASE k \in turn[v].held BY <3>1, <3>2, RemainderHolds
    <3>3. CASE k \notin turn[v].held BY <3>1, <3>3 DEF Remainder, Turn
    <3> QED BY <3>2, <3>3
  <2> QED BY <2>1, <2>2
<1> SUFFICES ASSUME NEW j \in Keys
             PROVE  /\ reserved'[j] <= Total(Worst', HoldersOf(j)')
                    /\ expiries' = 0 => reserved'[j] = Total(Worst', HoldersOf(j)')
  BY CountersNext
<1> DEFINE H == HoldersOf(j)
<1>3. H \in SUBSET Workers /\ HoldersOf(j)' \in SUBSET Workers BY DEF HoldersOf
<1>4. CASE j # k
  <2>1. HoldersOf(j)' = H BY <1>2, <1>4 DEF HoldersOf
  <2>2. reserved'[j] = reserved[j] BY <1>4 DEF Expire, IInv, TypeOK
  <2>3. \A v \in H : turn'[v].worst = turn[v].worst BY <1>2, <1>4 DEF HoldersOf
  <2>4. Total(Worst', H) = Total(Worst, H) BY <1>3, <2>3, SumKept
  <2>5. expiries' = 0 => expiries = 0 BY DEF Expire, IInv, TypeOK
  <2> QED BY <2>1, <2>2, <2>4, <2>5, SumsOfTurns DEF CountersMatch
<1>5. CASE j = k
  <2>1. reserved'[j] = 0 BY <1>5 DEF Expire, IInv, TypeOK
  <2>2. Total(Worst', HoldersOf(j)') \in Nat BY <1>3, WorstNext
  <2>3. expiries' = 0 => HoldersOf(j)' = {}
    <3> SUFFICES ASSUME expiries' = 0, NEW v \in Workers, k \in turn'[v].held
                 PROVE  FALSE
      BY <1>5 DEF HoldersOf
    <3>1. Living(HoldersOf(k)) = {} BY DEF Expire, IInv, TypeOK
    <3>2. CASE turn[v].stage # "dead" BY <1>1, <3>1, <3>2 DEF Living, HoldersOf
    <3>3. CASE turn[v].stage = "dead"
      <4>1. turn'[v] = Remainder(turn[v], k) /\ turn[v] \in Turn
        BY <1>1, <3>3 DEF IInv, TypeOK
      <4>2. CASE k \in turn[v].held BY <4>1, <4>2, RemainderHolds
      <4>3. CASE k \notin turn[v].held BY <4>1, <4>3 DEF Remainder, Turn
      <4> QED BY <4>2, <4>3
    <3> QED BY <3>2, <3>3
  <2> QED BY <2>1, <2>2, <2>3, SumOfNone
<1> QED BY <1>4, <1>5

LEMMA CountersStep ==
    ASSUME IInv, IInv', CountersMatch, [Next]_vars
    PROVE  CountersMatch'
<1>1. ASSUME UNCHANGED <<reserved, expiries, turn>> PROVE CountersMatch'
  BY <1>1, SumsOfTurns, CountersNext DEF CountersMatch, HoldersOf, Worst
<1>2. CASE UNCHANGED vars BY <1>1, <1>2 DEF vars, capVars
<1>3. CASE (\E u \in Users : Deposit(u)) \/ Midnight
  BY <1>1, <1>3 DEF Deposit, Midnight, capVars
<1>4. ASSUME NEW w \in Workers, Work(w) PROVE CountersMatch'
  BY <1>4, QuietActions, ReadBudgetsQuiet, SaveQuiet, QuietCounters,
     ReserveCounters, ReleaseCounters DEF Work
<1>5. ASSUME NEW w \in Workers,
             Crash(w) \/ \E u \in Users, group \in BOOLEAN : Begin(w, u, group)
      PROVE  CountersMatch'
  BY <1>5, QuietActions, QuietCounters
<1> QED BY <1>2, <1>3, <1>4, <1>5, ExpireCounters DEF Next

\* No step makes a counter disagree with the turns that are in it: it says no
\* more than they reserved, and exactly that while no TTL has passed under one.
THEOREM CountersAlwaysMatch == Spec => []CountersMatch
<1>1. Init => CountersMatch
  <2> SUFFICES ASSUME Init, NEW k \in Keys
               PROVE  reserved[k] = 0 /\ Together(HoldersOf(k)) = 0
    BY DEF CountersMatch
  <2>1. HoldersOf(k) = {} BY DEF Init, HoldersOf, IdleTurn
  <2>2. reserved[k] = 0 BY DEF Init, Nothing
  <2> QED BY <2>1, <2>2, SumsOfTurns, SumOfNone
<1>2. IInv /\ IInv' /\ CountersMatch /\ [Next]_vars => CountersMatch'
  BY CountersStep
<1> QED BY <1>1, <1>2, Always, PTL DEF Spec

-----------------------------------------------------------------------------
(* What the reservations promise *)

\* The turns that every check so far let pass, as far as the limit k goes.
Fitting(k) == {w \in HoldersOf(k) : turn[w].stage \in {"reserving", "streaming"} /\ turn[w].fits}

\* FreshTurnsFit is about turns that have read what is still true.  What holds
\* of all of them, and in every step: of any of these turns, the one that was
\* last to be checked has seen the reservations of the others.
FitTogether ==
    \A k \in Keys : expiries = 0 =>
        \A ws \in SUBSET Fitting(k) : ws # {} =>
            \E w \in ws : Together(ws) <= Room(turn[w], k) + CushionOf(turn[w].bal)

LEMMA FitNext ==
    FitTogether' <=>
        \A k \in Keys : expiries' = 0 =>
            \A ws \in SUBSET Fitting(k)' : ws # {} =>
                \E w \in ws : Total(Worst', ws) <= Room(turn'[w], k) + CushionOf(turn'[w].bal)
  BY SumsOfTurns DEF FitTogether, Room, CushionOf, Budget

\* Turns that stay as they are fit as they did.
LEMMA StillFits ==
    ASSUME FitTogether, expiries = 0, NEW k \in Keys, NEW ws \in SUBSET Fitting(k), ws # {},
           \A w \in ws : turn'[w] = turn[w]
    PROVE  \E w \in ws : Total(Worst', ws) <= Room(turn'[w], k) + CushionOf(turn'[w].bal)
<1>1. ws \in SUBSET Workers BY DEF Fitting, HoldersOf
<1>2. Total(Worst', ws) = Total(Worst, ws) BY <1>1, SumKept
<1>3. PICK w \in ws : Total(Worst, ws) <= Room(turn[w], k) + CushionOf(turn[w].bal)
  BY SumsOfTurns DEF FitTogether
<1> QED BY <1>2, <1>3

\* A step that leaves every turn alone except one that promises nothing.
LEMMA FitsWithout ==
    ASSUME IInv, FitTogether, NEW w \in Workers, NEW q, ~Promises(q),
           turn' = [turn EXCEPT ![w] = q], expiries' = 0 => expiries = 0
    PROVE  FitTogether'
<1> SUFFICES ASSUME NEW k \in Keys, expiries' = 0, NEW ws \in SUBSET Fitting(k)', ws # {}
             PROVE  \E v \in ws : Total(Worst', ws) <= Room(turn'[v], k) + CushionOf(turn'[v].bal)
  BY FitNext
<1>1. turn'[w] = q /\ \A v \in Workers : v # w => turn'[v] = turn[v] BY DEF IInv, TypeOK
<1>2. \A v \in ws : /\ v \in Workers /\ k \in turn'[v].held
                    /\ turn'[v].stage \in {"reserving", "streaming"} /\ turn'[v].fits
  BY DEF Fitting, HoldersOf
<1>3. \A v \in ws : v # w BY <1>1, <1>2 DEF Promises
<1>4. ws \in SUBSET Fitting(k) BY <1>1, <1>2, <1>3 DEF Fitting, HoldersOf
<1> QED BY <1>1, <1>2, <1>3, <1>4, StillFits

LEMMA ReserveFits ==
    ASSUME IInv, IInv', FitTogether, CountersMatch', NEW w \in Workers, Reserve(w)
    PROVE  FitTogether'
<1>0. PICK k \in Keys : \E q : Adds(w, k, q) BY ReserveAdds
<1>1. PICK q :
          /\ k \notin turn[w].held
          /\ reserved' = [reserved EXCEPT ![k] = @ + turn[w].worst]
          /\ turn' = [turn EXCEPT ![w] = q]
          /\ q.held = turn[w].held \cup {k} /\ q.worst = turn[w].worst
          /\ q.group = turn[w].group /\ q.user = turn[w].user
          /\ q.spent = turn[w].spent /\ q.bal = turn[w].bal /\ q.allow = turn[w].allow
          /\ q.fits => /\ turn[w].fits
                       /\ reserved[k] + turn[w].worst <= Room(turn[w], k) + CushionOf(turn[w].bal)
          /\ turn[w].stage = "reserving"
          /\ UNCHANGED <<spent, expiries>>
  BY <1>0 DEF Adds
<1> SUFFICES ASSUME NEW j \in Keys, expiries' = 0, NEW ws \in SUBSET Fitting(j)', ws # {}
             PROVE  \E v \in ws : Total(Worst', ws) <= Room(turn'[v], j) + CushionOf(turn'[v].bal)
  BY FitNext
<1>2. turn'[w] = q /\ \A v \in Workers : v # w => turn'[v] = turn[v]
  BY <1>1 DEF IInv, TypeOK
<1>3. \A v \in ws : /\ v \in Workers /\ j \in turn'[v].held
                    /\ turn'[v].stage \in {"reserving", "streaming"} /\ turn'[v].fits
  BY DEF Fitting, HoldersOf
<1>4. Room(q, j) = Room(turn[w], j) /\ CushionOf(q.bal) = CushionOf(turn[w].bal)
  BY <1>1 DEF Room
<1>5. CASE w \notin ws
  <2>1. ws \in SUBSET Fitting(j) BY <1>2, <1>3, <1>5 DEF Fitting, HoldersOf
  <2> QED BY <1>1, <1>2, <1>3, <1>5, <2>1, StillFits
<1>6. CASE w \in ws /\ j # k
  <2>1. ws \in SUBSET Fitting(j) BY <1>1, <1>2, <1>3, <1>6 DEF Fitting, HoldersOf
  <2>2. PICK v \in ws : Total(Worst, ws) <= Room(turn[v], j) + CushionOf(turn[v].bal)
    BY <1>1, <2>1, SumsOfTurns DEF FitTogether
  <2>3. ws \in SUBSET Workers /\ \A u \in ws : turn'[u].worst = turn[u].worst
    BY <1>1, <1>2, <1>3
  <2>4. Total(Worst', ws) = Total(Worst, ws) BY <2>3, SumKept
  <2>5. Room(turn'[v], j) = Room(turn[v], j) /\ CushionOf(turn'[v].bal) = CushionOf(turn[v].bal)
    BY <1>2, <1>3, <1>4
  <2> QED BY <2>2, <2>4, <2>5
<1>7. CASE w \in ws /\ j = k
  <2>1. HoldersOf(k)' \in SUBSET Workers /\ ws \in SUBSET HoldersOf(k)'
    BY <1>7 DEF Fitting, HoldersOf
  <2>2. Total(Worst', ws) <= Total(Worst', HoldersOf(k)') BY <2>1, WorstNext, SumGrows
  <2>3. Total(Worst', HoldersOf(k)') = reserved'[k] BY CountersNext
  <2>4. reserved'[k] = reserved[k] + turn[w].worst BY <1>1 DEF IInv, TypeOK
  <2>5. q.fits BY <1>2, <1>3, <1>7
  <2>6. Total(Worst', ws) <= Room(turn[w], k) + CushionOf(turn[w].bal)
    <3>1. Total(Worst', ws) \in Nat /\ Total(Worst', HoldersOf(k)') \in Nat
      BY <2>1, WorstNext
    <3>2. Room(turn[w], k) \in Int /\ CushionOf(turn[w].bal) \in Nat
      BY LimitsAreIntegers DEF IInv, TypeOK
    <3>3. reserved'[k] <= Room(turn[w], k) + CushionOf(turn[w].bal) BY <1>1, <2>4, <2>5
    <3> QED BY <2>2, <2>3, <3>1, <3>2, <3>3
  <2>7. Total(Worst', ws) <= Room(turn'[w], j) + CushionOf(turn'[w].bal)
    BY <1>2, <1>4, <1>7, <2>6
  <2> QED BY <1>7, <2>7
<1> QED BY <1>5, <1>6, <1>7

LEMMA ReleaseFits ==
    ASSUME IInv, FitTogether, NEW w \in Workers, Release(w)
    PROVE  FitTogether'
<1>1. PICK k \in turn[w].held : turn' = [turn EXCEPT ![w] = Remainder(turn[w], k)]
  BY DEF Release, Goes, IsFirst
<1>2. Remainder(turn[w], k).stage \in {"releasing", "unpaid", "idle"}
  BY RemainderHolds DEF Release, IInv, TypeOK
<1>3. ~Promises(Remainder(turn[w], k)) BY <1>2 DEF Promises
<1>4. expiries' = expiries BY DEF Release, capVars
<1> QED BY <1>1, <1>3, <1>4, FitsWithout

LEMMA ExpireFits ==
    ASSUME IInv, FitTogether, NEW k \in Keys, Expire(k)
    PROVE  FitTogether'
<1> SUFFICES ASSUME NEW j \in Keys, expiries' = 0, NEW ws \in SUBSET Fitting(j)', ws # {}
             PROVE  \E v \in ws : Total(Worst', ws) <= Room(turn'[v], j) + CushionOf(turn'[v].bal)
  BY FitNext
<1>1. \A v \in Workers :
          turn'[v] = IF turn[v].stage # "dead" THEN turn[v] ELSE Remainder(turn[v], k)
  BY DEF Expire
<1>2. \A v \in ws : turn'[v] = turn[v]
  <2> SUFFICES ASSUME NEW v \in ws, turn[v].stage = "dead" PROVE FALSE
    BY <1>1 DEF Fitting, HoldersOf
  <2>1. v \in Workers /\ turn'[v].stage \in {"reserving", "streaming"} BY DEF Fitting, HoldersOf
  <2>2. turn'[v] = Remainder(turn[v], k) /\ turn[v] \in Turn BY <1>1, <2>1 DEF IInv, TypeOK
  <2> QED BY <2>1, <2>2 DEF Remainder, IdleTurn, Turn
<1>3. ws \in SUBSET Fitting(j) BY <1>2 DEF Fitting, HoldersOf
<1>4. expiries = 0 BY DEF Expire, IInv, TypeOK
<1> QED BY <1>2, <1>3, <1>4, StillFits

LEMMA FitStep ==
    ASSUME IInv, IInv', CountersMatch', FitTogether, [Next]_vars
    PROVE  FitTogether'
<1>1. ASSUME UNCHANGED <<expiries, turn>> PROVE FitTogether'
  BY <1>1, SumsOfTurns, FitNext DEF FitTogether, Fitting, HoldersOf, Worst
<1>2. CASE UNCHANGED vars BY <1>1, <1>2 DEF vars, capVars
<1>3. CASE (\E u \in Users : Deposit(u)) \/ Midnight
  BY <1>1, <1>3 DEF Deposit, Midnight, capVars
<1>4. ASSUME NEW w \in Workers, NEW q, Quiet(w, q) PROVE FitTogether'
  BY <1>4, FitsWithout DEF Quiet
<1>5. ASSUME NEW w \in Workers, Work(w) PROVE FitTogether'
  BY <1>4, <1>5, QuietActions, ReadBudgetsQuiet, SaveQuiet, ReserveFits, ReleaseFits DEF Work
<1>6. ASSUME NEW w \in Workers,
             Crash(w) \/ \E u \in Users, group \in BOOLEAN : Begin(w, u, group)
      PROVE  FitTogether'
  BY <1>4, <1>6, QuietActions
<1> QED BY <1>2, <1>3, <1>5, <1>6, ExpireFits DEF Next

LEMMA AlwaysFitTogether == Spec => []FitTogether
<1>1. Init => FitTogether
  <2>1. ASSUME Init, NEW k \in Keys PROVE Fitting(k) = {}
    BY <2>1 DEF Init, Fitting, HoldersOf, IdleTurn
  <2> QED BY <2>1 DEF FitTogether
<1>2. IInv /\ IInv' /\ CountersMatch' /\ FitTogether /\ [Next]_vars => FitTogether'
  BY FitStep
<1> QED BY <1>1, <1>2, Always, CountersAlwaysMatch, PTL DEF Spec

\* As long as no counter expired under a turn, the running turns that have read
\* what is still true of a limit stay within it together.
THEOREM FreshTurnsAlwaysFit == Spec => []FreshTurnsFit
<1>1. ASSUME IInv, FitTogether PROVE FreshTurnsFit
  <2> SUFFICES ASSUME NEW k \in Keys, expiries = 0,
                      {w \in Workers : turn[w].stage = "streaming" /\ k \in KeysOf(turn[w])} # {},
                      \A w \in {w \in Workers : turn[w].stage = "streaming" /\ k \in KeysOf(turn[w])} :
                          Room(turn[w], k) = RoomNow(k)
               PROVE  \E w \in {w \in Workers : turn[w].stage = "streaming" /\ k \in KeysOf(turn[w])} :
                          Together({v \in Workers : turn[v].stage = "streaming" /\ k \in KeysOf(turn[v])})
                              <= RoomNow(k) + CushionOf(turn[w].bal)
    BY DEF FreshTurnsFit
  <2> DEFINE running == {w \in Workers : turn[w].stage = "streaming" /\ k \in KeysOf(turn[w])}
  <2>1. running \in SUBSET Fitting(k)
    BY <1>1 DEF IInv, Sound, Fitting, HoldersOf
  <2>2. running # {} /\ \A w \in running : Room(turn[w], k) = RoomNow(k) OBVIOUS
  <2> HIDE DEF running
  <2>3. PICK w \in running : Together(running) <= Room(turn[w], k) + CushionOf(turn[w].bal)
    BY <1>1, <2>1, <2>2 DEF FitTogether
  <2>4. \E v \in running : Together(running) <= RoomNow(k) + CushionOf(turn[v].bal)
    BY <2>2, <2>3
  <2> QED BY <2>4 DEF running
<1> QED BY <1>1, Always, AlwaysFitTogether, PTL

-----------------------------------------------------------------------------
(* How far a budget is overshot *)

LEMMA Multiples ==
    ASSUME NEW c \in Nat, NEW n \in Nat
    PROVE  /\ n * c \in Nat /\ (n + 1) * c = n * c + c /\ 0 * c = 0
           /\ \A m \in Nat : n <= m => n * c <= m * c
<1>1. /\ n * c \in Nat /\ (n + 1) * c = n * c + c /\ 0 * c = 0 OBVIOUS
<1>2. ASSUME NEW m \in Nat, n <= m PROVE n * c <= m * c
  <2>1. m - n \in Nat BY <1>2
  <2>2. (m - n) * c \in Nat BY <2>1
  <2>3. m * c = n * c + (m - n) * c BY <1>2
  <2>4. m * c \in Nat BY <1>2
  <2> QED BY <1>1, <2>2, <2>3, <2>4
<1> QED BY <1>1, <1>2

\* The dearest turn, and one of every worker but one.
Dearest == Max(Costs)
Others  == (Cardinality(Workers) - 1) * Dearest

LEMMA DearestTurn == Dearest \in Nat /\ \A c \in Costs \cup {0} : c <= Dearest
<1>1. Dearest \in Costs /\ \A c \in Costs : c <= Dearest
  BY CostsAssumption, GreatestNatural DEF Dearest
<1> QED BY <1>1, CostsAssumption

LEMMA OthersNatural ==
    /\ Others \in Nat
    /\ \A ws \in SUBSET Workers :
          /\ IsFiniteSet(ws) /\ Cardinality(ws) \in Nat
          /\ ws # {} => /\ Cardinality(ws) - 1 \in Nat
                        /\ (Cardinality(ws) - 1) * Dearest <= Others
<1>1. ASSUME NEW ws \in SUBSET Workers
      PROVE  /\ IsFiniteSet(ws) /\ Cardinality(ws) \in Nat
             /\ Cardinality(ws) <= Cardinality(Workers)
             /\ ws # {} => Cardinality(ws) - 1 \in Nat
  BY WorkersAssumption, FS_Subset, FS_CardinalityType, FS_EmptySet
<1>2. Cardinality(Workers) - 1 \in Nat BY <1>1, WorkersAssumption
<1>3. Others \in Nat BY <1>2, DearestTurn, Multiples DEF Others
<1>4. ASSUME NEW ws \in SUBSET Workers, ws # {}
      PROVE  (Cardinality(ws) - 1) * Dearest <= Others
  <2>1. /\ Cardinality(ws) - 1 \in Nat
        /\ Cardinality(ws) - 1 <= Cardinality(Workers) - 1
    BY <1>1, <1>2, <1>4
  <2> QED BY <1>2, <2>1, DearestTurn, Multiples DEF Others
<1> QED BY <1>1, <1>3, <1>4

\* The workers that may still add to what is spent of k.
Able(k) == {w \in Workers : k \in KeysOf(turn[w]) /\ Spends(turn[w])}

\* Whatever set of these workers one looks at: either the dearest turn of each
\* still stays within the bound, or one of them has read so much of what is
\* spent that its own check leaves the room for the rest.
SpendingFits ==
    \A k \in Keys : k[1] # "payer" =>
        \A ws \in SUBSET Able(k) :
            \/ spent[k] + Cardinality(ws) * Dearest <= Budget(k) + Cushion + Others
            \/ \E w \in ws : spent[k] - turn[w].spent[k] + (Cardinality(ws) - 1) * Dearest <= Others

LEMMA SpendingNext ==
    SpendingFits' <=>
        \A k \in Keys : k[1] # "payer" =>
            \A ws \in SUBSET Able(k)' :
                \/ spent'[k] + Cardinality(ws) * Dearest <= Budget(k) + Cushion + Others
                \/ \E w \in ws : spent'[k] - turn'[w].spent[k] + (Cardinality(ws) - 1) * Dearest <= Others
  BY DEF SpendingFits, Budget, Dearest, Others

LEMMA AbleNext ==
    ASSUME NEW k \in Keys, NEW w \in Able(k)'
    PROVE  w \in Workers /\ k \in KeysOf(turn'[w]) /\ Spends(turn'[w])
  BY DEF Able, KeysOf, KeyOf, Payer, Spends

LEMMA AbleBefore ==
    ASSUME NEW k \in Keys, NEW w \in Able(k)',
           turn'[w] = turn[w] \/ KeepsSpending(turn[w], turn'[w])
    PROVE  w \in Able(k) /\ turn'[w].spent = turn[w].spent
<1>1. w \in Workers /\ k \in KeysOf(turn'[w]) /\ Spends(turn'[w]) BY AbleNext
<1>2. CASE turn'[w] = turn[w] BY <1>1, <1>2 DEF Able
<1>3. CASE KeepsSpending(turn[w], turn'[w])
  <2>1. Spends(turn[w]) /\ turn'[w].group = turn[w].group /\ turn'[w].user = turn[w].user
        /\ turn'[w].spent = turn[w].spent
    BY <1>1, <1>3 DEF KeepsSpending
  <2>2. KeysOf(turn'[w]) = KeysOf(turn[w]) BY <2>1 DEF KeysOf, KeyOf, Payer
  <2> QED BY <1>1, <2>1, <2>2 DEF Able
<1> QED BY <1>2, <1>3

\* Nothing is spent, and no turn can spend that could not.
LEMMA SpendingKept ==
    ASSUME IInv, SpendingFits, spent' = spent,
           \A w \in Workers : turn'[w] = turn[w] \/ KeepsSpending(turn[w], turn'[w])
    PROVE  SpendingFits'
<1> SUFFICES ASSUME NEW k \in Keys, k[1] # "payer", NEW ws \in SUBSET Able(k)'
             PROVE  \/ spent'[k] + Cardinality(ws) * Dearest <= Budget(k) + Cushion + Others
                    \/ \E w \in ws : spent'[k] - turn'[w].spent[k]
                                     + (Cardinality(ws) - 1) * Dearest <= Others
  BY SpendingNext
<1>1. \A w \in ws : w \in Able(k) /\ turn'[w].spent = turn[w].spent
  BY AbleNext, AbleBefore
<1>2. ws \in SUBSET Able(k) BY <1>1
<1>3. CASE spent[k] + Cardinality(ws) * Dearest <= Budget(k) + Cushion + Others BY <1>3
<1>4. CASE \E w \in ws : spent[k] - turn[w].spent[k] + (Cardinality(ws) - 1) * Dearest <= Others
  BY <1>1, <1>4
<1> QED BY <1>2, <1>3, <1>4 DEF SpendingFits

LEMMA ReadBudgetsSpending ==
    ASSUME IInv, SpendingFits, NEW w \in Workers, ReadBudgets(w)
    PROVE  SpendingFits'
<1>1. PICK q : /\ turn' = [turn EXCEPT ![w] = q] /\ spent' = spent
               /\ q.group = turn[w].group /\ q.user = turn[w].user
               /\ q.spent = [k \in Keys |-> IF k \in KeysOf(turn[w]) THEN spent[k] ELSE 0]
  BY ReadBudgetsQuiet DEF Quiet
<1> SUFFICES ASSUME NEW k \in Keys, k[1] # "payer", NEW ws \in SUBSET Able(k)'
             PROVE  \/ spent'[k] + Cardinality(ws) * Dearest <= Budget(k) + Cushion + Others
                    \/ \E v \in ws : spent'[k] - turn'[v].spent[k]
                                     + (Cardinality(ws) - 1) * Dearest <= Others
  BY SpendingNext
<1>2. turn'[w] = q /\ \A v \in Workers : v # w => turn'[v] = turn[v] BY <1>1 DEF IInv, TypeOK
<1>3. ws \in SUBSET Workers BY DEF Able
<1>4. CASE w \notin ws
  <2>1. \A v \in ws : v \in Able(k) /\ turn'[v].spent = turn[v].spent
    BY <1>2, <1>3, <1>4, AbleBefore
  <2>2. ws \in SUBSET Able(k) BY <2>1
  <2>3. CASE spent[k] + Cardinality(ws) * Dearest <= Budget(k) + Cushion + Others BY <1>1, <2>3
  <2>4. CASE \E v \in ws : spent[k] - turn[v].spent[k] + (Cardinality(ws) - 1) * Dearest <= Others
    BY <1>1, <2>1, <2>4
  <2> QED BY <2>2, <2>3, <2>4 DEF SpendingFits
<1>5. CASE w \in ws
  <2>1. KeysOf(q) = KeysOf(turn[w]) BY <1>1 DEF KeysOf, KeyOf, Payer
  <2>2. q.spent[k] = spent[k]
    <3>1. k \in KeysOf(turn[w]) BY <1>2, <1>5, <2>1, AbleNext
    <3> QED BY <1>1, <3>1
  <2>3. spent[k] \in Nat BY DEF IInv, TypeOK
  <2>4. (Cardinality(ws) - 1) * Dearest <= Others BY <1>3, <1>5, OthersNatural
  <2>5. (Cardinality(ws) - 1) * Dearest \in Nat
    BY <1>3, <1>5, OthersNatural, DearestTurn, Multiples
  <2>6. spent[k] - spent[k] + (Cardinality(ws) - 1) * Dearest <= Others
    <3> HIDE DEF Others, Dearest
    <3> QED BY <2>3, <2>4, <2>5
  <2> QED BY <1>1, <1>2, <1>5, <2>2, <2>6
<1> QED BY <1>4, <1>5

LEMMA SaveSpending ==
    ASSUME IInv, SpendingFits, NEW w \in Workers, NEW cost \in Costs, Save(w, cost)
    PROVE  SpendingFits'
<1> DEFINE t == turn[w]
<1>1. PICK q : turn' = [turn EXCEPT ![w] = q] /\ ~Spends(q)
  BY SaveQuiet DEF Quiet
<1>2. t \in Turn /\ Sound(t) /\ t.stage = "streaming" /\ cost <= t.worst
  BY DEF Save, IInv, TypeOK
<1>3. cost \in Nat /\ t.worst \in Nat /\ Dearest \in Nat /\ cost <= Dearest
  BY <1>2, CostsAssumption, WorstIsNatural, DearestTurn
<1> SUFFICES ASSUME NEW k \in Keys, k[1] # "payer", NEW ws \in SUBSET Able(k)'
             PROVE  \/ spent'[k] + Cardinality(ws) * Dearest <= Budget(k) + Cushion + Others
                    \/ \E v \in ws : spent'[k] - turn'[v].spent[k]
                                     + (Cardinality(ws) - 1) * Dearest <= Others
  BY SpendingNext
<1>4. turn'[w] = q /\ \A v \in Workers : v # w => turn'[v] = turn[v] BY <1>1 DEF IInv, TypeOK
<1>5. ws \in SUBSET Workers /\ w \notin ws BY <1>1, <1>4, AbleNext
<1>6. \A v \in ws : v \in Able(k) /\ turn'[v].spent = turn[v].spent
  BY <1>4, <1>5, AbleBefore
<1>7. spent[k] \in Nat /\ \A v \in Workers : turn[v].spent[k] \in Nat
  BY DEF IInv, TypeOK, Turn
<1>8. \/ spent'[k] = spent[k]
      \/ t.group /\ k \in KeysOf(t) /\ spent'[k] = spent[k] + cost
  BY DEF Save, dbVars
<1>9. CASE spent'[k] = spent[k]
  <2>1. ws \in SUBSET Able(k) BY <1>6
  <2>2. CASE spent[k] + Cardinality(ws) * Dearest <= Budget(k) + Cushion + Others BY <1>9, <2>2
  <2>3. CASE \E v \in ws : spent[k] - turn[v].spent[k] + (Cardinality(ws) - 1) * Dearest <= Others
    BY <1>6, <1>9, <2>3
  <2> QED BY <2>1, <2>2, <2>3 DEF SpendingFits
<1>10. CASE t.group /\ k \in KeysOf(t) /\ spent'[k] = spent[k] + cost
  <2> DEFINE n == Cardinality(ws)
             c == n * Dearest
             b == Budget(k) + Cushion
  <2>1. ws \cup {w} \in SUBSET Able(k) BY <1>2, <1>6, <1>10 DEF Able, Spends
  <2>2. n \in Nat /\ Cardinality(ws \cup {w}) = n + 1
    BY <1>5, OthersNatural, FS_AddElement
  <2>3. c \in Nat /\ (n + 1) * Dearest = c + Dearest BY <1>3, <2>2, Multiples
  <2>4. b \in Nat /\ Others \in Nat BY AmountsAssumption, OthersNatural DEF Budget
  <2>5. \/ spent[k] + (n + 1) * Dearest <= b + Others
        \/ \E v \in ws \cup {w} : spent[k] - turn[v].spent[k] + (n + 1 - 1) * Dearest <= Others
    BY <2>1, <2>2 DEF SpendingFits
  <2>6. n + 1 - 1 = n BY <2>2
  <2>7. t.worst <= b - t.spent[k]
    <3>1. t.worst <= Room(t, k) + CushionOf(t.bal) BY <1>2, <1>10 DEF Sound, Within
    <3>2. Room(t, k) = Budget(k) - t.spent[k] BY DEF Room
    <3>3. CushionOf(t.bal) \in {0, Cushion} BY DEF CushionOf
    <3>4. Budget(k) \in Nat /\ Cushion \in Nat BY AmountsAssumption DEF Budget
    <3> QED BY <1>3, <1>7, <3>1, <3>2, <3>3, <3>4
  <2>8. CASE spent[k] + (n + 1) * Dearest <= b + Others
    <3> HIDE DEF n, c, b
    <3>1. spent'[k] + c <= b + Others BY <1>3, <1>7, <1>10, <2>3, <2>4, <2>8
    <3> QED BY <3>1 DEF n, c, b
  <2>9. CASE spent[k] - t.spent[k] + c <= Others
    <3> HIDE DEF n, c, b
    <3>1. spent'[k] + c <= b + Others BY <1>2, <1>3, <1>7, <1>10, <2>3, <2>4, <2>7, <2>9
    <3> QED BY <3>1 DEF n, c, b
  <2>10. ASSUME NEW v \in ws, spent[k] - turn[v].spent[k] + c <= Others
         PROVE  spent'[k] - turn'[v].spent[k] + (n - 1) * Dearest <= Others
    <3>1. n - 1 \in Nat BY <1>5, <2>10, OthersNatural
    <3>2. (n - 1) * Dearest \in Nat /\ (n - 1 + 1) * Dearest = (n - 1) * Dearest + Dearest
      BY <1>3, <3>1, Multiples
    <3>3. n - 1 + 1 = n BY <2>2
    <3> DEFINE d == (n - 1) * Dearest
    <3>4. c = d + Dearest BY <3>2, <3>3
    <3>5. turn'[v].spent[k] = turn[v].spent[k] /\ turn[v].spent[k] \in Nat
      BY <1>5, <1>6, <1>7, <2>10
    <3>6. d \in Nat BY <3>2
    <3> HIDE DEF n, c, d
    <3>7. spent'[k] - turn'[v].spent[k] + d <= Others
      BY <1>3, <1>7, <1>10, <2>4, <2>10, <3>4, <3>5, <3>6
    <3> QED BY <3>7 DEF d
  <2> HIDE DEF b
  <2> QED BY <2>5, <2>6, <2>8, <2>9, <2>10 DEF b
<1> QED BY <1>8, <1>9, <1>10

LEMMA SpendingStep ==
    ASSUME IInv, SpendingFits, [Next]_vars
    PROVE  SpendingFits'
<1>1. CASE UNCHANGED <<spent, turn>> BY <1>1, SpendingKept
<1>2. ASSUME NEW w \in Workers, NEW q, turn' = [turn EXCEPT ![w] = q],
             KeepsSpending(turn[w], q), spent' = spent
      PROVE  SpendingFits'
  <2>1. \A v \in Workers : turn'[v] = IF v = w THEN q ELSE turn[v] BY <1>2 DEF IInv, TypeOK
  <2> QED BY <1>2, <2>1, SpendingKept
<1>3. ASSUME NEW w \in Workers,
             \/ \E u \in Users, group \in BOOLEAN : Begin(w, u, group)
             \/ ReadWallets(w) \/ ReadCounters(w) \/ Renew(w)
             \/ \E worst \in Costs : Admit(w, worst)
             \/ Refuse(w) \/ Fail(w) \/ Crash(w)
      PROVE  SpendingFits'
  BY <1>2, <1>3, QuietActions DEF Quiet
<1>4. ASSUME NEW w \in Workers, Reserve(w) PROVE SpendingFits'
  <2>1. PICK q : /\ turn' = [turn EXCEPT ![w] = q] /\ turn[w].stage = "reserving"
                 /\ q.group = turn[w].group /\ q.user = turn[w].user
                 /\ q.spent = turn[w].spent /\ spent' = spent
    BY <1>4, ReserveAdds DEF Adds
  <2>2. KeepsSpending(turn[w], q) BY <2>1 DEF KeepsSpending, Spends
  <2> QED BY <1>2, <2>1, <2>2
<1>5. ASSUME NEW w \in Workers, Release(w) PROVE SpendingFits'
  <2>1. PICK k \in turn[w].held : turn' = [turn EXCEPT ![w] = Remainder(turn[w], k)]
    BY <1>5 DEF Release, Goes, IsFirst
  <2>2. Remainder(turn[w], k).stage \in {"releasing", "unpaid", "idle"}
    BY <1>5, RemainderHolds DEF Release, IInv, TypeOK
  <2>3. KeepsSpending(turn[w], Remainder(turn[w], k)) BY <2>2 DEF KeepsSpending, Spends
  <2>4. spent' = spent BY <1>5 DEF Release, dbVars
  <2> QED BY <1>2, <2>1, <2>3, <2>4
<1>6. ASSUME NEW k \in Keys, Expire(k) PROVE SpendingFits'
  <2>1. \A v \in Workers :
            turn'[v] = IF turn[v].stage # "dead" THEN turn[v] ELSE Remainder(turn[v], k)
    BY <1>6 DEF Expire
  <2>2. ASSUME NEW v \in Workers, turn[v].stage = "dead"
        PROVE  KeepsSpending(turn[v], turn'[v])
    <3>1. turn'[v] = Remainder(turn[v], k) /\ turn[v] \in Turn BY <2>1, <2>2 DEF IInv, TypeOK
    <3>2. turn'[v].stage \in {"dead", "idle"} BY <2>2, <3>1 DEF Remainder, IdleTurn, Turn
    <3> QED BY <3>2 DEF KeepsSpending, Spends
  <2>3. spent' = spent BY <1>6 DEF Expire, dbVars
  <2> QED BY <2>1, <2>2, <2>3, SpendingKept
<1>7. ASSUME NEW w \in Workers, Work(w) PROVE SpendingFits'
  BY <1>3, <1>4, <1>5, <1>7, ReadBudgetsSpending, SaveSpending DEF Work
<1>8. CASE UNCHANGED vars BY <1>1, <1>8 DEF vars, dbVars
<1>9. CASE (\E u \in Users : Deposit(u)) \/ Midnight BY <1>1, <1>9 DEF Deposit, Midnight
<1> QED BY <1>3, <1>6, <1>7, <1>8, <1>9 DEF Next

\* However many turns of a group run at once, and whatever they have read: a
\* budget is overshot by no more than the cushion and one turn of every other
\* worker.
THEOREM OvershootIsBounded == Spec => []OvershootBound
<1>1. Init => SpendingFits
  <2> SUFFICES ASSUME Init, NEW k \in Keys, NEW ws \in SUBSET Able(k)
               PROVE  spent[k] + Cardinality(ws) * Dearest <= Budget(k) + Cushion + Others
    BY DEF SpendingFits
  <2>1. ws = {} BY DEF Init, Able, Spends, IdleTurn
  <2>2. spent[k] = 0 BY DEF Init, Nothing
  <2>3. Cardinality(ws) * Dearest = 0 BY <2>1, FS_EmptySet, DearestTurn, Multiples
  <2>4. Budget(k) \in Nat /\ Cushion \in Nat BY AmountsAssumption DEF Budget
  <2> QED BY <2>2, <2>3, <2>4, OthersNatural
<1>2. ASSUME IInv, SpendingFits PROVE OvershootBound
  <2> SUFFICES ASSUME NEW k \in Keys, k[1] # "payer"
               PROVE  spent[k] <= Budget(k) + Cushion + Others
    BY DEF OvershootBound, Others, Dearest
  <2>1. Cardinality({}) * Dearest = 0 BY FS_EmptySet, DearestTurn, Multiples
  <2>2. spent[k] + Cardinality({}) * Dearest <= Budget(k) + Cushion + Others
    BY <1>2 DEF SpendingFits
  <2>3. spent[k] \in Nat BY <1>2 DEF IInv, TypeOK
  <2> QED BY <2>1, <2>2, <2>3
<1>3. IInv /\ SpendingFits /\ [Next]_vars => SpendingFits' BY SpendingStep
<1> QED BY <1>1, <1>2, <1>3, Always, PTL DEF Spec

-----------------------------------------------------------------------------
(* One turn at a time *)

\* Where turns do not overlap no budget goes beyond the cushion: what overshoots
\* it is other turns between a turn's reads and its charge, and nothing else.
COROLLARY AloneWithinBudget ==
    ASSUME Cardinality(Workers) = 1
    PROVE  Spec => []NoOvershoot
<1>1. Others = 0
  BY DearestTurn, Multiples DEF Others
<1>2. OvershootBound => NoOvershoot
  <2> SUFFICES ASSUME OvershootBound, NEW k \in Keys, k[1] # "payer"
               PROVE  spent[k] <= Budget(k) + Cushion
    BY DEF NoOvershoot
  <2>1. spent[k] <= Budget(k) + Cushion + Others
    BY DEF OvershootBound, Others, Dearest
  <2>2. Budget(k) \in Nat /\ Cushion \in Nat
    BY AmountsAssumption DEF Budget
  <2> QED BY <1>1, <2>1, <2>2
<1> QED BY <1>2, OvershootIsBounded, PTL

=============================================================================
