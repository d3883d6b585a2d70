----------------------- MODULE EpochMembershipProofs -----------------------
(***************************************************************************)
(* Theorems of EpochMembership for every value of its constants.           *)
(*                                                                         *)
(* MembersHoldCurrentKey, ForwardSecrecy and OwnerStays say nothing of the *)
(* requests in flight, and a rotation that was validated before another    *)
(* transaction changed the members could break each of them.  IInv adds    *)
(* what a request still guarantees at each of its stages, LocksOK above    *)
(* all: until the rotation commits, everyone it does not remove either has *)
(* a wrap among its grants or is recorded as raced.                        *)
(***************************************************************************)
EXTENDS EpochMembership, TLAPS

InFlight(r) == req[r].stage # "idle"
Gated(r)    == req[r].stage \in {"gated", "locked"}
Locked(r)   == req[r].stage = "locked"

\* A request names what it needs, and never a row or an epoch yet to come.
RequestsOK ==
    \A r \in Requests :
        /\ ~InFlight(r) => req[r].target = None
        /\ InFlight(r) =>
              /\ exists
              /\ req[r].actor \in Users
              /\ req[r].target \in Principals
              /\ req[r].row <= member[req[r].target].row
              /\ req[r].expected <= currentEpoch
              /\ req[r].op = "leave" => /\ req[r].target = req[r].actor
                                        /\ req[r].target # Owner
              /\ req[r].op \in {"linkFull", "linkFresh", "revoke"} => req[r].target \in Links
              /\ req[r].op \in {"linkFull", "linkFresh"} =>
                    /\ member[req[r].target].row = 0
                    /\ \A s \in Requests \ {r} : req[s].target # req[r].target
        /\ Gated(r) =>
              /\ req[r].op \in JoinOps => /\ req[r].expected <= req[r].seen
                                          /\ req[r].seen <= currentEpoch
              /\ req[r].op \in {"remove", "privilege"} => req[r].target # Owner

\* Rows, clients and wraps lag behind the conversation and never lead it.
StoreOK ==
    /\ \A p \in Principals : member[p].active => /\ exists
                                                 /\ member[p].row > 0
                                                 /\ gone[p] = 0
    /\ raced \subseteq Active
    /\ \A w \in wraps : w.epoch <= currentEpoch
    /\ exists => \A u \in Users : held[u] <= currentEpoch

\* What a validated rotation still guarantees until it commits.
LocksOK ==
    /\ \A r, s \in Requests : Locked(r) /\ Locked(s) => r = s
    /\ \A r \in Requests : Locked(r) =>
          /\ req[r].op \in RotatingOps
          /\ req[r].expected = currentEpoch
          /\ \A p \in Arriving(req[r]) :
                /\ ~member[p].active
                /\ [who |-> p, from |-> VisibleFrom(req[r])] \in req[r].grants
          /\ \A p \in Active \ (Departing(req[r]) \cup raced) :
                [who |-> p, from |-> member[p].from] \in req[r].grants
          /\ \A g \in req[r].grants :
                /\ g.who \notin Departing(req[r])
                /\ g.who \in Arriving(req[r]) \/ gone[g.who] = 0

\* Whoever a rotation removed is left with wraps of epochs before that rotation.
SecrecyOK ==
    \A w \in wraps : gone[w.who] # 0 => w.epoch < gone[w.who]

IInv == /\ TypeOK
        /\ RequestsOK
        /\ StoreOK
        /\ LocksOK
        /\ SecrecyOK
        /\ MembersHoldCurrentKey
        /\ OwnerStays
-----------------------------------------------------------------------------
(* Types *)

\* An idle request and an absent member's row have the types of the others.
LEMMA EmptyRecordsTyped ==
    /\ IdleRequest \in Request
    /\ NoMember \in Member
BY DEF IdleRequest, Request, NoMember, Member, PrivilegeLevels, Read, OwnerLevel

\* The levels the client offers for an operation are privilege levels.
LEMMA LevelsTyped ==
    \A op \in Ops : LevelsOffered(op) \subseteq PrivilegeLevels
BY LevelsAssumption
   DEF LevelsOffered, PrivilegeLevels, Read, Admin, OwnerLevel, Ops, KeyOps,
       RotatingOps, JoinOps

\* The row of a member who joins is a member row.
LEMMA JoinedTyped ==
    ASSUME TypeOK, NEW p \in Principals, NEW level \in PrivilegeLevels, NEW from \in Nat
    PROVE  Joined(p, level, from) \in Member
BY DEF TypeOK, Joined, Member

\* A row with left_at set is a member row.
LEMMA DepartedTyped ==
    ASSUME TypeOK, NEW p \in Principals
    PROVE  Departed(p) \in Member
BY EmptyRecordsTyped DEF TypeOK, Departed, NoMember, Member, PrivilegeLevels, Read, OwnerLevel

\* Ending a request leaves the requests typed.
LEMMA FinishTyped ==
    ASSUME TypeOK, NEW r \in Requests, Finish(r)
    PROVE  req' \in [Requests -> Request]
BY EmptyRecordsTyped DEF TypeOK, Finish

\* createOrGetConversation leaves every variable in its type.
LEMMA TypeInit == Init => TypeOK
BY EmptyRecordsTyped, PrincipalsAssumption
   DEF Init, TypeOK, Member, Wrap, Principals, PrivilegeLevels, Read, OwnerLevel

\* A request the client sends is a request.
LEMMA TypeSend ==
    ASSUME TypeOK, NEW r \in Requests, NEW op \in Ops, NEW a \in Users,
           NEW t \in Principals, NEW level \in LevelsOffered(op), Send(r, op, a, t, level)
    PROVE  TypeOK'
<1>1. level \in PrivilegeLevels
  BY LevelsTyped
<1>2. KeySet(op, t) \in SUBSET Principals
  BY DEF KeySet, Active
<1>3. member[t].row \in Nat /\ held[a] \in Nat
  BY DEF TypeOK, Member
<1> DEFINE q == [IdleRequest EXCEPT
                      !.stage = "sent", !.op = op, !.actor = a, !.target = t,
                      !.row = IF op \in {"remove", "privilege"} THEN member[t].row ELSE 0,
                      !.expected = IF op \in KeyOps THEN held[a] ELSE 0,
                      !.provided = KeySet(op, t),
                      !.level = level]
<1>4. q \in Request
  BY <1>1, <1>2, <1>3, EmptyRecordsTyped, ZenonT(60) DEF Request, IdleRequest
<1>5. req' \in [Requests -> Request]
  BY <1>4 DEF Send, TypeOK
<1> QED
  BY <1>5 DEF Send, TypeOK, dbVars, historyVars

\* The gates and the ends of a request change it within its type.
LEMMA TypeRequestSteps ==
    ASSUME TypeOK, NEW r \in Requests,
           Gate(r) \/ GateRefuses(r) \/ Lost(r) \/ Refuses(r) \/ Begin(r)
    PROVE  TypeOK'
<1>1. CASE Gate(r)
  <2>1. currentEpoch \in Nat /\ req[r] \in Request
    BY DEF TypeOK
  <2>2. \A p \in Principals : member[p].row \in Nat
    BY DEF TypeOK, Member
  <2>3. /\ req[r].op = "leave" => member[req[r].actor].row \in Nat
        /\ req[r].row \in Nat
    BY <1>1, <2>1, <2>2 DEF Gate, GatePasses, TypeOK, Principals, Request
  <2>4. req' \in [Requests -> Request]
    BY <1>1, <2>1, <2>3 DEF Gate, TypeOK, Request
  <2> QED
    BY <1>1, <2>4 DEF Gate, TypeOK, dbVars, historyVars
<1>2. CASE GateRefuses(r) \/ Lost(r) \/ Refuses(r)
  <2>1. Finish(r) /\ UNCHANGED <<dbVars, held, historyVars>>
    BY <1>2 DEF GateRefuses, Lost, Refuses
  <2>2. req' \in [Requests -> Request]
    BY <2>1, FinishTyped
  <2> QED
    BY <2>1, <2>2 DEF TypeOK, dbVars, historyVars
<1>3. CASE Begin(r)
  <2>1. req[r] \in Request /\ req[r].provided \subseteq Principals
    BY DEF TypeOK, Request
  <2>2. VisibleFrom(req[r]) \in Nat
    BY <2>1 DEF VisibleFrom, Request
  <2>3. GrantsOf(req[r]) \subseteq Grant
    BY <2>1, <2>2 DEF GrantsOf, Grant, TypeOK, Member
  <2>4. req' \in [Requests -> Request]
    BY <1>3, <2>1, <2>3 DEF Begin, TypeOK, Request
  <2> QED
    BY <1>3, <2>4 DEF Begin, TypeOK, dbVars, historyVars
<1> QED
  BY <1>1, <1>2, <1>3

\* An invitation with full history inserts a member row and a wrap.
LEMMA TypeInsert ==
    ASSUME TypeOK, NEW r \in Requests, AddFull(r) \/ LinkFull(r), req[r].target \in Principals
    PROVE  TypeOK'
<1> DEFINE q == req[r]
<1>1. q \in Request
  BY DEF TypeOK
<1>2. VisibleFrom(q) \in Nat
  BY <1>1 DEF VisibleFrom, Request
<1>3. NewWrap(q) \in Wrap
  BY <1>1, <1>2 DEF NewWrap, Wrap, Request
<1>4. Joined(q.target, q.level, VisibleFrom(q)) \in Member
  BY <1>1, <1>2, JoinedTyped DEF Request
<1>5. InsertWithWrap(q) /\ Finish(r)
      /\ UNCHANGED <<exists, currentEpoch, titleEpoch, revoked, accounts, held>>
  BY DEF AddFull, LinkFull
<1>6. req' \in [Requests -> Request]
  BY <1>5, FinishTyped
<1>7. member' \in [Principals -> Member]
  BY <1>4, <1>5 DEF InsertWithWrap, TypeOK
<1>8. /\ wraps' \subseteq Wrap
      /\ gone' \in [Principals -> Nat]
      /\ floor' \in [Principals -> Nat]
      /\ raced' \subseteq Principals
  BY <1>3, <1>5 DEF InsertWithWrap, TypeOK
<1> QED
  BY <1>5, <1>6, <1>7, <1>8 DEF TypeOK

\* A committed rotation leaves the store typed.
LEMMA TypeCommit ==
    ASSUME TypeOK, NEW r \in Requests, Commit(r),
           req[r].target \in Principals, req[r].actor \in Users,
           req[r].op = "revoke" => req[r].target \in Links
    PROVE  TypeOK'
<1> DEFINE q == req[r]
           n == q.expected + 1
<1>1. q \in Request /\ n \in Nat
  BY DEF TypeOK, Request
<1>2. VisibleFrom(q) \in Nat
  BY <1>1 DEF VisibleFrom, Request
<1>3. RotatedWraps(q) \subseteq Wrap
  BY <1>1 DEF RotatedWraps, Wrap, Request, Grant, TypeOK
<1>4. \A p \in Principals : /\ Departed(p) \in Member
                            /\ Joined(p, q.level, VisibleFrom(q)) \in Member
                            /\ member[p] \in Member
  BY <1>1, <1>2, DepartedTyped, JoinedTyped DEF TypeOK, Request
<1>5. member' \in [Principals -> Member]
  BY <1>4 DEF Commit
<1>6. req' \in [Requests -> Request]
  BY FinishTyped DEF Commit
<1>7. held' \in [Users -> Nat]
  BY <1>1 DEF Commit, TypeOK
<1>8. gone' \in [Principals -> Nat] /\ floor' \in [Principals -> Nat]
  BY <1>1 DEF Commit, TypeOK
<1>9. raced' \subseteq Principals /\ revoked' \subseteq Links
  BY DEF Commit, TypeOK
<1> QED
  BY <1>1, <1>3, <1>5, <1>6, <1>7, <1>8, <1>9 DEF Commit, TypeOK

\* So do fetches and the handlers of one statement.
LEMMA TypeOneStatement ==
    ASSUME TypeOK,
           \/ \E u \in Users : FetchKeys(u) \/ Accept(u) \/ Decline(u) \/ DeleteAccount(u)
           \/ Rename \/ Delete
    PROVE  TypeOK'
<1>1. ASSUME NEW u \in Users, FetchKeys(u)
      PROVE  TypeOK'
  BY <1>1 DEF FetchKeys, TypeOK, dbVars, historyVars
<1>2. ASSUME NEW u \in Users, Accept(u)
      PROVE  TypeOK'
  BY <1>2 DEF Accept, TypeOK, Member, historyVars, Principals
<1>3. ASSUME NEW u \in Users, Decline(u)
      PROVE  TypeOK'
  BY <1>3, DepartedTyped DEF Decline, TypeOK, Principals
<1>4. ASSUME NEW u \in Users, DeleteAccount(u)
      PROVE  TypeOK'
  BY <1>4, DepartedTyped DEF DeleteAccount, TypeOK, Principals
<1>5. CASE Rename
  BY <1>5, PrincipalsAssumption DEF Rename, TypeOK, historyVars
<1>6. CASE Delete
  BY <1>6, EmptyRecordsTyped DEF Delete, TypeOK
<1> QED
  BY <1>1, <1>2, <1>3, <1>4, <1>5, <1>6

\* And the transactions that do not rotate.
LEMMA TypeNoRotation ==
    ASSUME TypeOK, NEW r \in Requests, ChangePrivilege(r) \/ RevokeBare(r),
           req[r].op = "revoke" => req[r].target \in Links
    PROVE  TypeOK'
<1> DEFINE q == req[r]
<1>1. q \in Request /\ q.level \in PrivilegeLevels
  BY DEF TypeOK, Request
<1>2. CASE ChangePrivilege(r)
  <2>1. req' \in [Requests -> Request]
    BY <1>2, FinishTyped DEF ChangePrivilege
  <2>2. member' \in [Principals -> Member]
    <3>1. member \in [Principals -> Member]
      BY DEF TypeOK
    <3>2. \A p \in Principals : [member[p] EXCEPT !.level = q.level] \in Member
      BY <1>1, <3>1 DEF Member
    <3>3. \/ member' = member
          \/ member' = [member EXCEPT ![q.target] = [member[q.target] EXCEPT !.level = q.level]]
      BY <1>2 DEF ChangePrivilege
    <3> QED BY <3>1, <3>2, <3>3
  <2> QED
    BY <1>2, <2>1, <2>2 DEF ChangePrivilege, TypeOK, historyVars
<1>3. CASE RevokeBare(r)
  <2>1. req' \in [Requests -> Request]
    BY <1>3, FinishTyped DEF RevokeBare
  <2> QED
    BY <1>3, <2>1 DEF RevokeBare, IsBare, TypeOK, historyVars
<1> QED
  BY <1>2, <1>3

-----------------------------------------------------------------------------
(* The inductive invariant *)

\* The inductive invariant holds of a conversation just created.
LEMMA InitIInv == Init => IInv
<1> SUFFICES ASSUME Init PROVE IInv
  OBVIOUS
<1>1. TypeOK
  BY TypeInit
<1>2. RequestsOK /\ LocksOK
  BY DEF Init, RequestsOK, LocksOK, InFlight, Gated, Locked, IdleRequest
<1>3. StoreOK
  <2>1. \A p \in Principals : /\ gone[p] = 0
                              /\ member[p].active => p = Owner /\ member[p].row = 1
    BY DEF Init, NoMember
  <2>2. \A w \in wraps : w.epoch <= currentEpoch
    BY DEF Init
  <2>3. \A u \in Users : held[u] <= currentEpoch
    BY DEF Init
  <2> QED
    BY <2>1, <2>2, <2>3 DEF Init, StoreOK
<1>4. SecrecyOK
  BY PrincipalsAssumption DEF Init, SecrecyOK, Principals
<1>5. MembersHoldCurrentKey
  BY DEF Init, MembersHoldCurrentKey, Active, NoMember
<1>6. OwnerStays
  BY PrincipalsAssumption DEF Init, OwnerStays, Principals
<1> QED
  BY <1>1, <1>2, <1>3, <1>4, <1>5, <1>6 DEF IInv

\* Facts of a request that a step uses, drawn from IInv in one place.
LEMMA FlightFacts ==
    ASSUME IInv, NEW r \in Requests, req[r].stage # "idle"
    PROVE  /\ exists
           /\ req[r].actor \in Users
           /\ req[r].target \in Principals
           /\ req[r].op = "revoke" => req[r].target \in Links
BY DEF IInv, RequestsOK, InFlight

\* A step that changes neither requests nor what IInv says of the store.
LEMMA FetchKeysKeeps ==
    ASSUME IInv, NEW u \in Users, FetchKeys(u)
    PROVE  IInv'
<1>1. TypeOK'
  BY TypeOneStatement DEF IInv
<1>2. RequestsOK' /\ LocksOK'
  BY DEF IInv, FetchKeys, dbVars, historyVars, RequestsOK, LocksOK, InFlight, Gated,
         Locked, Arriving, Departing, Active, VisibleFrom
<1>3. StoreOK'
  BY DEF IInv, TypeOK, FetchKeys, dbVars, historyVars, StoreOK, Active
<1>4. SecrecyOK' /\ MembersHoldCurrentKey' /\ OwnerStays'
  BY DEF IInv, FetchKeys, dbVars, historyVars, SecrecyOK, MembersHoldCurrentKey,
         OwnerStays, Active
<1> QED
  BY <1>1, <1>2, <1>3, <1>4 DEF IInv

\* A title written under a stale epoch touches nothing the invariant names.
LEMMA RenameKeeps ==
    ASSUME IInv, Rename
    PROVE  IInv'
<1>1. TypeOK'
  BY TypeOneStatement DEF IInv
<1>2. RequestsOK' /\ LocksOK'
  BY DEF IInv, Rename, historyVars, RequestsOK, LocksOK, InFlight, Gated,
         Locked, Arriving, Departing, Active, VisibleFrom
<1>3. StoreOK' /\ SecrecyOK' /\ MembersHoldCurrentKey' /\ OwnerStays'
  BY DEF IInv, Rename, historyVars, StoreOK, SecrecyOK, MembersHoldCurrentKey,
         OwnerStays, Active
<1> QED
  BY <1>1, <1>2, <1>3 DEF IInv

\* A deleted conversation leaves no wrap, no member and no request.
LEMMA DeleteKeeps ==
    ASSUME IInv, Delete
    PROVE  IInv'
<1>1. TypeOK'
  BY TypeOneStatement DEF IInv
<1>2. RequestsOK' /\ LocksOK'
  BY DEF Delete, RequestsOK, LocksOK, InFlight, Gated, Locked, IdleRequest
<1>3. StoreOK' /\ SecrecyOK' /\ MembersHoldCurrentKey' /\ OwnerStays'
  BY DEF Delete, StoreOK, SecrecyOK, MembersHoldCurrentKey, OwnerStays, Active, NoMember
<1> QED
  BY <1>1, <1>2, <1>3 DEF IInv

\* A request that ends without a trace.
LEMMA EndKeeps ==
    ASSUME IInv, NEW r \in Requests, GateRefuses(r) \/ Lost(r) \/ Refuses(r)
    PROVE  IInv'
<1>1. TypeOK'
  BY TypeRequestSteps DEF IInv
<1>2. Finish(r) /\ UNCHANGED <<dbVars, held, historyVars>>
  BY DEF GateRefuses, Lost, Refuses
<1>3. \A s \in Requests : req'[s] = IF s = r THEN IdleRequest ELSE req[s]
  BY <1>2 DEF Finish, IInv, TypeOK
<1>4. RequestsOK'
  BY <1>2, <1>3, PrincipalsAssumption
     DEF IInv, dbVars, RequestsOK, InFlight, Gated, IdleRequest, Principals
<1>5. LocksOK'
  BY <1>2, <1>3
     DEF IInv, dbVars, historyVars, LocksOK, Locked, IdleRequest, Arriving, Departing,
         Active, VisibleFrom
<1>6. StoreOK' /\ SecrecyOK' /\ MembersHoldCurrentKey' /\ OwnerStays'
  BY <1>2 DEF IInv, dbVars, historyVars, StoreOK, SecrecyOK, MembersHoldCurrentKey,
              OwnerStays, Active
<1> QED
  BY <1>1, <1>4, <1>5, <1>6 DEF IInv

\* A new request takes its target from the members and links there are.
LEMMA SendKeeps ==
    ASSUME IInv, NEW r \in Requests, NEW op \in Ops, NEW a \in Users,
           NEW t \in Principals, NEW level \in LevelsOffered(op), Send(r, op, a, t, level)
    PROVE  IInv'
<1>1. TypeOK'
  BY TypeSend DEF IInv
<1>2. /\ req'[r].stage = "sent" /\ req'[r].op = op /\ req'[r].actor = a
      /\ req'[r].target = t
      /\ req'[r].row = IF op \in {"remove", "privilege"} THEN member[t].row ELSE 0
      /\ req'[r].expected = IF op \in KeyOps THEN held[a] ELSE 0
      /\ \A s \in Requests \ {r} : req'[s] = req[s]
  BY DEF Send, IInv, TypeOK, IdleRequest
<1>3. /\ exists /\ a \in Active /\ Offered(op, a, t)
      /\ req[r].stage = "idle"
      /\ UNCHANGED <<dbVars, held, historyVars>>
  BY DEF Send
<1>4. /\ \A p \in Principals : member[p].row \in Nat
      /\ accounts \subseteq Users
      /\ currentEpoch \in Nat
  BY DEF IInv, TypeOK, Member
<1>5. /\ op = "leave" => t = a /\ t # Owner
      /\ op \in {"linkFull", "linkFresh", "revoke"} => t \in Links
      /\ op \in {"linkFull", "linkFresh"} => /\ member[t].row = 0
                                             /\ \A s \in Requests : req[s].target # t
  BY <1>3 DEF Offered
<1>6. op \notin {"linkFull", "linkFresh"} => t \in Users \/ member[t].row > 0
  <2>1. \A p \in Active : member[p].row > 0
    BY DEF IInv, StoreOK, Active
  <2> QED
    BY <1>3, <1>4, <2>1 DEF Offered, Ops, KeyOps, RotatingOps, JoinOps
<1>7. held[a] <= currentEpoch /\ held[a] \in Nat
  BY <1>3 DEF IInv, StoreOK, TypeOK
<1>8. RequestsOK'
  <2> SUFFICES ASSUME NEW s \in Requests
               PROVE  /\ ~InFlight(s)' => req'[s].target = None
                      /\ InFlight(s)' =>
                            /\ exists'
                            /\ req'[s].actor \in Users
                            /\ req'[s].target \in Principals
                            /\ req'[s].row <= member'[req'[s].target].row
                            /\ req'[s].expected <= currentEpoch'
                            /\ req'[s].op = "leave" => /\ req'[s].target = req'[s].actor
                                                       /\ req'[s].target # Owner
                            /\ req'[s].op \in {"linkFull", "linkFresh", "revoke"}
                                  => req'[s].target \in Links
                            /\ req'[s].op \in {"linkFull", "linkFresh"} =>
                                  /\ member'[req'[s].target].row = 0
                                  /\ \A z \in Requests \ {s} : req'[z].target # req'[s].target
                      /\ Gated(s)' =>
                            /\ req'[s].op \in JoinOps =>
                                  /\ req'[s].expected <= req'[s].seen
                                  /\ req'[s].seen <= currentEpoch'
                            /\ req'[s].op \in {"remove", "privilege"}
                                  => req'[s].target # Owner
    BY DEF RequestsOK
  <2>1. CASE s = r
    BY <1>2, <1>3, <1>4, <1>5, <1>7, <2>1 DEF InFlight, Gated, dbVars
  <2>2. CASE s # r
    <3>1. /\ InFlight(s) /\ req[s].op \in {"linkFull", "linkFresh"}
             => t # req[s].target
      BY <1>2, <1>4, <1>5, <1>6, <2>2, PrincipalsAssumption
         DEF IInv, RequestsOK, InFlight
    <3> QED
      BY <1>2, <1>3, <2>2, <3>1 DEF IInv, RequestsOK, InFlight, Gated, dbVars
  <2> QED
    BY <2>1, <2>2
<1>9. LocksOK'
  BY <1>2, <1>3
     DEF IInv, dbVars, historyVars, LocksOK, Locked, Arriving, Departing, Active, VisibleFrom
<1>10. StoreOK' /\ SecrecyOK' /\ MembersHoldCurrentKey' /\ OwnerStays'
  BY <1>3 DEF IInv, dbVars, historyVars, StoreOK, SecrecyOK, MembersHoldCurrentKey,
              OwnerStays, Active
<1> QED
  BY <1>1, <1>8, <1>9, <1>10 DEF IInv

\* A request passes the gates: what they read holds for it from here on.
LEMMA GateKeeps ==
    ASSUME IInv, NEW r \in Requests, Gate(r)
    PROVE  IInv'
<1> DEFINE q == req[r]
<1>1. TypeOK'
  BY TypeRequestSteps DEF IInv
<1>2. /\ q.stage = "sent" /\ GatePasses(q)
      /\ UNCHANGED <<dbVars, held, historyVars>>
  BY DEF Gate
<1>3. /\ req'[r].stage = "gated" /\ req'[r].op = q.op /\ req'[r].actor = q.actor
      /\ req'[r].target = q.target /\ req'[r].expected = q.expected
      /\ req'[r].seen = IF q.op \in JoinOps THEN currentEpoch ELSE 0
      /\ req'[r].row = IF q.op = "leave" THEN member[q.actor].row ELSE q.row
      /\ \A s \in Requests \ {r} : req'[s] = req[s]
  BY DEF Gate, IInv, TypeOK, Request
<1>4. q \in Request /\ currentEpoch \in Nat /\ \A p \in Principals : member[p] \in Member
  BY DEF IInv, TypeOK
<1>5. q.op \in {"remove", "privilege"} => q.target # Owner
  <2>1. exists /\ q.actor \in Principals
    BY <1>2, FlightFacts DEF Principals
  <2>2. member[Owner].level = OwnerLevel
    BY <2>1 DEF IInv, OwnerStays
  <2>3. member[q.actor].level <= OwnerLevel
    BY <1>4, <2>1 DEF Member, PrivilegeLevels, Read, OwnerLevel
  <2> QED
    BY <1>2, <1>4, <2>1, <2>2, <2>3
       DEF GatePasses, CanChangePrivilege, Member, PrivilegeLevels, Read, OwnerLevel
<1>6. RequestsOK'
  BY <1>2, <1>3, <1>4, <1>5
     DEF IInv, RequestsOK, InFlight, Gated, dbVars, Member, Request
<1>7. LocksOK'
  BY <1>2, <1>3
     DEF IInv, dbVars, historyVars, LocksOK, Locked, Arriving, Departing, Active, VisibleFrom
<1>8. StoreOK' /\ SecrecyOK' /\ MembersHoldCurrentKey' /\ OwnerStays'
  BY <1>2 DEF IInv, dbVars, historyVars, StoreOK, SecrecyOK, MembersHoldCurrentKey,
              OwnerStays, Active
<1> QED
  BY <1>1, <1>6, <1>7, <1>8 DEF IInv

\* Other transactions while a rotation is open: LocksOK survives a step that
\* leaves the open rotation's own rows alone and records whom it adds as raced.
LEMMA LocksStable ==
    ASSUME IInv, TypeOK', currentEpoch' = currentEpoch,
           \A r \in Requests : Locked(r)' =>
              /\ Locked(r)
              /\ req'[r] = req[r]
              /\ Departing(req[r])' = Departing(req[r])
              /\ \A p \in Arriving(req[r]) : member'[p].active = member[p].active,
           \A p \in Active' \ raced' : /\ p \in Active \ raced
                                       /\ member'[p].from = member[p].from,
           \A p \in Principals : gone[p] = 0 => gone'[p] = 0
    PROVE  LocksOK'
<1>1. \A r, s \in Requests : Locked(r)' /\ Locked(s)' => r = s
  BY DEF IInv, LocksOK
<1>2. ASSUME NEW r \in Requests, Locked(r)'
      PROVE  /\ req'[r].op \in RotatingOps
             /\ req'[r].expected = currentEpoch'
             /\ \A p \in Arriving(req[r])' :
                   /\ ~member'[p].active
                   /\ [who |-> p, from |-> VisibleFrom(req[r])'] \in req'[r].grants
             /\ \A p \in Active' \ (Departing(req[r])' \cup raced') :
                   [who |-> p, from |-> member'[p].from] \in req'[r].grants
             /\ \A g \in req'[r].grants :
                   /\ g.who \notin Departing(req[r])'
                   /\ g.who \in Arriving(req[r])' \/ gone'[g.who] = 0
  <2>1. Locked(r) /\ req'[r] = req[r] /\ Departing(req[r])' = Departing(req[r])
        /\ \A p \in Arriving(req[r]) : member'[p].active = member[p].active
    BY <1>2
  <2>2. Arriving(req[r])' = Arriving(req[r]) /\ VisibleFrom(req[r])' = VisibleFrom(req[r])
    BY <2>1 DEF Arriving, VisibleFrom
  <2>3. \A g \in req[r].grants : g.who \in Principals
    BY DEF IInv, TypeOK, Request, Grant
  <2>4. /\ req[r].op \in RotatingOps
        /\ req[r].expected = currentEpoch
        /\ \A p \in Arriving(req[r]) :
              /\ ~member[p].active
              /\ [who |-> p, from |-> VisibleFrom(req[r])] \in req[r].grants
        /\ \A p \in Active \ (Departing(req[r]) \cup raced) :
              [who |-> p, from |-> member[p].from] \in req[r].grants
        /\ \A g \in req[r].grants :
              /\ g.who \notin Departing(req[r])
              /\ g.who \in Arriving(req[r]) \/ gone[g.who] = 0
    BY <2>1 DEF IInv, LocksOK
  <2>5. \A p \in Active' \ (Departing(req[r])' \cup raced') :
            [who |-> p, from |-> member'[p].from] \in req'[r].grants
    BY <2>1, <2>4
  <2> QED
    BY <2>1, <2>2, <2>3, <2>4, <2>5
<1> QED
  BY <1>1, <1>2 DEF LocksOK

\* Levels and acceptance do not touch what IInv says of a row, the owner's apart.
LEMMA AcceptKeeps ==
    ASSUME IInv, NEW u \in Users, Accept(u)
    PROVE  IInv'
<1>1. TypeOK'
  BY TypeOneStatement DEF IInv
<1>2. /\ UNCHANGED <<exists, currentEpoch, wraps, held, req, gone, raced>>
      /\ \A p \in Principals : /\ member'[p].active = member[p].active
                               /\ member'[p].row = member[p].row
                               /\ member'[p].from = member[p].from
                               /\ member'[p].level = member[p].level
                               /\ member[p].accepted => member'[p].accepted
  BY DEF Accept, IInv, TypeOK, Member, historyVars
<1>3. Active' = Active
  BY <1>2 DEF Active
<1>4. RequestsOK'
  BY <1>2 DEF IInv, RequestsOK, InFlight, Gated
<1>5. \A r \in Requests : Locked(r) =>
          /\ Departing(req[r])' = Departing(req[r])
          /\ Arriving(req[r]) \subseteq Principals
  BY <1>2, FlightFacts DEF Departing, Arriving, Locked
<1>7. LocksOK'
  <2>1. \A r \in Requests : Locked(r)' = Locked(r)
    BY <1>2 DEF Locked
  <2> QED
    BY <1>1, <1>2, <1>3, <1>5, <2>1, LocksStable DEF Active
<1>8. StoreOK' /\ SecrecyOK' /\ MembersHoldCurrentKey'
  BY <1>2, <1>3 DEF IInv, StoreOK, SecrecyOK, MembersHoldCurrentKey, Active
<1>9. OwnerStays'
  BY <1>2, PrincipalsAssumption DEF IInv, OwnerStays, Principals
<1> QED
  BY <1>1, <1>4, <1>7, <1>8, <1>9 DEF IInv

\* The update of a level names a row, so a member who came back keeps theirs.
LEMMA ChangePrivilegeKeeps ==
    ASSUME IInv, NEW r \in Requests, ChangePrivilege(r)
    PROVE  IInv'
<1>0. req[r].stage = "gated" /\ req[r].op = "privilege"
  BY DEF ChangePrivilege
<1>1. TypeOK'
  BY <1>0, FlightFacts, TypeNoRotation DEF IInv
<1>2. /\ UNCHANGED <<exists, currentEpoch, wraps, held, gone, raced>>
      /\ \A p \in Principals : /\ member'[p].active = member[p].active
                               /\ member'[p].row = member[p].row
                               /\ member'[p].from = member[p].from
                               /\ member'[p].accepted = member[p].accepted
                               /\ p # req[r].target => member'[p].level = member[p].level
      /\ \A s \in Requests : req'[s] = IF s = r THEN IdleRequest ELSE req[s]
  BY DEF ChangePrivilege, Finish, IInv, TypeOK, Member, historyVars
<1>3. Active' = Active
  BY <1>2 DEF Active
<1>4. RequestsOK'
  BY <1>2, PrincipalsAssumption
     DEF IInv, RequestsOK, InFlight, Gated, IdleRequest, Principals
<1>5. \A s \in Requests : Locked(s)' =>
          /\ s # r /\ Locked(s) /\ req'[s] = req[s]
          /\ Departing(req[s])' = Departing(req[s])
          /\ Arriving(req[s]) \subseteq Principals
  BY <1>2, FlightFacts DEF Departing, Arriving, Locked, IdleRequest
<1>6. LocksOK'
  BY <1>1, <1>2, <1>3, <1>5, LocksStable DEF Active
<1>7. StoreOK' /\ SecrecyOK' /\ MembersHoldCurrentKey'
  BY <1>2, <1>3 DEF IInv, StoreOK, SecrecyOK, MembersHoldCurrentKey, Active
<1>8. req[r].target # Owner
  BY <1>0 DEF IInv, RequestsOK, Gated
<1>9. OwnerStays'
  BY <1>2, <1>8, PrincipalsAssumption DEF IInv, OwnerStays, Principals
<1> QED
  BY <1>1, <1>4, <1>6, <1>7, <1>9 DEF IInv

\* A link revoked after its member has gone changes no key.
LEMMA RevokeBareKeeps ==
    ASSUME IInv, NEW r \in Requests, RevokeBare(r)
    PROVE  IInv'
<1>0. req[r].stage = "gated"
  BY DEF RevokeBare
<1>1. TypeOK'
  BY <1>0, FlightFacts, TypeNoRotation DEF IInv
<1>2. /\ UNCHANGED <<exists, currentEpoch, wraps, member, held, gone, raced>>
      /\ \A s \in Requests : req'[s] = IF s = r THEN IdleRequest ELSE req[s]
  BY DEF RevokeBare, Finish, IInv, TypeOK, historyVars
<1>3. RequestsOK'
  BY <1>2, PrincipalsAssumption
     DEF IInv, RequestsOK, InFlight, Gated, IdleRequest, Principals
<1>4. LocksOK'
  BY <1>2 DEF IInv, LocksOK, Locked, IdleRequest, Arriving, Departing, Active, VisibleFrom
<1>5. StoreOK' /\ SecrecyOK' /\ MembersHoldCurrentKey' /\ OwnerStays'
  BY <1>2 DEF IInv, StoreOK, SecrecyOK, MembersHoldCurrentKey, OwnerStays, Active
<1> QED
  BY <1>1, <1>3, <1>4, <1>5 DEF IInv

\* A row that is closed takes its member out of what IInv asks of members.
LEMMA DepartureKeeps ==
    ASSUME IInv, NEW u \in Users, Decline(u) \/ DeleteAccount(u)
    PROVE  IInv'
<1>1. TypeOK'
  BY TypeOneStatement DEF IInv
<1>2. /\ UNCHANGED <<exists, currentEpoch, wraps, req, gone>>
      /\ raced' = raced \ {u}
      /\ \A v \in Users : held'[v] = held[v] \/ held'[v] = 0
      /\ ~RowLocked(u)
      /\ exists
  BY DEF Decline, DeleteAccount, IInv, TypeOK
<1>3. /\ \A p \in Principals \ {u} : member'[p] = member[p]
      /\ ~member'[u].active
      /\ member'[u].row = member[u].row
  BY DEF Decline, DeleteAccount, Departed, NoMember, IInv, TypeOK, Member, Principals
<1>4. Active' = Active \ {u}
  BY <1>3 DEF Active
<1>5. u # Owner
  BY <1>2 DEF Decline, DeleteAccount, IInv, OwnerStays
<1>6. RequestsOK'
  <2>1. \A p \in Principals : member'[p].row = member[p].row
    BY <1>3
  <2> QED
    BY <1>2, <2>1 DEF IInv, RequestsOK, InFlight, Gated
<1>7. LocksOK'
  <2>1. \A r \in Requests : Locked(r) => u \notin Departing(req[r]) \cup Arriving(req[r])
    BY <1>2 DEF RowLocked, Locked
  <2>2. \A r \in Requests : Locked(r) =>
            /\ Departing(req[r])' = Departing(req[r])
            /\ Arriving(req[r]) \subseteq Principals
    BY <1>2, <1>3, FlightFacts DEF Departing, Arriving, Locked
  <2>3. \A r \in Requests : Locked(r)' = Locked(r)
    BY <1>2 DEF Locked
  <2>4. \A p \in Active' \ raced' : p \in Active \ raced /\ member'[p].from = member[p].from
    BY <1>2, <1>3, <1>4 DEF Active
  <2> QED
    BY <1>1, <1>2, <1>3, <2>1, <2>2, <2>3, <2>4, LocksStable
<1>8. StoreOK'
  BY <1>1, <1>2, <1>3, <1>4 DEF IInv, TypeOK, StoreOK, Active
<1>9. SecrecyOK'
  BY <1>2 DEF IInv, SecrecyOK
<1>10. MembersHoldCurrentKey'
  BY <1>2, <1>3, <1>4 DEF IInv, MembersHoldCurrentKey, Active
<1>11. OwnerStays'
  BY <1>2, <1>3, <1>5, PrincipalsAssumption DEF IInv, OwnerStays, Principals
<1> QED
  BY <1>1, <1>6, <1>7, <1>8, <1>9, <1>10, <1>11 DEF IInv

\* An insertion that is not raced is of the current key, under the current epoch,
\* with no rotation open.
LEMMA InsertKeeps ==
    ASSUME IInv, NEW r \in Requests, AddFull(r) \/ LinkFull(r)
    PROVE  IInv'
<1> DEFINE q == req[r]
           t == req[r].target
<1>1. /\ q.stage = "gated" /\ q.op \in {"addFull", "linkFull"} /\ q.op \in JoinOps
      /\ InsertWithWrap(q) /\ Finish(r)
      /\ UNCHANGED <<exists, currentEpoch, titleEpoch, revoked, accounts, held>>
  BY DEF AddFull, LinkFull, JoinOps
<1>2. /\ exists /\ t \in Principals /\ q.actor \in Users
      /\ q \in Request /\ currentEpoch \in Nat
  BY <1>1, FlightFacts DEF IInv, TypeOK
<1>3. q.expected <= q.seen /\ q.seen <= currentEpoch
  BY <1>1 DEF IInv, RequestsOK, Gated
<1>4. /\ ~member[t].active
      /\ ~RowLocked(t)
      /\ q.op = "linkFull" => LockFree /\ member[t].row = 0
  <2>1. CASE AddFull(r)
    BY <2>1 DEF AddFull, MayInsert, MayJoin
  <2>2. CASE LinkFull(r)
    <3>1. LockFree /\ q.op = "linkFull"
      BY <2>2 DEF LinkFull
    <3>2. member[t].row = 0
      BY <1>1, <3>1 DEF IInv, RequestsOK, InFlight
    <3>3. ~member[t].active
      BY <1>2, <3>2 DEF IInv, StoreOK
    <3> QED
      BY <3>1, <3>2, <3>3 DEF LockFree, RowLocked
  <2> QED
    BY <2>1, <2>2
<1>5. /\ \A p \in Principals \ {t} : member'[p] = member[p]
      /\ member'[t].active /\ member'[t].row = member[t].row + 1
      /\ member'[t].from = VisibleFrom(q)
  BY <1>1, <1>2 DEF InsertWithWrap, Joined, IInv, TypeOK
<1>6. /\ Active' = Active \cup {t}
      /\ \A s \in Requests : req'[s] = IF s = r THEN IdleRequest ELSE req[s]
      /\ \A p \in Principals : gone'[p] = IF p = t THEN 0 ELSE gone[p]
      /\ wraps' = wraps \cup {NewWrap(q)}
      /\ t \notin raced
      /\ raced' \in {raced, raced \cup {t}}
  BY <1>1, <1>2, <1>4, <1>5
     DEF Active, Finish, InsertWithWrap, IInv, TypeOK, StoreOK
<1>7. t \notin raced' => q.expected = currentEpoch /\ LockFree
  BY <1>1, <1>2, <1>4 DEF InsertWithWrap
<1>8. TypeOK'
  BY <1>2, TypeInsert DEF IInv
<1>9. \A p \in Principals : /\ member[p].row \in Nat /\ member'[p].row \in Nat
                            /\ member'[p].row >= member[p].row
  BY <1>5, <1>8 DEF IInv, TypeOK, Member
<1>10. RequestsOK'
  <2>1. ASSUME NEW s \in Requests, s # r, InFlight(s),
               req[s].op \in {"linkFull", "linkFresh"}
        PROVE  member'[req[s].target].row = 0
    BY <1>5, <2>1 DEF IInv, RequestsOK
  <2>2. \A s \in Requests \ {r} : InFlight(s) => req[s].row \in Nat /\ req[s].target \in Principals
    BY FlightFacts DEF InFlight, IInv, TypeOK, Request
  <2>3. \A s \in Requests \ {r} : InFlight(s) => req[s].row <= member'[req[s].target].row
    <3>1. \A s \in Requests \ {r} : InFlight(s) => req[s].row <= member[req[s].target].row
      BY DEF IInv, RequestsOK
    <3> QED
      BY <1>9, <2>2, <3>1
  <2> QED
    BY <1>1, <1>6, <2>1, <2>3, PrincipalsAssumption
       DEF IInv, RequestsOK, InFlight, Gated, IdleRequest, Principals
<1>11. LocksOK'
  <2>1. \A s \in Requests : Locked(s)' => s # r /\ Locked(s) /\ req'[s] = req[s]
    BY <1>6 DEF Locked, IdleRequest
  <2>2. ASSUME NEW s \in Requests, Locked(s)
        PROVE  /\ t \notin Departing(req[s]) \cup Arriving(req[s])
               /\ Departing(req[s])' = Departing(req[s])
               /\ \A p \in Arriving(req[s]) : member'[p].active = member[p].active
    <3>1. t \notin Departing(req[s]) \cup Arriving(req[s])
      BY <1>4, <2>2 DEF RowLocked, Locked
    <3>2. req[s].target \in Principals /\ s # r
      BY <1>1, <2>2, FlightFacts DEF Locked
    <3>3. req'[s] = req[s] /\ req[s].row \in Nat /\ req[s].row <= member[req[s].target].row
      BY <1>6, <2>2, <3>2 DEF IInv, RequestsOK, InFlight, Locked, TypeOK, Request
    <3>4. CASE req[s].target = t
      <4>1. member'[t].row # req[s].row /\ (req[s].op \in {"remove", "leave"} => member[t].row # req[s].row)
        BY <1>2, <1>5, <1>9, <3>1, <3>3, <3>4 DEF Departing
      <4> QED
        BY <3>1, <3>3, <3>4, <4>1 DEF Departing, Arriving
    <3>5. CASE req[s].target # t
      BY <1>5, <3>1, <3>2, <3>3, <3>5 DEF Departing, Arriving
    <3> QED
      BY <3>1, <3>4, <3>5
  <2>3. CASE LockFree
    BY <2>1, <2>3 DEF LockFree, Locked, LocksOK
  <2>4. CASE ~LockFree
    <3>1. t \in raced'
      BY <1>7, <2>4
    <3>2. \A p \in Active' \ raced' : p \in Active \ raced /\ member'[p].from = member[p].from
      BY <1>5, <1>6, <3>1 DEF Active
    <3> QED
      BY <1>1, <1>6, <1>8, <2>1, <2>2, <3>2, LocksStable
  <2> QED
    BY <2>3, <2>4
<1>12. StoreOK'
  <2>1. \A w \in wraps' : w.epoch <= currentEpoch
    BY <1>3, <1>6 DEF NewWrap, IInv, StoreOK
  <2>2. \A p \in Principals : member'[p].active => member'[p].row > 0 /\ gone'[p] = 0
    BY <1>2, <1>5, <1>6, <1>9 DEF IInv, StoreOK
  <2> QED
    BY <1>1, <1>2, <1>6, <2>1, <2>2 DEF IInv, StoreOK
<1>13. SecrecyOK'
  <2>1. \A w \in wraps : w.who \in Principals
    BY DEF IInv, TypeOK, Wrap
  <2> QED
    BY <1>2, <1>6, <2>1 DEF IInv, SecrecyOK, NewWrap
<1>14. MembersHoldCurrentKey'
  <2>1. ASSUME t \notin raced'
        PROVE  [epoch |-> currentEpoch, who |-> t, key |-> currentEpoch,
                from |-> member'[t].from] \in wraps'
    <3>1. q.expected = currentEpoch /\ q.seen = currentEpoch
      BY <1>2, <1>3, <1>7, <2>1 DEF Request
    <3> QED
      BY <1>5, <1>6, <3>1 DEF NewWrap
  <2> QED
    BY <1>1, <1>5, <1>6, <2>1 DEF IInv, MembersHoldCurrentKey, Active
<1>15. OwnerStays'
  <2>1. t # Owner
    BY <1>2, <1>4 DEF IInv, OwnerStays
  <2> QED
    BY <1>1, <1>5, <1>6, <2>1, PrincipalsAssumption DEF IInv, OwnerStays, Principals
<1> QED
  BY <1>8, <1>10, <1>11, <1>12, <1>13, <1>14, <1>15 DEF IInv

\* The members a validated rotation was computed for are those it found.
LEMMA BeginKeeps ==
    ASSUME IInv, NEW r \in Requests, Begin(r)
    PROVE  IInv'
<1> DEFINE q == req[r]
<1>1. /\ q.stage = "gated" /\ q.op \in RotatingOps /\ LockFree
      /\ CallerProceeds(q) /\ q.expected = currentEpoch /\ q.provided = Remaining(q)
      /\ UNCHANGED <<dbVars, held, historyVars>>
  BY DEF Begin, RotationAccepted
<1>2. /\ exists /\ q.target \in Principals
      /\ q \in Request
  BY <1>1, FlightFacts DEF IInv, TypeOK
<1>3. /\ req'[r].stage = "locked" /\ req'[r].op = q.op /\ req'[r].actor = q.actor
      /\ req'[r].target = q.target /\ req'[r].row = q.row /\ req'[r].seen = q.seen
      /\ req'[r].expected = q.expected /\ req'[r].grants = GrantsOf(q)
      /\ \A s \in Requests \ {r} : req'[s] = req[s]
  BY DEF Begin, IInv, TypeOK, Request
<1>4. TypeOK'
  BY TypeRequestSteps DEF IInv
<1>5. RequestsOK'
  BY <1>1, <1>3 DEF IInv, RequestsOK, InFlight, Gated, dbVars
<1>6. /\ Departing(req[r])' = Departing(q)
      /\ Arriving(req[r])' = Arriving(q)
      /\ VisibleFrom(req[r])' = VisibleFrom(q)
      /\ Active' = Active
  BY <1>1, <1>3 DEF Departing, Arriving, VisibleFrom, Active, dbVars
<1>7. \A p \in Arriving(q) : ~member[p].active
  <2>1. q.op = "linkFresh" => member[q.target].row = 0
    BY <1>1 DEF IInv, RequestsOK, InFlight
  <2> QED
    BY <1>1, <1>2, <2>1 DEF Arriving, CallerProceeds, MayJoin, IInv, StoreOK
<1>8. /\ Departing(q) \cap Arriving(q) = {}
      /\ Arriving(q) \subseteq Principals
      /\ q.provided = (Active \ Departing(q)) \cup Arriving(q)
  BY <1>1, <1>2 DEF Departing, Arriving, Remaining
<1>9. \A p \in Arriving(q) : [who |-> p, from |-> VisibleFrom(q)] \in GrantsOf(q)
  BY <1>8 DEF GrantsOf
<1>10. \A p \in Active \ Departing(q) : [who |-> p, from |-> member[p].from] \in GrantsOf(q)
  <2> SUFFICES ASSUME NEW p \in Active \ Departing(q)
               PROVE  [who |-> p, from |-> member[p].from] \in GrantsOf(q)
    OBVIOUS
  <2>1. p \notin Arriving(q)
    BY <1>7 DEF Active
  <2> QED
    BY <1>8, <2>1 DEF GrantsOf
<1>11. \A g \in GrantsOf(q) : g.who \in q.provided
  BY DEF GrantsOf
<1>12. \A g \in GrantsOf(q) : /\ g.who \notin Departing(q)
                              /\ g.who \in Arriving(q) \/ gone[g.who] = 0
  BY <1>8, <1>11 DEF IInv, StoreOK, Active
<1>13. LocksOK'
  <2>1. \A s \in Requests : Locked(s)' => s = r
    BY <1>1, <1>3 DEF Locked, LockFree
  <2> QED
    BY <1>1, <1>3, <1>6, <1>7, <1>9, <1>10, <1>12, <2>1
       DEF LocksOK, dbVars, historyVars
<1>14. StoreOK' /\ SecrecyOK' /\ MembersHoldCurrentKey' /\ OwnerStays'
  BY <1>1 DEF IInv, dbVars, historyVars, StoreOK, SecrecyOK, MembersHoldCurrentKey,
              OwnerStays, Active
<1> QED
  BY <1>4, <1>5, <1>13, <1>14 DEF IInv

\* A rotation commits: LocksOK turns into the keys of the members it leaves.
LEMMA CommitKeeps ==
    ASSUME IInv, NEW r \in Requests, Commit(r)
    PROVE  IInv'
<1> DEFINE q == req[r]
           n == currentEpoch + 1
<1>1. Locked(r) /\ q.stage # "idle"
  BY DEF Commit, Locked
<1>2. /\ exists /\ q.target \in Principals /\ q.actor \in Users
      /\ q.op = "revoke" => q.target \in Links
      /\ q \in Request /\ currentEpoch \in Nat /\ n \in Nat
  BY <1>1, FlightFacts DEF IInv, TypeOK
<1>3. /\ q.op \in RotatingOps /\ q.expected = currentEpoch
      /\ \A p \in Arriving(q) : /\ ~member[p].active
                                /\ [who |-> p, from |-> VisibleFrom(q)] \in q.grants
      /\ \A p \in Active \ (Departing(q) \cup raced) :
            [who |-> p, from |-> member[p].from] \in q.grants
      /\ \A g \in q.grants : /\ g.who \notin Departing(q)
                             /\ g.who \in Arriving(q) \/ gone[g.who] = 0
      /\ \A s \in Requests \ {r} : ~Locked(s)
  BY <1>1 DEF IInv, LocksOK
<1>4. /\ Departing(q) \cap Arriving(q) = {}
      /\ Departing(q) \subseteq {q.target} /\ Arriving(q) \subseteq {q.target}
  BY DEF Departing, Arriving
<1>5. /\ currentEpoch' = n /\ exists'
      /\ \A s \in Requests : req'[s] = IF s = r THEN IdleRequest ELSE req[s]
      /\ \A p \in Principals :
            gone'[p] = IF p \in Departing(q) THEN n ELSE IF p \in Arriving(q) THEN 0 ELSE gone[p]
      /\ raced' = {p \in raced \ Departing(q) :
                     [who |-> p, from |-> member[p].from] \notin q.grants}
      /\ \A u \in Users : held'[u] = held[u] \/ held'[u] = n
      /\ wraps' = {w \in wraps : w.epoch # currentEpoch} \cup
                  {[epoch |-> n, who |-> g.who, key |-> n, from |-> g.from] : g \in q.grants}
  BY <1>2, <1>3 DEF Commit, RotatedWraps, Finish, IInv, TypeOK
<1>6. /\ \A p \in Departing(q) : ~member'[p].active /\ member'[p].row = member[p].row
      /\ \A p \in Arriving(q) : /\ member'[p].active
                                /\ member'[p].row = member[p].row + 1
                                /\ member'[p].from = VisibleFrom(q)
      /\ \A p \in Principals \ (Departing(q) \cup Arriving(q)) : member'[p] = member[p]
  BY <1>2, <1>4 DEF Commit, Departed, Joined, NoMember
<1>7. Active' = (Active \ Departing(q)) \cup Arriving(q)
  BY <1>2, <1>3, <1>4, <1>6 DEF Active
<1>8. TypeOK'
  BY <1>2, TypeCommit DEF IInv
<1>9. \A p \in Principals : /\ member[p].row \in Nat /\ member'[p].row \in Nat
                            /\ member'[p].row >= member[p].row
  <2>1. \A p \in Principals : member[p].row \in Nat /\ member'[p].row \in Nat
    BY <1>8 DEF IInv, TypeOK, Member
  <2> QED
    BY <1>6, <2>1
<1>10. q.target # Owner \/ Departing(q) \cup Arriving(q) = {}
  BY <1>1, <1>2, <1>3, PrincipalsAssumption
     DEF IInv, OwnerStays, RequestsOK, InFlight, Gated, Locked, RotatingOps, Departing,
         Arriving
<1>11. RequestsOK'
  <2>1. \A s \in Requests \ {r} : InFlight(s) =>
            /\ req[s].row \in Nat /\ req[s].target \in Principals
            /\ req[s].row <= member[req[s].target].row
            /\ req[s].expected \in Nat /\ req[s].seen \in Nat
    BY FlightFacts DEF InFlight, IInv, TypeOK, Request, RequestsOK
  <2>2. \A s \in Requests \ {r} : InFlight(s) => req[s].row <= member'[req[s].target].row
    BY <1>9, <2>1
  <2>3. ASSUME NEW s \in Requests \ {r}, InFlight(s),
               req[s].op \in {"linkFull", "linkFresh"}
        PROVE  member'[req[s].target].row = 0
    <3>1. member[req[s].target].row = 0 /\ req[s].target # q.target
      BY <2>3 DEF IInv, RequestsOK
    <3> QED
      BY <1>4, <1>6, <2>1, <2>3, <3>1
  <2> QED
    BY <1>2, <1>5, <2>1, <2>2, <2>3, PrincipalsAssumption
       DEF IInv, RequestsOK, InFlight, Gated, IdleRequest, Principals
<1>12. LocksOK'
  BY <1>3, <1>5 DEF LocksOK, Locked, IdleRequest
<1>13. StoreOK'
  <2>1. \A w \in wraps' : w.epoch <= n
    BY <1>2, <1>5 DEF IInv, StoreOK, TypeOK, Wrap
  <2>2. \A p \in Principals : member'[p].active => member'[p].row > 0 /\ gone'[p] = 0
    <3> SUFFICES ASSUME NEW p \in Principals, member'[p].active
                 PROVE  member'[p].row > 0 /\ gone'[p] = 0
      OBVIOUS
    <3>1. CASE p \in Arriving(q)
      BY <1>4, <1>5, <1>6, <1>9, <3>1
    <3>2. CASE p \notin Arriving(q)
      BY <1>5, <1>6, <3>2 DEF IInv, StoreOK
    <3> QED
      BY <3>1, <3>2
  <2>3. raced' \subseteq Active'
    BY <1>5, <1>7 DEF IInv, StoreOK
  <2>4. \A u \in Users : held'[u] <= n
    BY <1>2, <1>5 DEF IInv, StoreOK, TypeOK
  <2> QED
    BY <1>5, <2>1, <2>2, <2>3, <2>4 DEF StoreOK
<1>14. SecrecyOK'
  <2> SUFFICES ASSUME NEW w \in wraps', gone'[w.who] # 0
               PROVE  w.epoch < gone'[w.who]
    BY DEF SecrecyOK
  <2>1. CASE w \in wraps /\ w.epoch # currentEpoch
    <3>1. w.epoch < n /\ w.who \in Principals
      BY <1>2, <2>1 DEF IInv, StoreOK, TypeOK, Wrap
    <3>2. gone[w.who] # 0 => w.epoch < gone[w.who]
      BY <2>1 DEF IInv, SecrecyOK
    <3> QED
      BY <1>5, <3>1, <3>2
  <2>2. CASE \E g \in q.grants : w.who = g.who
    <3>1. PICK g \in q.grants : w.who = g.who
      BY <2>2
    <3>2. g.who \in Principals
      BY <1>2 DEF Request, Grant
    <3>3. gone'[g.who] = 0
      BY <1>3, <1>5, <3>2
    <3> QED
      BY <3>1, <3>3
  <2> QED
    BY <1>5, <2>1, <2>2
<1>15. MembersHoldCurrentKey'
  <2> SUFFICES ASSUME NEW p \in Active' \ raced'
               PROVE  [epoch |-> n, who |-> p, key |-> n, from |-> member'[p].from] \in wraps'
    BY <1>5 DEF MembersHoldCurrentKey
  <2>1. [who |-> p, from |-> member'[p].from] \in q.grants
    <3>1. CASE p \in Arriving(q)
      BY <1>3, <1>6, <3>1
    <3>2. CASE p \notin Arriving(q)
      <4>1. p \in Active \ Departing(q) /\ member'[p] = member[p]
        BY <1>6, <1>7, <3>2 DEF Active
      <4> QED
        BY <1>3, <1>5, <4>1
    <3> QED
      BY <3>1, <3>2
  <2> QED
    BY <1>5, <2>1
<1>16. OwnerStays'
  <2>1. Owner \in Principals \ (Departing(q) \cup Arriving(q))
    BY <1>4, <1>10, PrincipalsAssumption DEF Principals
  <2> QED
    BY <1>2, <1>5, <1>6, <2>1 DEF IInv, OwnerStays
<1> QED
  BY <1>8, <1>11, <1>12, <1>13, <1>14, <1>15, <1>16 DEF IInv

-----------------------------------------------------------------------------
(* Theorems *)

\* Every step preserves the inductive invariant, one case per action.
LEMMA NextKeepsIInv == IInv /\ [Next]_vars => IInv'
<1> SUFFICES ASSUME IInv, [Next]_vars PROVE IInv'
  OBVIOUS
<1>1. CASE UNCHANGED vars
  BY <1>1 DEF IInv, vars, dbVars, historyVars, TypeOK, RequestsOK, StoreOK, LocksOK, SecrecyOK,
              MembersHoldCurrentKey, OwnerStays, InFlight, Gated, Locked, Arriving,
              Departing, Active, VisibleFrom
<1>2. CASE Client
  BY <1>2, FetchKeysKeeps, SendKeeps, AcceptKeeps, DepartureKeeps, RenameKeeps, DeleteKeeps
     DEF Client
<1>3. ASSUME NEW r \in Requests, Server(r) \/ Lost(r)
      PROVE  IInv'
  BY <1>3, GateKeeps, EndKeeps, InsertKeeps, ChangePrivilegeKeeps, RevokeBareKeeps,
     BeginKeeps, CommitKeeps
     DEF Server
<1> QED
  BY <1>1, <1>2, <1>3 DEF Next

\* The inductive invariant of the store, the requests and the lock of the
\* conversations row holds in every state of every interleaving of the handlers.
THEOREM InvariantHolds == Spec => []IInv
BY InitIInv, NextKeepsIInv, PTL DEF Spec

\* Type correctness: no interleaving of clients, gates and transactions takes
\* the store or a request out of its type.
THEOREM TypeCorrect == Spec => []TypeOK
<1>1. IInv => TypeOK
  BY DEF IInv
<1> QED
  BY <1>1, InvariantHolds, PTL

\* Key availability, for any number of members, links and concurrent requests:
\* no overlap of rotations, invitations and departures leaves a member, other
\* than one that overtook a rotation, without the current epoch's key.
THEOREM KeysAvailable == Spec => []MembersHoldCurrentKey
<1>1. IInv => MembersHoldCurrentKey
  BY DEF IInv
<1> QED
  BY <1>1, InvariantHolds, PTL

\* Forward secrecy of the key chains the server hands out: whoever a rotation
\* removed is served nothing of that rotation's epoch or a later one.
THEOREM RemovedLoseAccess == Spec => []ForwardSecrecy
<1>1. IInv => ForwardSecrecy
  <2> SUFFICES ASSUME IInv, NEW p \in Principals, gone[p] # 0, NEW e \in Served(p)
               PROVE  e < gone[p]
    BY DEF ForwardSecrecy
  <2>1. PICK w \in wraps : w.who = p /\ e <= w.epoch
    BY DEF Served, RowsOf
  <2>2. w.epoch < gone[p]
    BY <2>1 DEF IInv, SecrecyOK
  <2>3. w.epoch \in Nat /\ e \in Nat /\ gone[p] \in Nat
    BY <2>1 DEF IInv, TypeOK, Wrap, Served
  <2> QED
    BY <2>1, <2>2, <2>3
<1> QED
  BY <1>1, InvariantHolds, PTL

\* The owner can be neither removed, demoted, declined away nor raced out of the
\* keys, whatever levels admins grant each other meanwhile.
THEOREM OwnerIsSafe == Spec => []OwnerStays
<1>1. IInv => OwnerStays
  BY DEF IInv
<1> QED
  BY <1>1, InvariantHolds, PTL

=============================================================================
