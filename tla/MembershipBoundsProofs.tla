----------------------- MODULE MembershipBoundsProofs -----------------------
(***************************************************************************)
(* Three theorems of EpochMembership that need more than its own           *)
(* invariant: that a member who joined without history is served none,     *)
(* that the handlers implement KeyAccess, and by how much the limit of     *)
(* members can be passed, for every number of users, links, requests and   *)
(* epochs.                                                                 *)
(*                                                                         *)
(* A reader is served from the lowest visibility among its wraps on.       *)
(* While all of them are of the current epoch there is only one (WrapsOK), *)
(* and a rotation that made that epoch wrote it with the visibility of the *)
(* member's row (FloorsOK), as read when it was validated: whatever became *)
(* of the row before the commit, it was not for the worse (GrantsOK), nor  *)
(* beyond the new epoch (FromsOK), so that the wrap it replaces and the    *)
(* one it writes begin alike.                                              *)
(*                                                                         *)
(* A gate counts the members and lets a request through that inserts one   *)
(* much later.  So members and the requests that are yet to insert one are *)
(* counted together: a gate that passes finds room for one member and      *)
(* leaves no more requests than there are, and from then on a request      *)
(* turns into a member at most.                                            *)
(***************************************************************************)
EXTENDS EpochMembershipProofs, FiniteSetTheorems

(* History *)

\* A wrap belongs to somebody who was a member once, and there is one of each
\* epoch.
WrapsOK ==
    \A w \in wraps :
        /\ w.from >= 1
        /\ member[w.who].row > 0
        /\ \A v \in wraps : v.epoch = w.epoch /\ v.who = w.who => v = w

\* What a rotation will write when it commits.
GrantsOK ==
    \A r \in Requests : Locked(r) => \A g \in req[r].grants :
        /\ g.from >= 1
        /\ \A h \in req[r].grants : h.who = g.who => h = g
        /\ g.who \in Arriving(req[r]) => g.from = VisibleFrom(req[r])
        /\ g.who \notin Arriving(req[r]) => /\ member[g.who].row > 0
                                            /\ g.from >= floor[g.who]

FloorsOK ==
    /\ \A p \in Active : member[p].from >= 1 /\ member[p].from >= floor[p]
    /\ \A w \in wraps : w.epoch = currentEpoch => w.from >= floor[w.who]

\* No member sees only what is yet to come, except those of a rotation's epoch.
FromsOK ==
    /\ \A p \in Active : member[p].from <= currentEpoch
    /\ \A r \in Requests : Locked(r) =>
          \A g \in req[r].grants : g.from <= req[r].expected + 1

HInv == WrapsOK /\ GrantsOK /\ FloorsOK /\ FromsOK

-----------------------------------------------------------------------------
LEMMA InitHInv == Init => HInv
<1> SUFFICES ASSUME Init PROVE HInv
  OBVIOUS
<1>1. WrapsOK /\ FloorsOK
  BY PrincipalsAssumption DEF Init, WrapsOK, FloorsOK, Active, NoMember, Principals
<1>2. GrantsOK
  BY DEF Init, GrantsOK, Locked, IdleRequest
<1>3. FromsOK
  <2>1. \A p \in Active : member[p].from = 1
    BY DEF Init, Active, NoMember
  <2>2. \A r \in Requests : ~Locked(r)
    BY DEF Init, Locked, IdleRequest
  <2> QED BY <2>1, <2>2 DEF Init, FromsOK
<1> QED BY <1>1, <1>2, <1>3 DEF HInv

\* The owner sees it from the first epoch on, so there is one.
LEMMA EpochBegun ==
    ASSUME IInv, HInv, exists
    PROVE  currentEpoch \in Nat /\ currentEpoch >= 1
<1>1. Owner \in Active
  BY PrincipalsAssumption DEF IInv, OwnerStays, Active, Principals
<1>2. member[Owner].from \in Nat /\ currentEpoch \in Nat
  BY <1>1 DEF IInv, TypeOK, Member, Active
<1> QED BY <1>1, <1>2 DEF HInv, FloorsOK, FromsOK

LEMMA VisibleFromHere ==
    ASSUME TypeOK, NEW r \in Requests
    PROVE  VisibleFrom(req[r]) \in Nat /\ VisibleFrom(req[r]) >= 1
BY DEF TypeOK, Request, VisibleFrom

\* Steps after which no other member is active, rows only count up, and no
\* request has been locked.
LEMMA QuietSteps ==
    ASSUME TypeOK, TypeOK', HInv,
           UNCHANGED <<currentEpoch, wraps, floor>>,
           \A p \in Principals : /\ member'[p].row >= member[p].row
                                 /\ member'[p].active => /\ member[p].active
                                                         /\ member'[p].from = member[p].from,
           \A r \in Requests : Locked(r)' => req'[r] = req[r]
    PROVE  HInv'
<1>1. WrapsOK'
  BY DEF HInv, WrapsOK, TypeOK, Wrap, Member
<1>2. FloorsOK'
  BY DEF HInv, FloorsOK, Active
<1>3. GrantsOK'
  <2> SUFFICES ASSUME NEW r \in Requests, Locked(r)', NEW g \in req'[r].grants
               PROVE  /\ g.from >= 1
                      /\ \A h \in req'[r].grants : h.who = g.who => h = g
                      /\ g.who \in Arriving(req'[r]) => g.from = VisibleFrom(req'[r])
                      /\ g.who \notin Arriving(req'[r]) => /\ member'[g.who].row > 0
                                                           /\ g.from >= floor'[g.who]
    BY DEF GrantsOK, Arriving, VisibleFrom
  <2>1. req'[r] = req[r] /\ Locked(r)
    BY DEF Locked
  <2>2. g.who \in Principals
    BY <2>1 DEF TypeOK, Request, Grant
  <2> QED BY <2>1, <2>2 DEF HInv, GrantsOK, TypeOK, Member
<1>4. FromsOK'
  <2>1. \A r \in Requests : Locked(r)' => Locked(r) /\ req'[r] = req[r]
    BY DEF Locked
  <2> QED BY <2>1 DEF HInv, FromsOK, Active
<1> QED BY <1>1, <1>2, <1>3, <1>4 DEF HInv

LEMMA InsertKeepsHistory ==
    ASSUME IInv, TypeOK', HInv, NEW r \in Requests, AddFull(r) \/ LinkFull(r)
    PROVE  HInv'
<1> DEFINE q == req[r]
<1> DEFINE t == q.target
<1>1. /\ q.op \in {"addFull", "linkFull"} /\ t \in Principals
      /\ InsertWithWrap(q) /\ Finish(r) /\ currentEpoch' = currentEpoch
      /\ q.op = "linkFull" => member[t].row = 0
  BY DEF IInv, RequestsOK, InFlight, AddFull, LinkFull
<1>2. VisibleFrom(q) = 1 /\ NewWrap(q).from = 1 /\ NewWrap(q).who = t
  BY <1>1 DEF VisibleFrom, NewWrap
<1>3. /\ wraps' = wraps \cup {NewWrap(q)}
      /\ member' = [member EXCEPT ![t] = Joined(t, q.level, 1)]
      /\ floor' = [floor EXCEPT ![t] = 1]
  BY <1>1, <1>2 DEF InsertWithWrap
<1>4. /\ member'[t].row = member[t].row + 1 /\ member[t].row \in Nat
      /\ member'[t].from = 1
      /\ \A p \in Principals \ {t} : member'[p] = member[p]
      /\ floor'[t] = 1
      /\ \A p \in Principals \ {t} : floor'[p] = floor[p]
  BY <1>1, <1>3 DEF Joined, IInv, TypeOK, Member
<1>5. \A w \in wraps : ~(w.epoch = NewWrap(q).epoch /\ w.who = t)
  <2>1. CASE AddFull(r)
    BY <2>1 DEF AddFull, MayInsert, NewWrap
  <2>2. CASE LinkFull(r)
    BY <2>2, <1>1 DEF LinkFull, HInv, WrapsOK
  <2> QED BY <2>1, <2>2
<1>6. WrapsOK'
  BY <1>2, <1>3, <1>4, <1>5 DEF HInv, WrapsOK, IInv, TypeOK, Wrap
<1>7. FloorsOK'
  <2>1. \A p \in Active' : p = t \/ p \in Active
    BY <1>4 DEF Active
  <2>2. \A w \in wraps' : w.epoch = currentEpoch' => w.from >= floor'[w.who]
    BY <1>1, <1>2, <1>3, <1>4 DEF HInv, FloorsOK, WrapsOK, IInv, TypeOK, Wrap
  <2> QED BY <2>1, <2>2, <1>4 DEF FloorsOK, HInv, Active
<1>8. GrantsOK'
  <2> SUFFICES ASSUME NEW s \in Requests, Locked(s)', NEW g \in req'[s].grants
               PROVE  /\ g.from >= 1
                      /\ \A h \in req'[s].grants : h.who = g.who => h = g
                      /\ g.who \in Arriving(req'[s]) => g.from = VisibleFrom(req'[s])
                      /\ g.who \notin Arriving(req'[s]) => /\ member'[g.who].row > 0
                                                           /\ g.from >= floor'[g.who]
    BY DEF GrantsOK, Arriving, VisibleFrom
  <2>1. req'[s] = req[s] /\ Locked(s)
    BY <1>1 DEF Locked, Finish, IdleRequest, IInv, TypeOK
  <2>2. g.who \in Principals
    BY <2>1 DEF IInv, TypeOK, Request, Grant
  <2>3. CASE g.who = t
    BY <2>1, <2>3, <1>4 DEF HInv, GrantsOK
  <2>4. CASE g.who # t
    BY <2>1, <2>2, <2>4, <1>4 DEF HInv, GrantsOK
  <2> QED BY <2>3, <2>4
<1>9. FromsOK'
  <2>1. currentEpoch \in Nat /\ currentEpoch >= 1
    BY <1>1, EpochBegun, FlightFacts DEF AddFull, LinkFull
  <2>2. \A p \in Active' : p = t \/ (p \in Active /\ member'[p] = member[p])
    BY <1>4 DEF Active
  <2>3. \A s \in Requests : Locked(s)' => Locked(s) /\ req'[s] = req[s]
    BY <1>1 DEF Locked, Finish, IdleRequest, IInv, TypeOK
  <2> QED BY <1>1, <1>4, <2>1, <2>2, <2>3 DEF HInv, FromsOK
<1> QED BY <1>6, <1>7, <1>8, <1>9 DEF HInv

LEMMA BeginKeepsHistory ==
    ASSUME IInv, HInv, NEW r \in Requests, Begin(r)
    PROVE  HInv'
<1> DEFINE q == req[r]
<1>1. UNCHANGED <<currentEpoch, wraps, member, floor>>
  BY DEF Begin, dbVars, historyVars
<1>2. WrapsOK' /\ FloorsOK'
  BY <1>1 DEF HInv, WrapsOK, FloorsOK, Active
<1>3. q \in Request /\ req' = [req EXCEPT ![r] = [q EXCEPT !.stage = "locked", !.grants = GrantsOf(q)]]
  BY DEF Begin, IInv, TypeOK
<1>4. ASSUME NEW s \in Requests \ {r} PROVE req'[s] = req[s] /\ (Locked(s)' => Locked(s))
  BY <1>3 DEF Locked
<1>5. q.provided \subseteq Active \cup Arriving(q)
  BY DEF Begin, RotationAccepted, Remaining
<1>6. /\ req'[r].grants = GrantsOf(q)
      /\ Arriving(req'[r]) = Arriving(q) /\ VisibleFrom(req'[r]) = VisibleFrom(q)
  BY <1>3 DEF IInv, TypeOK, Request, Arriving, VisibleFrom
<1>7. ASSUME NEW g \in GrantsOf(q)
      PROVE  /\ g.from >= 1
             /\ \A h \in GrantsOf(q) : h.who = g.who => h = g
             /\ g.who \in Arriving(q) => g.from = VisibleFrom(q)
             /\ g.who \notin Arriving(q) => /\ member[g.who].row > 0
                                            /\ g.from >= floor[g.who]
  <2>1. PICK p \in q.provided :
           g = [who |-> p, from |-> IF p \in Arriving(q) THEN VisibleFrom(q) ELSE member[p].from]
    BY <1>7 DEF GrantsOf
  <2>2. \A h \in GrantsOf(q) : h.who = g.who => h = g
    BY <2>1 DEF GrantsOf
  <2>3. CASE p \in Arriving(q)
    BY <2>1, <2>2, <2>3, VisibleFromHere DEF IInv
  <2>4. CASE p \notin Arriving(q)
    <3>1. p \in Active
      BY <2>4, <1>5
    <3>2. p \in Principals /\ member[p].active /\ member[p].row > 0
      BY <3>1 DEF Active, IInv, StoreOK
    <3> QED BY <2>1, <2>2, <2>4, <3>1, <3>2 DEF HInv, FloorsOK
  <2> QED BY <2>3, <2>4
<1>8. GrantsOK'
  <2> SUFFICES ASSUME NEW s \in Requests, Locked(s)', NEW g \in req'[s].grants
               PROVE  /\ g.from >= 1
                      /\ \A h \in req'[s].grants : h.who = g.who => h = g
                      /\ g.who \in Arriving(req'[s]) => g.from = VisibleFrom(req'[s])
                      /\ g.who \notin Arriving(req'[s]) => /\ member'[g.who].row > 0
                                                           /\ g.from >= floor'[g.who]
    BY DEF GrantsOK, Arriving, VisibleFrom
  <2>1. CASE s = r
    BY <2>1, <1>1, <1>6, <1>7
  <2>2. CASE s # r
    BY <2>2, <1>1, <1>4 DEF HInv, GrantsOK
  <2> QED BY <2>1, <2>2
<1>9. FromsOK'
  <2>1. q.expected = currentEpoch /\ currentEpoch \in Nat /\ req'[r].expected = q.expected
    BY <1>3 DEF Begin, RotationAccepted, IInv, TypeOK, Request
  <2>2. ASSUME NEW g \in GrantsOf(q) PROVE g.from <= q.expected + 1
    <3>1. PICK p \in q.provided :
             g = [who |-> p, from |-> IF p \in Arriving(q) THEN VisibleFrom(q) ELSE member[p].from]
      BY DEF GrantsOf
    <3>2. CASE p \in Arriving(q)
      BY <2>1, <3>1, <3>2 DEF Arriving, VisibleFrom
    <3>3. CASE p \notin Arriving(q)
      <4>1. p \in Active /\ member[p].from \in Nat
        BY <1>5, <3>3 DEF IInv, TypeOK, Member, Active
      <4> QED BY <2>1, <3>1, <3>3, <4>1 DEF HInv, FromsOK
    <3> QED BY <3>2, <3>3
  <2>3. \A p \in Active' : member'[p].from <= currentEpoch'
    BY <1>1 DEF HInv, FromsOK, Active
  <2>4. ASSUME NEW s \in Requests, Locked(s)', NEW g \in req'[s].grants
        PROVE  g.from <= req'[s].expected + 1
    BY <1>4, <1>6, <2>1, <2>2, <2>4 DEF HInv, FromsOK
  <2> QED BY <2>3, <2>4 DEF FromsOK
<1> QED BY <1>2, <1>8, <1>9 DEF HInv

LEMMA CommitKeepsHistory ==
    ASSUME IInv, TypeOK', HInv, NEW r \in Requests, Commit(r)
    PROVE  HInv'
<1> DEFINE q == req[r]
<1> DEFINE n == q.expected + 1
<1>1. /\ Locked(r) /\ q \in Request /\ q.expected = currentEpoch
      /\ currentEpoch' = n /\ wraps' = RotatedWraps(q)
  BY DEF Commit, Locked, IInv, LocksOK, TypeOK
<1>2. /\ q.grants \subseteq Grant
      /\ \A g \in q.grants : g.who \in Principals /\ g.who \notin Departing(q)
  BY <1>1 DEF IInv, LocksOK, Request, Grant
<1>3. \A g \in q.grants :
        /\ g.from >= 1
        /\ \A h \in q.grants : h.who = g.who => h = g
        /\ g.who \in Arriving(q) => g.from = VisibleFrom(q)
        /\ g.who \notin Arriving(q) => member[g.who].row > 0 /\ g.from >= floor[g.who]
  BY <1>1 DEF HInv, GrantsOK
<1>4. /\ \A w \in wraps : w.epoch <= currentEpoch /\ w.epoch # n
      /\ currentEpoch \in Nat
  BY <1>1 DEF IInv, StoreOK, TypeOK, Wrap
<1>5. VisibleFrom(q) \in Nat /\ VisibleFrom(q) >= 1
  BY VisibleFromHere DEF IInv
<1>6. \A p \in Arriving(q) : VisibleFrom(q) = n
  <2>1. Arriving(q) # {} => q.op \in {"addFresh", "linkFresh"}
    BY DEF Arriving
  <2> QED BY <2>1 DEF VisibleFrom
<1>7. ASSUME NEW p \in Principals
      PROVE  /\ p \in Departing(q) => ~member'[p].active /\ member'[p].row = member[p].row
             /\ p \notin Departing(q) /\ p \in Arriving(q) =>
                   /\ member'[p].row = member[p].row + 1
                   /\ member'[p].from = VisibleFrom(q)
             /\ p \notin Departing(q) /\ p \notin Arriving(q) => member'[p] = member[p]
             /\ floor'[p] = IF p \in Arriving(q) THEN n ELSE floor[p]
  BY DEF Commit, Departed, NoMember, Joined
<1>8. ASSUME NEW p \in Principals
      PROVE  /\ member'[p].row >= member[p].row /\ member[p].row \in Nat
             /\ p \in Arriving(q) /\ p \notin Departing(q) => member'[p].row > 0
  <2>1. member[p].row \in Nat
    BY DEF IInv, TypeOK, Member
  <2> QED BY <2>1, <1>7
<1>9. \A w \in wraps' :
        \/ w \in wraps /\ w.epoch # n
        \/ \E g \in q.grants : w = [epoch |-> n, who |-> g.who, key |-> n, from |-> g.from]
  BY <1>1, <1>4 DEF RotatedWraps
<1>10. WrapsOK'
  <2>1. ASSUME NEW w \in wraps, w \in wraps', w.epoch # n
        PROVE  /\ w.from >= 1 /\ member'[w.who].row > 0
               /\ \A v \in wraps' : v.epoch = w.epoch /\ v.who = w.who => v = w
    <3>1. w.who \in Principals
      BY DEF IInv, TypeOK, Wrap
    <3>2. w.from >= 1 /\ member[w.who].row > 0
      BY DEF HInv, WrapsOK
    <3>3. \A v \in wraps' : v.epoch = w.epoch /\ v.who = w.who => v = w
      BY <2>1, <1>9 DEF HInv, WrapsOK
    <3>4. member'[w.who].row > 0
      BY <3>1, <3>2, <1>8 DEF TypeOK, Member
    <3> QED BY <3>2, <3>3, <3>4
  <2>2. ASSUME NEW g \in q.grants
        PROVE  LET w == [epoch |-> n, who |-> g.who, key |-> n, from |-> g.from]
               IN  /\ w.from >= 1 /\ member'[w.who].row > 0
                   /\ \A v \in wraps' : v.epoch = w.epoch /\ v.who = w.who => v = w
    <3>1. member'[g.who].row > 0
      BY <1>2, <1>3, <1>8 DEF TypeOK, Member
    <3>2. ASSUME NEW v \in wraps', v.epoch = n, v.who = g.who
          PROVE  v = [epoch |-> n, who |-> g.who, key |-> n, from |-> g.from]
      <4>1. PICK h \in q.grants : v = [epoch |-> n, who |-> h.who, key |-> n, from |-> h.from]
        BY <3>2, <1>9
      <4>2. h = g
        BY <3>2, <4>1, <1>3
      <4> QED BY <4>1, <4>2
    <3> QED BY <3>1, <3>2, <1>3
  <2> QED BY <2>1, <2>2, <1>9 DEF WrapsOK
<1>11. FloorsOK'
  <2>1. ASSUME NEW p \in Active'
        PROVE  member'[p].from >= 1 /\ member'[p].from >= floor'[p]
    <3>1. p \in Principals /\ member'[p].active /\ p \notin Departing(q)
      BY <1>7 DEF Active
    <3>2. CASE p \in Arriving(q)
      BY <3>1, <3>2, <1>1, <1>4, <1>5, <1>6, <1>7
    <3>3. CASE p \notin Arriving(q)
      BY <3>1, <3>3, <1>7 DEF HInv, FloorsOK, Active
    <3> QED BY <3>2, <3>3
  <2>2. ASSUME NEW w \in wraps', w.epoch = currentEpoch'
        PROVE  w.from >= floor'[w.who]
    <3>1. PICK g \in q.grants : w = [epoch |-> n, who |-> g.who, key |-> n, from |-> g.from]
      BY <2>2, <1>1, <1>9
    <3>2. CASE g.who \in Arriving(q)
      <4>1. w.who = g.who /\ w.from = n /\ floor'[g.who] = n
        BY <3>1, <3>2, <1>2, <1>3, <1>6, <1>7
      <4> QED BY <4>1, <1>1, <1>4
    <3>3. CASE g.who \notin Arriving(q)
      <4>1. w.who = g.who /\ w.from = g.from /\ floor'[g.who] = floor[g.who]
        BY <3>1, <3>3, <1>2, <1>7
      <4> QED BY <4>1, <3>3, <1>3
    <3> QED BY <3>2, <3>3
  <2> QED BY <2>1, <2>2 DEF FloorsOK
<1>12. GrantsOK'
  <2>1. \A s \in Requests : ~Locked(s)'
    BY <1>1 DEF Commit, Finish, IdleRequest, Locked, IInv, LocksOK, TypeOK
  <2> QED BY <2>1 DEF GrantsOK
<1>13. FromsOK'
  <2>1. \A s \in Requests : ~Locked(s)'
    BY <1>1 DEF Commit, Finish, IdleRequest, Locked, IInv, LocksOK, TypeOK
  <2>2. ASSUME NEW p \in Active' PROVE member'[p].from <= n
    <3>1. p \in Principals /\ member'[p].active /\ p \notin Departing(q)
      BY <1>7 DEF Active
    <3>2. CASE p \in Arriving(q)
      BY <3>1, <3>2, <1>1, <1>4, <1>6, <1>7
    <3>3. CASE p \notin Arriving(q)
      <4>1. p \in Active /\ member'[p] = member[p] /\ member[p].from \in Nat
        BY <3>1, <3>3, <1>7 DEF Active, IInv, TypeOK, Member
      <4> QED BY <4>1, <1>1, <1>4 DEF HInv, FromsOK
    <3> QED BY <3>2, <3>3
  <2> QED BY <1>1, <2>1, <2>2 DEF FromsOK
<1> QED BY <1>10, <1>11, <1>12, <1>13 DEF HInv

-----------------------------------------------------------------------------
\* A member row that stays or closes.
LEMMA OthersKeepHistory ==
    ASSUME IInv, TypeOK', HInv,
           \/ \E u \in Users : FetchKeys(u) \/ Accept(u) \/ Decline(u) \/ DeleteAccount(u)
           \/ Rename
           \/ \E r \in Requests :
                 \/ \E op \in Ops, a \in Users, t \in Principals :
                       \E level \in LevelsOffered(op) : Send(r, op, a, t, level)
                 \/ Gate(r) \/ GateRefuses(r) \/ ChangePrivilege(r) \/ RevokeBare(r)
                 \/ Refuses(r) \/ Lost(r)
    PROVE  HInv'
<1> DEFINE Keeps == /\ UNCHANGED <<currentEpoch, wraps, floor>>
                    /\ \A p \in Principals :
                          /\ member'[p].row >= member[p].row
                          /\ member'[p].active => /\ member[p].active
                                                  /\ member'[p].from = member[p].from
                    /\ \A r \in Requests : Locked(r)' => req'[r] = req[r]
<1> SUFFICES Keeps
  BY QuietSteps DEF IInv
<1>0. \A p \in Principals : member[p].row \in Nat
  BY DEF IInv, TypeOK, Member
<1> USE DEF IInv, TypeOK
<1>1. ASSUME NEW u \in Users, FetchKeys(u) \/ Accept(u) \/ Decline(u) \/ DeleteAccount(u)
      PROVE  Keeps
  BY <1>0, <1>1 DEF FetchKeys, Accept, Decline, DeleteAccount, dbVars, historyVars,
                    Departed, NoMember, Member, Principals
<1>2. CASE Rename
  BY <1>0, <1>2 DEF Rename, historyVars
<1>3. ASSUME NEW r \in Requests, NEW op \in Ops, NEW a \in Users, NEW t \in Principals,
             NEW level \in LevelsOffered(op), Send(r, op, a, t, level)
      PROVE  Keeps
  <2>1. UNCHANGED <<currentEpoch, wraps, floor, member>> /\ req'[r].stage = "sent"
    BY <1>3 DEF Send, dbVars, historyVars, IdleRequest
  <2>2. \A s \in Requests \ {r} : req'[s] = req[s]
    BY <1>3 DEF Send
  <2> QED BY <1>0, <2>1, <2>2 DEF Locked
<1>4. ASSUME NEW r \in Requests, GateRefuses(r) \/ RevokeBare(r) \/ Refuses(r) \/ Lost(r)
      PROVE  Keeps
  <2>1. UNCHANGED <<currentEpoch, wraps, floor, member>> /\ Finish(r)
    BY <1>4 DEF GateRefuses, RevokeBare, Refuses, Lost, dbVars, historyVars
  <2>2. req'[r].stage = "idle" /\ \A s \in Requests \ {r} : req'[s] = req[s]
    BY <2>1 DEF Finish, IdleRequest
  <2> QED BY <1>0, <2>1, <2>2 DEF Locked
<1>5. ASSUME NEW r \in Requests, Gate(r)
      PROVE  Keeps
  <2>1. UNCHANGED <<currentEpoch, wraps, floor, member>>
    BY <1>5 DEF Gate, dbVars, historyVars
  <2>3. req'[r].stage = "gated"
    <3>1. req[r] \in Request
      OBVIOUS
    <3> HIDE DEF IInv, TypeOK
    <3>2. req \in [Requests -> Request]
      BY DEF IInv, TypeOK
    <3> QED BY <1>5, <3>1, <3>2 DEF Gate, Request
  <2>2. \A s \in Requests \ {r} : req'[s] = req[s]
    BY <1>5 DEF Gate
  <2> QED BY <1>0, <2>1, <2>2, <2>3 DEF Locked
<1>6. ASSUME NEW r \in Requests, ChangePrivilege(r)
      PROVE  Keeps
  <2>1. UNCHANGED <<currentEpoch, wraps, floor>> /\ Finish(r)
    BY <1>6 DEF ChangePrivilege, historyVars
  <2>2. req'[r].stage = "idle" /\ \A s \in Requests \ {r} : req'[s] = req[s]
    BY <2>1 DEF Finish, IdleRequest
  <2>3. \A p \in Principals : /\ member'[p].row = member[p].row
                              /\ member'[p].active = member[p].active
                              /\ member'[p].from = member[p].from
    BY <1>6 DEF ChangePrivilege, Member
  <2> QED BY <1>0, <2>1, <2>2, <2>3 DEF Locked
<1> QED BY <1>1, <1>2, <1>3, <1>4, <1>5, <1>6

LEMMA DeleteKeepsHistory == ASSUME Delete PROVE HInv'
BY DEF Delete, HInv, WrapsOK, GrantsOK, FloorsOK, FromsOK, Active, NoMember, IdleRequest,
       Locked

LEMMA NextKeepsHistory == IInv /\ TypeOK' /\ HInv /\ [Next]_vars => HInv'
<1> SUFFICES ASSUME IInv, TypeOK', HInv, [Next]_vars PROVE HInv'
  OBVIOUS
<1>1. CASE UNCHANGED vars
  BY <1>1 DEF vars, dbVars, historyVars, HInv, WrapsOK, GrantsOK, FloorsOK, FromsOK, Active, Locked,
              Arriving, VisibleFrom
<1>2. ASSUME NEW r \in Requests, AddFull(r) \/ LinkFull(r) PROVE HInv'
  BY <1>2, InsertKeepsHistory
<1>3. ASSUME NEW r \in Requests, Begin(r) PROVE HInv'
  BY <1>3, BeginKeepsHistory
<1>4. ASSUME NEW r \in Requests, Commit(r) PROVE HInv'
  BY <1>4, CommitKeepsHistory
<1> QED BY <1>1, <1>2, <1>3, <1>4, OthersKeepHistory, DeleteKeepsHistory DEF Next, Client, Server

\* Who is left with wraps of the current epoch alone has one, and it hides what
\* came before.
LEMMA FloorFollows == IInv /\ HInv => HistoryFloor
<1> SUFFICES ASSUME IInv, HInv, NEW p \in Active,
                    \A w \in RowsOf(p) : w.epoch = currentEpoch,
                    NEW e \in Served(p)
             PROVE  e >= floor[p]
  BY DEF HistoryFloor
<1>1. PICK w \in RowsOf(p) : TRUE
  BY DEF Served
<1>2. w \in wraps /\ w.who = p /\ w.from >= floor[p]
  BY <1>1 DEF RowsOf, HInv, FloorsOK
<1>3. RowsOf(p) = {w}
  BY <1>1, <1>2 DEF RowsOf, HInv, WrapsOK
<1>4. w.from <= e
  BY <1>3 DEF Served
<1>5. e \in Nat /\ w.from \in Nat /\ floor[p] \in Nat
  BY <1>2 DEF Served, IInv, TypeOK, Wrap, Active
<1> QED BY <1>2, <1>4, <1>5

\* A member who joined without history is served no key of an earlier epoch as
\* long as all its wraps are of the current one, whatever rotations, departures
\* and returns went before and overlap.
THEOREM HistoryStaysHidden == Spec => []HistoryFloor
<1>1. IInv /\ HInv => HistoryFloor
  BY FloorFollows
<1>2. IInv /\ IInv' /\ HInv /\ [Next]_vars => HInv'
  BY NextKeepsHistory DEF IInv
<1> QED BY <1>1, <1>2, InitHInv, InvariantHolds, PTL DEF Spec

-----------------------------------------------------------------------------
(* The keys as those in the conversation see them *)

\* A conversation just created is as KeyAccess begins.
LEMMA AccessBegins == Init => Access!Init
<1> SUFFICES ASSUME Init PROVE Access!Init
  OBVIOUS
<1>1. Owner \in Principals
  BY PrincipalsAssumption DEF Principals
<1>2. Active \ raced = {Owner} /\ {p \in Principals : gone[p] # 0} = {}
  BY <1>1 DEF Init, Active, NoMember
<1>3. ASSUME NEW p \in Principals
      PROVE  Served(p) = IF p = Owner THEN {1} ELSE {}
  <2> DEFINE first == [epoch |-> 1, who |-> Owner, key |-> 1, from |-> 1]
  <2>1. RowsOf(p) = IF p = Owner THEN {first} ELSE {}
    BY DEF Init, RowsOf
  <2>2. first.from = 1 /\ first.key = 1 /\ first.epoch = 1
    OBVIOUS
  <2> HIDE DEF first
  <2>3. CASE p = Owner
    <3>1. \A e \in 1..1 : e = 1
      OBVIOUS
    <3> QED BY <2>1, <2>2, <2>3, <3>1 DEF Init, Served
  <2> QED BY <2>1, <2>3 DEF Served
<1> QED BY <1>1, <1>2, <1>3 DEF Init, Access!Init

\* Who reads what changes only with the wraps and the epoch.
LEMMA ServedSame ==
    ASSUME NEW p, currentEpoch' = currentEpoch, RowsOf(p)' = RowsOf(p)
    PROVE  Served(p)' = Served(p)
BY DEF Served

LEMMA AccessSame ==
    ASSUME Active' = Active, UNCHANGED <<currentEpoch, wraps, gone, raced>>
    PROVE  UNCHANGED Access!accessVars
<1>1. \A p : Served(p)' = Served(p)
  BY ServedSame DEF RowsOf
<1> QED BY <1>1 DEF Access!accessVars

LEMMA QuietAccess ==
    ASSUME IInv,
           \/ \E u \in Users : FetchKeys(u) \/ Accept(u)
           \/ Rename
           \/ \E r \in Requests :
                 \/ \E op \in Ops, a \in Users, t \in Principals :
                       \E level \in LevelsOffered(op) : Send(r, op, a, t, level)
                 \/ Gate(r) \/ GateRefuses(r) \/ ChangePrivilege(r) \/ RevokeBare(r)
                 \/ Begin(r) \/ Refuses(r) \/ Lost(r)
    PROVE  UNCHANGED Access!accessVars
<1> DEFINE Keeps == Active' = Active /\ UNCHANGED <<currentEpoch, wraps, gone, raced>>
<1> SUFFICES Keeps
  BY AccessSame
<1>1. ASSUME NEW u \in Users, FetchKeys(u) \/ Accept(u) PROVE Keeps
  <2>1. UNCHANGED <<currentEpoch, wraps, gone, raced>>
    BY <1>1 DEF FetchKeys, Accept, dbVars, historyVars
  <2>2. \A p \in Principals : member'[p].active = member[p].active
    BY <1>1 DEF FetchKeys, Accept, dbVars, IInv, TypeOK, Member
  <2> QED BY <2>1, <2>2 DEF Active
<1>2. CASE Rename
  BY <1>2 DEF Rename, historyVars, Active
<1>3. ASSUME NEW r \in Requests, NEW op \in Ops, NEW a \in Users, NEW t \in Principals,
             NEW level \in LevelsOffered(op), Send(r, op, a, t, level)
      PROVE  Keeps
  BY <1>3 DEF Send, dbVars, historyVars, Active
<1>4. ASSUME NEW r \in Requests,
             Gate(r) \/ GateRefuses(r) \/ RevokeBare(r) \/ Begin(r) \/ Refuses(r) \/ Lost(r)
      PROVE  Keeps
  BY <1>4 DEF Gate, GateRefuses, RevokeBare, Begin, Refuses, Lost, dbVars, historyVars, Active
<1>5. ASSUME NEW r \in Requests, ChangePrivilege(r) PROVE Keeps
  <2>1. UNCHANGED <<currentEpoch, wraps, gone, raced>>
    BY <1>5 DEF ChangePrivilege, historyVars
  <2>2. \A p \in Principals : member'[p].active = member[p].active
    BY <1>5 DEF ChangePrivilege, IInv, TypeOK, Member
  <2> QED BY <2>1, <2>2 DEF Active
<1> QED BY <1>1, <1>2, <1>3, <1>4, <1>5

\* Who declines, and who deletes an account, leaves.
LEMMA LeaveAccess ==
    ASSUME IInv, NEW u \in Users, Decline(u) \/ DeleteAccount(u)
    PROVE  Access!Leave(u)
<1>1. UNCHANGED <<currentEpoch, wraps, gone>> /\ raced' = raced \ {u}
  BY DEF Decline, DeleteAccount
<1>2. \A p \in Principals : IF p = u THEN ~member'[p].active ELSE member'[p] = member[p]
  BY DEF Decline, DeleteAccount, Departed, NoMember, IInv, TypeOK, Member
<1>3. Active' \ raced' = (Active \ raced) \ {u}
  BY <1>1, <1>2 DEF Active
<1>4. \A p : Served(p)' = Served(p)
  BY <1>1, ServedSame DEF RowsOf
<1> QED BY <1>1, <1>3, <1>4 DEF Access!Leave

\* A member with full history is added.
LEMMA AddAccess ==
    ASSUME IInv, HInv, NEW r \in Requests, AddFull(r) \/ LinkFull(r),
           NEW t, t = req[r].target
    PROVE  t \in Principals /\ Access!Add(t)
<1> DEFINE q == req[r]
<1>1. /\ t \in Principals /\ InsertWithWrap(q) /\ currentEpoch' = currentEpoch
      /\ q.op \in {"addFull", "linkFull"}
  BY FlightFacts DEF AddFull, LinkFull
<1>2. /\ q.expected <= q.seen /\ q.seen <= currentEpoch
      /\ q.op = "linkFull" => member[t].row = 0
  BY <1>1 DEF IInv, RequestsOK, InFlight, Gated, AddFull, LinkFull, JoinOps
<1>3. currentEpoch \in Nat /\ q.expected \in Nat /\ q.seen \in Nat
  BY DEF IInv, TypeOK, Request
<1>4. ~member[t].active
  BY <1>1, <1>2 DEF AddFull, LinkFull, MayInsert, MayJoin, IInv, StoreOK
<1>5. t \notin raced /\ t \notin Active
  BY <1>4 DEF IInv, StoreOK, Active
<1>6. Active' = Active \cup {t}
  BY <1>1 DEF InsertWithWrap, Joined, Active, IInv, TypeOK
<1>7. NewWrap(q) = [epoch |-> q.seen, who |-> t, key |-> q.expected, from |-> 1]
      /\ wraps' = wraps \cup {NewWrap(q)}
  BY <1>1 DEF InsertWithWrap, NewWrap, VisibleFrom
<1>8. \A p \in Principals \ {t} : Served(p)' = Served(p)
  BY <1>1, <1>7, ServedSame DEF RowsOf
<1>9. Served(t) \subseteq Served(t)'
  <2>1. RowsOf(t) \subseteq RowsOf(t)'
    BY <1>7 DEF RowsOf
  <2> QED BY <1>1, <2>1 DEF Served
<1>10. \/ Active' \ raced' = Active \ raced
       \/ Active' \ raced' = (Active \ raced) \cup {t} /\ Served(t)' = 1..currentEpoch
  <2>1. CASE raced' = raced \cup {t}
    BY <1>5, <1>6, <2>1
  <2>2. CASE raced' = raced
    <3>1. q.expected = currentEpoch
      BY <1>1, <1>5, <2>2 DEF InsertWithWrap
    <3>2. q.seen = currentEpoch
      BY <1>2, <1>3, <3>1
    <3>3. NewWrap(q) \in RowsOf(t)'
      BY <1>7 DEF RowsOf
    <3>4. NewWrap(q).key = currentEpoch /\ NewWrap(q).epoch = currentEpoch /\ NewWrap(q).from = 1
      BY <1>7, <3>1, <3>2
    <3>5. Served(t)' = 1..currentEpoch
      BY <1>1, <1>3, <3>3, <3>4 DEF Served
    <3> QED BY <1>5, <1>6, <2>2, <3>5
  <2> QED BY <1>1, <2>1, <2>2 DEF InsertWithWrap
<1>11. \A p \in Principals : gone'[p] = IF p = t THEN 0 ELSE gone[p]
  BY <1>1 DEF InsertWithWrap, IInv, TypeOK
<1>12. \A p \in Principals : Served(p)' \in SUBSET (1..currentEpoch')
  BY DEF Served
<1>13. {p \in Principals : gone'[p] # 0} = {p \in Principals : gone[p] # 0} \ {t}
  BY <1>11
<1> QED
  BY <1>1, <1>5, <1>8, <1>9, <1>10, <1>12, <1>13 DEF Access!Add, Access!Histories

\* A rotation that commits: whoever has a wrap among its grants is granted the key.
LEMMA RotateAccess ==
    ASSUME IInv, TypeOK', HInv, NEW r \in Requests, Commit(r),
           NEW granted, granted = {g.who : g \in req[r].grants}
    PROVE  granted \in SUBSET Principals /\ Access!Rotate(granted)
<1> DEFINE q == req[r]
           n == q.expected + 1
<1>1. /\ Locked(r) /\ q \in Request /\ q.expected = currentEpoch /\ exists
      /\ currentEpoch' = n /\ wraps' = RotatedWraps(q)
  BY FlightFacts DEF Commit, Locked, IInv, LocksOK, TypeOK
<1>2. currentEpoch \in Nat /\ currentEpoch >= 1 /\ n = currentEpoch + 1 /\ n # 0
  BY <1>1, EpochBegun
<1>3. \A g \in q.grants :
        /\ g.who \in Principals /\ g.from \in Nat /\ g.from <= n
        /\ g.who \notin Departing(q)
        /\ g.who \in Arriving(q) \/ gone[g.who] = 0
        /\ \A h \in q.grants : h.who = g.who => h = g
  BY <1>1 DEF IInv, LocksOK, HInv, GrantsOK, FromsOK, Request, Grant
<1>4. \A p \in Principals :
        /\ member'[p] = IF p \in Departing(q) THEN Departed(p)
                        ELSE IF p \in Arriving(q) THEN Joined(p, q.level, VisibleFrom(q))
                        ELSE member[p]
        /\ gone'[p] = IF p \in Departing(q) THEN n
                      ELSE IF p \in Arriving(q) THEN 0 ELSE gone[p]
        /\ p \in raced' => p \in raced
        /\ p \in raced /\ p \notin raced' =>
              p \in Departing(q) \/ [who |-> p, from |-> member[p].from] \in q.grants
  BY DEF Commit
<1>5. \A p \in Principals : p \in Departing(q) => ~member'[p].active
  BY <1>4 DEF Departed, NoMember
<1>6. /\ \A p \in Arriving(q) : ~member[p].active /\ p \in granted
      /\ \A p \in Active \ (Departing(q) \cup raced) :
            [who |-> p, from |-> member[p].from] \in q.grants
  <2>1. /\ \A p \in Arriving(q) :
              ~member[p].active /\ [who |-> p, from |-> VisibleFrom(q)] \in q.grants
        /\ \A p \in Active \ (Departing(q) \cup raced) :
              [who |-> p, from |-> member[p].from] \in q.grants
    BY <1>1 DEF IInv, LocksOK
  <2>2. \A p, from : [who |-> p, from |-> from] \in q.grants => p \in granted
    <3> SUFFICES ASSUME NEW p, NEW from, [who |-> p, from |-> from] \in q.grants
                 PROVE  p \in granted
      OBVIOUS
    <3>1. [who |-> p, from |-> from].who = p
      OBVIOUS
    <3> QED BY <3>1
  <2> QED BY <2>1, <2>2
<1>7. \A w \in wraps : /\ w.epoch \in Nat /\ w.epoch <= currentEpoch
                       /\ w.from \in Nat /\ w.key \in Nat
  BY DEF IInv, StoreOK, TypeOK, Wrap
<1>8. ASSUME NEW p \in Principals, p \in Active \ raced, p \in Active' \ raced'
      PROVE  /\ [who |-> p, from |-> member[p].from] \in q.grants
             /\ Served(p)' = Served(p) \cup {n}
  <2> DEFINE from == member[p].from
             old  == [epoch |-> currentEpoch, who |-> p, key |-> currentEpoch, from |-> from]
             new  == [epoch |-> n, who |-> p, key |-> n, from |-> from]
  <2>1. [who |-> p, from |-> from] \in q.grants
    BY <1>5, <1>6, <1>8 DEF Active
  <2>2. old \in wraps
    BY <1>1, <1>8 DEF IInv, MembersHoldCurrentKey
  <2>3. from \in Nat /\ from <= currentEpoch
    BY <1>8 DEF HInv, FromsOK, IInv, TypeOK, Member
  <2>4. ASSUME NEW w \in RowsOf(p) PROVE w = old \/ w \in RowsOf(p)'
    BY <1>1, <2>2 DEF RowsOf, RotatedWraps, HInv, WrapsOK
  <2>5. ASSUME NEW w \in RowsOf(p)' PROVE w = new \/ w \in RowsOf(p)
    BY <1>1, <1>3, <2>1 DEF RowsOf, RotatedWraps
  <2>6. old \in RowsOf(p) /\ new \in RowsOf(p)'
    BY <1>1, <2>1, <2>2 DEF RowsOf, RotatedWraps
  <2>7. Served(p) = {e \in 1..currentEpoch : \E w \in RowsOf(p) : w.from <= e}
    BY <2>6 DEF Served
  <2>8. Served(p)' = {e \in 1..n : \E w \in RowsOf(p)' : w.from <= e}
    BY <1>1, <2>6 DEF Served
  <2>9. \A e \in 1..currentEpoch :
            (\E w \in RowsOf(p) : w.from <= e) <=> (\E w \in RowsOf(p)' : w.from <= e)
    BY <2>4, <2>5, <2>6
  <2>10. \E w \in RowsOf(p)' : w.from <= n
    BY <1>1, <1>2, <2>3, <2>6
  <2> HIDE DEF old, new
  <2>11. Served(p)' = Served(p) \cup {n}
    BY <1>1, <1>2, <2>7, <2>8, <2>9, <2>10
  <2> QED BY <2>1, <2>11
<1>9. ASSUME NEW g \in q.grants PROVE n \in Served(g.who)'
  <2> DEFINE new == [epoch |-> n, who |-> g.who, key |-> n, from |-> g.from]
  <2>1. new \in RowsOf(g.who)'
    BY <1>1 DEF RowsOf, RotatedWraps
  <2> QED BY <1>1, <1>2, <1>3, <2>1 DEF Served
<1>10. ASSUME NEW p \in Principals \ granted PROVE Served(p)' \subseteq Served(p)
  <2>1. \A w \in RowsOf(p)' : w \in RowsOf(p) /\ w \in wraps
    BY <1>1 DEF RowsOf, RotatedWraps
  <2> QED BY <1>1, <1>2, <1>7, <2>1 DEF Served
<1>11. Active' \ raced' \subseteq granted
  <2> SUFFICES ASSUME NEW p \in Principals, p \in Active', p \notin raced'
               PROVE  p \in granted
    BY DEF Active
  <2>1. p \notin Departing(q)
    BY <1>5 DEF Active
  <2>2. CASE p \in Arriving(q)
    BY <1>6, <2>2
  <2>3. CASE p \notin Arriving(q)
    <3>1. p \in Active
      BY <1>4, <2>1, <2>3 DEF Active
    <3>2. [who |-> p, from |-> member[p].from] \in q.grants
      BY <1>4, <1>6, <2>1, <3>1
    <3> QED BY <3>2
  <2> QED BY <2>2, <2>3
<1>12. \A p \in Active \ raced : p \in Active' \ raced' \/ gone'[p] # 0
  <2> SUFFICES ASSUME NEW p \in Principals, p \in Active, p \notin raced, p \notin Departing(q)
               PROVE  p \in Active' \ raced'
    BY <1>1, <1>2, <1>4 DEF Active
  <2>1. p \notin Arriving(q)
    BY <1>6 DEF Active
  <2> QED BY <1>4, <2>1 DEF Active
<1>13. \A p \in Principals : gone[p] # 0 => gone'[p] # 0 \/ p \in granted
  BY <1>1, <1>2, <1>4, <1>6
<1>14. \A g \in q.grants : gone'[g.who] = 0
  BY <1>3, <1>4
<1>15. \A p \in Principals : Served(p)' \in SUBSET (1..n)
  BY <1>1 DEF Served
<1>16. \A p \in granted : n \in Served(p)' /\ p \in Principals /\ gone'[p] = 0
  BY <1>3, <1>9, <1>14
<1>17. Access!Rotate(granted)
  <2>1. /\ {p \in Principals : gone[p] # 0} \subseteq {p \in Principals : gone'[p] # 0} \cup granted
        /\ {p \in Principals : gone'[p] # 0} \cap granted = {}
    BY <1>13, <1>16
  <2>2. Active \ raced \subseteq (Active' \ raced') \cup {p \in Principals : gone'[p] # 0}
    BY <1>12 DEF Active
  <2>3. [p \in Principals |-> Served(p)]' \in [Principals -> SUBSET (1..n)]
    BY <1>15
  <2>4. \A p \in (Active \ raced) \cap (Active' \ raced') :
           p \in Principals /\ Served(p)' = Served(p) \cup {n}
    BY <1>8 DEF Active
  <2> QED
    BY <1>1, <1>2, <1>10, <1>11, <1>16, <2>1, <2>2, <2>3, <2>4
       DEF Access!Rotate, Access!Histories
<1> QED BY <1>16, <1>17

\* Nothing is left of a conversation that is deleted.
LEMMA DeleteAccess == ASSUME Delete PROVE Access!Delete
<1>1. Active' = {} /\ \A p : Served(p)' = {}
  BY DEF Delete, Active, NoMember, Served
<1> QED BY <1>1 DEF Delete, Access!Delete

\* A step of a handler is a step of KeyAccess, or none.
LEMMA AccessStep ==
    ASSUME IInv, TypeOK', HInv, [Next]_vars
    PROVE  [Access!Next]_(Access!accessVars)
<1>1. CASE UNCHANGED vars
  <2>1. Active' = Active /\ UNCHANGED <<currentEpoch, wraps, gone, raced>>
    BY <1>1 DEF vars, dbVars, historyVars, Active
  <2> QED BY <2>1, AccessSame
<1>2. ASSUME NEW u \in Users, Decline(u) \/ DeleteAccount(u) PROVE Access!Next
  <2>1. u \in Principals
    BY DEF Principals
  <2> QED BY <1>2, <2>1, LeaveAccess DEF Access!Next
<1>3. ASSUME NEW r \in Requests, AddFull(r) \/ LinkFull(r) PROVE Access!Next
  <2>1. PICK t : t = req[r].target
    OBVIOUS
  <2>2. t \in Principals /\ Access!Add(t)
    BY <1>3, <2>1, AddAccess
  <2> QED BY <2>2 DEF Access!Next
<1>4. ASSUME NEW r \in Requests, Commit(r) PROVE Access!Next
  <2>1. PICK granted : granted = {g.who : g \in req[r].grants}
    OBVIOUS
  <2>2. granted \in SUBSET Principals /\ Access!Rotate(granted)
    BY <1>4, <2>1, RotateAccess
  <2> QED BY <2>2 DEF Access!Next
<1>5. CASE Delete
  BY <1>5, DeleteAccess DEF Access!Next
<1> QED BY <1>1, <1>2, <1>3, <1>4, <1>5, QuietAccess DEF Next, Client, Server

\* The handlers implement KeyAccess, for any members, links, requests and epochs:
\* a rotation takes no epoch from a member who stays, and nobody reads more but by
\* a rotation that grants a key or an addition.
THEOREM ImplementsKeyAccess == Spec => AccessKept
<1>1. IInv /\ IInv' /\ HInv /\ [Next]_vars => HInv'
  BY NextKeepsHistory DEF IInv
<1>2. IInv /\ IInv' /\ HInv /\ [Next]_vars => [Access!Next]_(Access!accessVars)
  BY AccessStep DEF IInv
<1> QED
  BY <1>1, <1>2, AccessBegins, InitHInv, InvariantHolds, PTL DEF Spec, AccessKept, Access!Spec

-----------------------------------------------------------------------------
(* The limit of members *)

\* Requests that are past the gate and may still insert a member.
Joining == {r \in Requests : Gated(r) /\ req[r].op \in JoinOps}

Counted ==
    Cardinality(Active) + Cardinality(Joining) <= MaxMembers + Cardinality(Requests) - 1

-----------------------------------------------------------------------------
LEMMA SetsAreFinite ==
    /\ IsFiniteSet(Principals)
    /\ \A ps \in SUBSET Principals : IsFiniteSet(ps) /\ Cardinality(ps) \in Nat
    /\ \A rs \in SUBSET Requests : /\ IsFiniteSet(rs)
                                   /\ Cardinality(rs) \in Nat
                                   /\ Cardinality(rs) <= Cardinality(Requests)
    /\ Cardinality(Requests) \in Nat \ {0}
<1>1. IsFiniteSet(Principals)
  BY FiniteAssumption, FS_Union DEF Principals
<1>2. \A ps \in SUBSET Principals : IsFiniteSet(ps) /\ Cardinality(ps) \in Nat
  BY <1>1, FS_Subset, FS_CardinalityType
<1>3. \A rs \in SUBSET Requests : /\ IsFiniteSet(rs)
                                  /\ Cardinality(rs) \in Nat
                                  /\ Cardinality(rs) <= Cardinality(Requests)
  BY FiniteAssumption, FS_Subset, FS_CardinalityType
<1>4. Cardinality(Requests) \in Nat \ {0}
  BY FiniteAssumption, RoomAssumption, FS_CardinalityType, FS_EmptySet
<1> QED BY <1>1, <1>2, <1>3, <1>4

LEMMA ActiveAndJoining ==
    /\ Active \subseteq Principals /\ Active' \subseteq Principals
    /\ Joining \subseteq Requests /\ Joining' \subseteq Requests
BY DEF Active, Joining

LEMMA InitCounted == Init => Counted
<1> SUFFICES ASSUME Init PROVE Counted
  OBVIOUS
<1>1. Active = {Owner}
  BY PrincipalsAssumption DEF Init, Active, NoMember, Principals
<1>2. Joining = {}
  BY DEF Init, Joining, Gated, IdleRequest
<1>3. Cardinality(Active) = 1 /\ Cardinality(Joining) = 0
  BY <1>1, <1>2, FS_Singleton, FS_EmptySet
<1> QED BY <1>3, SetsAreFinite, RoomAssumption, BoundsAssumption DEF Counted

\* Fewer members and fewer requests that may join.
LEMMA FewerKeep ==
    ASSUME Counted, Active' \subseteq Active, Joining' \subseteq Joining
    PROVE  Counted'
<1>1. Cardinality(Active') <= Cardinality(Active) /\ Cardinality(Active') \in Nat
  BY SetsAreFinite, ActiveAndJoining, FS_Subset
<1>2. Cardinality(Joining') <= Cardinality(Joining) /\ Cardinality(Joining') \in Nat
  BY SetsAreFinite, ActiveAndJoining, FS_Subset
<1>3. Cardinality(Active) \in Nat /\ Cardinality(Joining) \in Nat
  BY SetsAreFinite, ActiveAndJoining
<1> QED BY <1>1, <1>2, <1>3, SetsAreFinite, BoundsAssumption DEF Counted

\* A request that was to join has joined.
LEMMA JoiningKeeps ==
    ASSUME Counted, NEW r \in Joining, NEW p \in Principals,
           Active' \subseteq Active \cup {p}, Joining' \subseteq Joining \ {r}
    PROVE  Counted'
<1>1. Cardinality(Active') <= Cardinality(Active) + 1 /\ Cardinality(Active') \in Nat
  <2>1. Active \cup {p} \in SUBSET Principals
    BY ActiveAndJoining
  <2>2. Cardinality(Active') <= Cardinality(Active \cup {p})
    BY <2>1, SetsAreFinite, ActiveAndJoining, FS_Subset
  <2>3. Cardinality(Active \cup {p}) <= Cardinality(Active) + 1
    <3>1. IsFiniteSet(Active) /\ Cardinality(Active) \in Nat
      BY SetsAreFinite, ActiveAndJoining
    <3>2. Cardinality(Active \cup {p}) =
             IF p \in Active THEN Cardinality(Active) ELSE Cardinality(Active) + 1
      BY <3>1, FS_AddElement
    <3> QED BY <3>1, <3>2
  <2> QED BY <2>1, <2>2, <2>3, SetsAreFinite, ActiveAndJoining
<1>2. Cardinality(Joining') <= Cardinality(Joining) - 1 /\ Cardinality(Joining') \in Nat
  <2>1. Cardinality(Joining \ {r}) = Cardinality(Joining) - 1
    BY SetsAreFinite, ActiveAndJoining, FS_RemoveElement
  <2>2. Joining \ {r} \in SUBSET Requests
    BY ActiveAndJoining
  <2>3. Cardinality(Joining') <= Cardinality(Joining \ {r})
    BY <2>2, SetsAreFinite, FS_Subset
  <2> QED BY <2>1, <2>2, <2>3, SetsAreFinite, ActiveAndJoining
<1>3. Cardinality(Active) \in Nat /\ Cardinality(Joining) \in Nat
  BY SetsAreFinite, ActiveAndJoining
<1> QED BY <1>1, <1>2, <1>3, SetsAreFinite, BoundsAssumption DEF Counted

-----------------------------------------------------------------------------
\* The requests that are left after one of them has ended.
LEMMA FinishLeaves ==
    ASSUME TypeOK, NEW r \in Requests, Finish(r)
    PROVE  Joining' = Joining \ {r}
BY DEF TypeOK, Finish, IdleRequest, Joining, Gated

LEMMA GateCounts ==
    ASSUME TypeOK, Counted, NEW r \in Requests, Gate(r)
    PROVE  Counted'
<1>1. Active' = Active
  BY DEF Gate, dbVars, Active
<1>2. CASE req[r].op \in JoinOps
  <2>1. Cardinality(Active) < MaxMembers
    BY <1>2 DEF Gate, GatePasses, HasRoom, JoinOps
  <2>2. Cardinality(Joining') \in Nat /\ Cardinality(Joining') <= Cardinality(Requests)
    BY SetsAreFinite, ActiveAndJoining
  <2> QED BY <1>1, <2>1, <2>2, SetsAreFinite, ActiveAndJoining, BoundsAssumption DEF Counted
<1>3. CASE req[r].op \notin JoinOps
  <2>1. Joining' \subseteq Joining
    BY <1>3 DEF Gate, TypeOK, Joining, Gated
  <2> QED BY <1>1, <2>1, FewerKeep
<1> QED BY <1>2, <1>3

LEMMA InsertCounts ==
    ASSUME IInv, Counted, NEW r \in Requests, AddFull(r) \/ LinkFull(r)
    PROVE  Counted'
<1>1. r \in Joining /\ req[r].target \in Principals /\ Finish(r)
  BY DEF IInv, RequestsOK, InFlight, AddFull, LinkFull, Joining, Gated, JoinOps
<1>2. Joining' = Joining \ {r}
  BY <1>1, FinishLeaves DEF IInv
<1>3. Active' \subseteq Active \cup {req[r].target}
  BY DEF IInv, TypeOK, AddFull, LinkFull, InsertWithWrap, Active
<1> QED BY <1>1, <1>2, <1>3, JoiningKeeps

LEMMA CommitCounts ==
    ASSUME IInv, Counted, NEW r \in Requests, Commit(r)
    PROVE  Counted'
<1> DEFINE q == req[r]
<1>1. q.op \in RotatingOps /\ q.target \in Principals /\ Finish(r) /\ Gated(r)
  BY DEF IInv, RequestsOK, LocksOK, InFlight, Locked, Gated, Commit
<1>2. Joining' = Joining \ {r}
  BY <1>1, FinishLeaves DEF IInv
<1>3. Active' \subseteq Active \cup Arriving(q)
  BY DEF Commit, Active, Departed, NoMember
<1>4. CASE q.op \in JoinOps
  <2>1. r \in Joining
    BY <1>1, <1>4 DEF Joining
  <2>2. Arriving(q) \subseteq {q.target}
    BY DEF Arriving
  <2> QED BY <1>1, <1>2, <1>3, <2>1, <2>2, JoiningKeeps
<1>5. CASE q.op \notin JoinOps
  <2>1. Arriving(q) = {}
    BY <1>5 DEF Arriving, JoinOps
  <2> QED BY <1>2, <1>3, <2>1, FewerKeep
<1> QED BY <1>4, <1>5

\* Everything else leaves the members and the requests to join as they are, or
\* fewer of them.
LEMMA OthersCount ==
    ASSUME IInv, Counted,
           \/ \E u \in Users : FetchKeys(u) \/ Accept(u) \/ Decline(u) \/ DeleteAccount(u)
           \/ Rename \/ Delete
           \/ \E r \in Requests :
                 \/ \E op \in Ops, a \in Users, t \in Principals :
                       \E level \in LevelsOffered(op) : Send(r, op, a, t, level)
                 \/ GateRefuses(r) \/ ChangePrivilege(r) \/ RevokeBare(r)
                 \/ Begin(r) \/ Refuses(r) \/ Lost(r)
    PROVE  Counted'
<1> SUFFICES Active' \subseteq Active /\ Joining' \subseteq Joining
  BY FewerKeep
<1> USE DEF IInv, TypeOK
<1>1. ASSUME NEW u \in Users, FetchKeys(u) \/ Accept(u) \/ Decline(u) \/ DeleteAccount(u)
      PROVE  Active' \subseteq Active /\ Joining' \subseteq Joining
  BY <1>1 DEF FetchKeys, Accept, Decline, DeleteAccount, dbVars, Active, Joining, Gated,
              Departed, NoMember
<1>2. CASE Rename
  BY <1>2 DEF Rename, Active, Joining, Gated
<1>3. CASE Delete
  BY <1>3 DEF Delete, Active, Joining, Gated, NoMember, IdleRequest
<1>4. ASSUME NEW r \in Requests, NEW op \in Ops, NEW a \in Users, NEW t \in Principals,
             NEW level \in LevelsOffered(op), Send(r, op, a, t, level)
      PROVE  Active' \subseteq Active /\ Joining' \subseteq Joining
  <2>1. member' = member /\ req'[r].stage = "sent"
    BY <1>4 DEF Send, dbVars, IdleRequest
  <2>2. \A s \in Requests \ {r} : req'[s] = req[s]
    BY <1>4 DEF Send
  <2> QED BY <2>1, <2>2 DEF Active, Joining, Gated
<1>5. ASSUME NEW r \in Requests, GateRefuses(r) \/ RevokeBare(r) \/ Refuses(r) \/ Lost(r)
      PROVE  Active' \subseteq Active /\ Joining' \subseteq Joining
  <2>1. Finish(r) /\ member' = member
    BY <1>5 DEF GateRefuses, RevokeBare, Refuses, Lost, dbVars
  <2> QED BY <2>1, FinishLeaves DEF Active
<1>6. ASSUME NEW r \in Requests, ChangePrivilege(r)
      PROVE  Active' \subseteq Active /\ Joining' \subseteq Joining
  <2>1. Finish(r) /\ \A p \in Principals : member'[p].active = member[p].active
    BY <1>6 DEF ChangePrivilege, Member
  <2> QED BY <2>1, FinishLeaves DEF Active
<1>7. ASSUME NEW r \in Requests, Begin(r)
      PROVE  Active' \subseteq Active /\ Joining' \subseteq Joining
  BY <1>7 DEF Begin, dbVars, Active, Joining, Gated
<1> QED BY <1>1, <1>2, <1>3, <1>4, <1>5, <1>6, <1>7

LEMMA NextCounts == IInv /\ Counted /\ [Next]_vars => Counted'
<1> SUFFICES ASSUME IInv, Counted, [Next]_vars PROVE Counted'
  OBVIOUS
<1>1. CASE UNCHANGED vars
  BY <1>1 DEF vars, dbVars, Counted, Active, Joining, Gated
<1>2. ASSUME NEW r \in Requests, Gate(r) PROVE Counted'
  BY <1>2, GateCounts DEF IInv
<1>3. ASSUME NEW r \in Requests, AddFull(r) \/ LinkFull(r) PROVE Counted'
  BY <1>3, InsertCounts
<1>4. ASSUME NEW r \in Requests, Commit(r) PROVE Counted'
  BY <1>4, CommitCounts
<1> QED BY <1>1, <1>2, <1>3, <1>4, OthersCount DEF Next, Client, Server

\* Requests that count the members before they insert one pass the limit by one
\* less than their number, and however many follow, never by more.
THEOREM LimitHolds == Spec => []MemberLimitOvershoot
<1>1. Counted => MemberLimitOvershoot
  BY SetsAreFinite, ActiveAndJoining, BoundsAssumption DEF Counted, MemberLimitOvershoot
<1>2. IInv /\ Counted /\ [Next]_vars => Counted'
  BY NextCounts
<1> QED BY <1>1, <1>2, InitCounted, InvariantHolds, PTL DEF Spec

=============================================================================
