-------------------------- MODULE ChatTurnsProofs --------------------------
(***************************************************************************)
(* Theorems of ChatTurns for every value of its constants.                 *)
(*                                                                         *)
(* ChainsDescend is not inductive: a request carries a parent from the     *)
(* moment it begins to the moment it is saved.  Younger adds that whatever *)
(* a request or a fork names has a sequence number that is already taken,  *)
(* so that the number a message is saved with is larger.                   *)
(*                                                                         *)
(* Chain is a recursive function, of which TLA+ knows no more than that it *)
(* is chosen among those that satisfy its equation.  There is one          *)
(* (WalkExists), so the equation holds (ChainStep): a chain is the message *)
(* and the chain of its parent.  TurnsStayOnFork then is a property of     *)
(* each step; RegenerationSparesOthers needs what the gate has found out   *)
(* to outlast the steps of the other requests (Spares).                    *)
(***************************************************************************)
EXTENDS ChatTurns, Induction

Younger ==
    /\ \A m \in Rows : m < nextSeq
    /\ \A f \in Forks : forks[f].tip < nextSeq
    /\ \A r \in Requests : /\ req[r].parent < nextSeq
                           /\ req[r].target < nextSeq
                           /\ req[r].tip < nextSeq

IInv == TypeOK /\ ChainsDescend /\ Younger

(* What a walk or a choice can yield *)

LEMMA LatestTaken ==
    ASSUME IInv
    PROVE  Latest \in Refs /\ Latest < nextSeq
<1>1. CASE \E m \in Rows : IsLatest(m)
  <2>1. Latest \in Rows BY <1>1 DEF Latest
  <2> QED BY <2>1, BoundsAssumption DEF IInv, TypeOK, Younger, Seqs, Refs
<1>2. CASE ~\E m \in Rows : IsLatest(m)
  <2>1. Latest = 0 BY <1>2 DEF Latest
  <2> QED BY <2>1, BoundsAssumption DEF IInv, TypeOK, Refs
<1> QED BY <1>1, <1>2

LEMMA TipTaken ==
    ASSUME IInv, NEW f
    PROVE  Tips(f) \in Refs /\ Tips(f) < nextSeq
<1>1. CASE f \in Forks
  <2>1. forks[f] \in Fork BY <1>1 DEF IInv, TypeOK
  <2> QED BY <1>1, <2>1 DEF Tips, Fork, IInv, Younger
<1>2. CASE f \notin Forks
  <2> QED BY <1>2, BoundsAssumption DEF Tips, IInv, TypeOK, Refs
<1> QED BY <1>1, <1>2

LEMMA RowTaken ==
    ASSUME IInv, NEW m \in Rows
    PROVE  /\ m \in Refs /\ m < nextSeq
           /\ msgs[m] \in Message
           /\ msgs[m].parent \in Refs /\ msgs[m].parent < nextSeq
<1>1. m \in Seqs /\ m < nextSeq BY DEF IInv, TypeOK, Younger
<1>2. msgs[m] \in Message BY DEF IInv, TypeOK
<1>3. msgs[m].parent \in Refs /\ msgs[m].parent < m
  BY <1>2 DEF Message, IInv, ChainsDescend
<1> QED BY <1>1, <1>2, <1>3, BoundsAssumption DEF Seqs, Refs, IInv, TypeOK

LEMMA TipsStayTyped ==
    ASSUME IInv, NEW gone
    PROVE  /\ WithoutTips(forks, gone) \in [Forks -> Fork]
           /\ \A f \in Forks : WithoutTips(forks, gone)[f].tip < nextSeq
<1> SUFFICES ASSUME NEW f \in Forks
             PROVE  /\ WithoutTips(forks, gone)[f] \in Fork
                    /\ WithoutTips(forks, gone)[f].tip < nextSeq
  BY DEF WithoutTips, Forks
<1>1. forks[f] \in Fork /\ forks[f].tip < nextSeq /\ nextSeq \in 1..(MaxSeq + 1)
  BY DEF IInv, TypeOK, Younger
<1>2. CASE forks[f].tip \in gone
  <2>1. WithoutTips(forks, gone)[f] = [forks[f] EXCEPT !.tip = 0]
    BY <1>2 DEF WithoutTips, Forks
  <2> QED BY <2>1, <1>1, BoundsAssumption DEF Fork, Refs
<1>3. CASE forks[f].tip \notin gone
  BY <1>1, <1>3 DEF WithoutTips, Forks
<1> QED BY <1>2, <1>3

LEMMA DeletesRows ==
    ASSUME NEW q, q.op \in Regenerations
    PROVE  Deletes(q) \subseteq Rows
<1>1. \A anchor : After(q, anchor) \subseteq Rows BY DEF After, Exclusive
<1>2. CASE q.op = "replace" BY <1>2 DEF Deletes
<1>3. CASE q.op = "retry" BY <1>1, <1>3 DEF Deletes
<1>4. CASE q.op = "edit" BY <1>1, <1>4 DEF Deletes
<1> QED BY <1>2, <1>3, <1>4 DEF Regenerations

(* Steps of a request *)

LEMMA IdleTyped == IdleRequest \in Request
  BY BoundsAssumption DEF IdleRequest, Request, Refs

\* A step that changes one request to one that names taken numbers.
LEMMA RequestStep ==
    ASSUME IInv, NEW r \in Requests, NEW q \in Request,
           q.parent < nextSeq, q.target < nextSeq, q.tip < nextSeq,
           req' = [req EXCEPT ![r] = q], UNCHANGED dbVars
    PROVE  IInv'
<1>1. TypeOK' BY DEF IInv, TypeOK, dbVars, Rows, Forks
<1>2. ChainsDescend' BY DEF IInv, ChainsDescend, dbVars, Rows
<1>3. \A s \in Requests : req'[s] = IF s = r THEN q ELSE req[s]
  BY DEF IInv, TypeOK
<1>4. Younger' BY <1>3 DEF IInv, Younger, dbVars, Rows, Forks
<1> QED BY <1>1, <1>2, <1>4 DEF IInv

\* What every Open action leaves to show: the record it begins with.
LEMMA BeginStep ==
    ASSUME IInv, NEW r \in Requests, NEW q \in Request, Begin(r, q),
           q.parent < nextSeq, q.target < nextSeq, q.tip < nextSeq
    PROVE  IInv'
  BY RequestStep DEF Begin

LEMMA OpenSendStep ==
    ASSUME IInv, NEW r \in Requests, NEW u \in Users, NEW f \in created \cup {NoFork},
           OpenSend(r, u, f)
    PROVE  IInv'
<1> DEFINE q == [IdleRequest EXCEPT !.stage = "open", !.op = "send", !.user = u,
                                    !.fork = f, !.parent = ParentFor(f)]
<1>1. ParentFor(f) \in Refs /\ ParentFor(f) < nextSeq
  BY LatestTaken, TipTaken DEF ParentFor
<1>2. Begin(r, q) /\ "send" \in Operations
  BY DEF OpenSend, Begin, IdleRequest
<1>3. f \in ForkIds \cup {NoFork} BY DEF IInv, TypeOK
<1>4. q \in Request BY <1>1, <1>2, <1>3, IdleTyped DEF Request
<1>5. q.parent < nextSeq /\ q.target < nextSeq /\ q.tip < nextSeq
  BY <1>1, BoundsAssumption DEF IdleRequest, IInv, TypeOK
<1> QED BY <1>2, <1>4, <1>5, BeginStep

LEMMA OpenNoteStep ==
    ASSUME IInv, NEW r \in Requests, NEW u \in Users, OpenNote(r, u)
    PROVE  IInv'
<1> DEFINE q == [IdleRequest EXCEPT !.stage = "open", !.op = "note", !.user = u,
                                    !.parent = ParentFor(NoFork)]
<1>1. ParentFor(NoFork) \in Refs /\ ParentFor(NoFork) < nextSeq
  BY LatestTaken DEF ParentFor
<1>2. Begin(r, q) /\ "note" \in Operations
  BY DEF OpenNote, Begin, IdleRequest
<1>3. q \in Request BY <1>1, <1>2, IdleTyped DEF Request
<1>4. q.parent < nextSeq /\ q.target < nextSeq /\ q.tip < nextSeq
  BY <1>1, BoundsAssumption DEF IdleRequest, IInv, TypeOK
<1> QED BY <1>2, <1>3, <1>4, BeginStep

LEMMA OpenRetryStep ==
    ASSUME IInv, NEW r \in Requests, NEW u \in Users, NEW f \in Forks \cup {NoFork},
           OpenRetry(r, u, f)
    PROVE  IInv'
<1> DEFINE target(m) == IF msgs[m].role = "user" THEN m ELSE msgs[m].parent
           q(m, one) == [IdleRequest EXCEPT !.stage = "open",
                            !.op = IF one THEN "replace" ELSE "retry",
                            !.user = u, !.fork = f, !.target = target(m),
                            !.replace = IF one THEN m ELSE 0, !.tip = Tips(f)]
<1>1. PICK m \in Offered(u, f), one \in BOOLEAN : Begin(r, q(m, one))
  BY DEF OpenRetry
<1>2. m \in Rows BY DEF Offered, View
<1>3. /\ m \in Refs /\ m < nextSeq
      /\ msgs[m].parent \in Refs /\ msgs[m].parent < nextSeq
  BY <1>2, RowTaken
<1>4. Tips(f) \in Refs /\ Tips(f) < nextSeq BY TipTaken
<1>5. target(m) \in Refs /\ target(m) < nextSeq BY <1>3
<1>6. (IF one THEN "replace" ELSE "retry") \in Operations
  BY <1>1 DEF Begin, IdleRequest
<1>7. f \in ForkIds \cup {NoFork} BY DEF IInv, TypeOK
<1>8. (IF one THEN m ELSE 0) \in Refs /\ 0 < nextSeq
  BY <1>3, BoundsAssumption DEF Refs, IInv, TypeOK
<1> HIDE DEF target
<1>9. q(m, one) \in Request
  BY <1>4, <1>5, <1>6, <1>7, <1>8, IdleTyped DEF Request
<1>10. q(m, one).parent < nextSeq /\ q(m, one).target < nextSeq /\ q(m, one).tip < nextSeq
  BY <1>4, <1>5, <1>8 DEF IdleRequest
<1> HIDE DEF q
<1> QED BY <1>1, <1>9, <1>10, BeginStep

LEMMA OpenEditStep ==
    ASSUME IInv, NEW r \in Requests, NEW u \in Users, NEW f \in Forks \cup {NoFork},
           OpenEdit(r, u, f)
    PROVE  IInv'
<1> DEFINE q(m) == [IdleRequest EXCEPT !.stage = "open", !.op = "edit", !.user = u,
                                       !.fork = f, !.target = m, !.tip = Tips(f)]
<1>1. PICK m \in Offered(u, f) : Begin(r, q(m))
  BY DEF OpenEdit
<1>2. m \in Rows BY DEF Offered, View
<1>3. m \in Refs /\ m < nextSeq BY <1>2, RowTaken
<1>4. Tips(f) \in Refs /\ Tips(f) < nextSeq BY TipTaken
<1>5. "edit" \in Operations BY <1>1 DEF Begin, IdleRequest
<1>6. f \in ForkIds \cup {NoFork} BY DEF IInv, TypeOK
<1>7. q(m) \in Request BY <1>3, <1>4, <1>5, <1>6, IdleTyped DEF Request
<1>8. q(m).parent < nextSeq /\ q(m).target < nextSeq /\ q(m).tip < nextSeq
  BY <1>3, <1>4, BoundsAssumption DEF IdleRequest, IInv, TypeOK
<1> HIDE DEF q
<1> QED BY <1>1, <1>7, <1>8, BeginStep

LEMMA OpenForkStep ==
    ASSUME IInv, NEW r \in Requests, OpenFork(r)
    PROVE  IInv'
<1> DEFINE tip  == IF Forks = {} THEN Latest ELSE 0
           q(m) == [IdleRequest EXCEPT !.stage = "read", !.op = "fork", !.target = m,
                                       !.first = (Forks = {}), !.tip = tip]
<1>1. PICK m \in Rows : Begin(r, q(m)) BY DEF OpenFork
<1>2. m \in Refs /\ m < nextSeq BY RowTaken
<1>3. tip \in Refs /\ tip < nextSeq
  BY LatestTaken, BoundsAssumption DEF IInv, TypeOK, Refs
<1>4. "fork" \in Operations BY <1>1 DEF Begin, IdleRequest
<1>5. (Forks = {}) \in BOOLEAN OBVIOUS
<1> HIDE DEF tip
<1>6. q(m) \in Request BY <1>2, <1>3, <1>4, <1>5, IdleTyped DEF Request
<1>7. q(m).parent < nextSeq /\ q(m).target < nextSeq /\ q(m).tip < nextSeq
  BY <1>2, <1>3, BoundsAssumption DEF IdleRequest, IInv, TypeOK
<1> HIDE DEF q
<1> QED BY <1>1, <1>6, <1>7, BeginStep

LEMMA OpenUnforkStep ==
    ASSUME IInv, NEW r \in Requests, NEW f \in Forks, OpenUnfork(r, f)
    PROVE  IInv'
<1> DEFINE q == [IdleRequest EXCEPT !.stage = "read", !.op = "unfork", !.fork = f,
                                    !.dels = OwnChain(f)]
<1>1. Begin(r, q) /\ "unfork" \in Operations
  BY DEF OpenUnfork, Begin, IdleRequest
<1>2. OwnChain(f) \in SUBSET Seqs BY DEF OwnChain, IInv, TypeOK
<1>3. f \in ForkIds \cup {NoFork} BY DEF IInv, TypeOK
<1>4. q \in Request BY <1>1, <1>2, <1>3, IdleTyped DEF Request
<1>5. q.parent < nextSeq /\ q.target < nextSeq /\ q.tip < nextSeq
  BY BoundsAssumption DEF IdleRequest, IInv, TypeOK
<1> QED BY <1>1, <1>4, <1>5, BeginStep

\* A step that moves one request along and leaves what it names.
LEMMA StageStep ==
    ASSUME IInv, NEW r \in Requests, UNCHANGED dbVars,
           NEW stage \in {"applied", "pruned", "dropped", "alone"},
           Stage(r, stage)
    PROVE  IInv'
<1> DEFINE q == [req[r] EXCEPT !.stage = stage]
<1>1. req[r] \in Request BY DEF IInv, TypeOK
<1>2. q \in Request BY <1>1 DEF Request
<1>3. q.parent < nextSeq /\ q.target < nextSeq /\ q.tip < nextSeq
  BY <1>1 DEF IInv, Younger, Request
<1>4. req' = [req EXCEPT ![r] = q] BY DEF Stage
<1> QED BY <1>2, <1>3, <1>4, RequestStep

LEMMA IdleNamesNothing ==
    ASSUME IInv
    PROVE  IdleRequest.parent < nextSeq /\ IdleRequest.target < nextSeq /\ IdleRequest.tip < nextSeq
  BY BoundsAssumption DEF IdleRequest, IInv, TypeOK

LEMMA DoneStep ==
    ASSUME IInv, NEW r \in Requests, UNCHANGED dbVars, Done(r)
    PROVE  IInv'
  BY IdleTyped, IdleNamesNothing, RequestStep DEF Done

LEMMA LoadTargetStep ==
    ASSUME IInv, NEW r \in Requests, LoadTarget(r)
    PROVE  IInv'
<1> DEFINE q == [req[r] EXCEPT !.stage = "loaded", !.parent = msgs[req[r].target].parent]
<1>1. /\ req[r] \in Request
      /\ req[r].target < nextSeq /\ req[r].tip < nextSeq
  BY DEF IInv, TypeOK, Younger
<1>2. msgs[req[r].target].parent \in Refs /\ msgs[req[r].target].parent < nextSeq
  BY RowTaken DEF LoadTarget
<1>3. req' = [req EXCEPT ![r] = q] /\ UNCHANGED dbVars
  BY DEF LoadTarget
<1>4. q \in Request BY <1>1, <1>2 DEF Request
<1>5. q.parent < nextSeq /\ q.target < nextSeq /\ q.tip < nextSeq
  BY <1>1, <1>2 DEF Request
<1> HIDE DEF q
<1> QED BY <1>3, <1>4, <1>5, RequestStep

LEMMA ApplyRegenerationStep ==
    ASSUME IInv, NEW r \in Requests, ApplyRegeneration(r)
    PROVE  IInv'
<1> DEFINE q == [req[r] EXCEPT !.stage = "applied", !.dels = Deletes(req[r])]
<1>1. /\ req[r] \in Request
      /\ req[r].parent < nextSeq /\ req[r].target < nextSeq /\ req[r].tip < nextSeq
  BY DEF IInv, TypeOK, Younger
<1>2. Deletes(req[r]) \in SUBSET Seqs
  BY DeletesRows DEF ApplyRegeneration, IInv, TypeOK
<1>3. req' = [req EXCEPT ![r] = q] /\ UNCHANGED dbVars
  BY DEF ApplyRegeneration
<1>4. q \in Request BY <1>1, <1>2 DEF Request
<1>5. q.parent < nextSeq /\ q.target < nextSeq /\ q.tip < nextSeq
  BY <1>1 DEF Request
<1> HIDE DEF q
<1> QED BY <1>3, <1>4, <1>5, RequestStep

\* A step that ends or moves along a request and changes the forks: the new
\* rows are typed and point at messages that there are.
LEMMA ForksStep ==
    ASSUME IInv, NEW r \in Requests, NEW q \in Request,
           q.parent < nextSeq, q.target < nextSeq, q.tip < nextSeq,
           req' = [req EXCEPT ![r] = q],
           NEW rows \in SUBSET Rows, msgs' = [m \in rows |-> msgs[m]],
           UNCHANGED nextSeq,
           forks' \in [Forks' -> Fork],
           \A f \in Forks' : forks'[f].tip < nextSeq,
           Forks' \subseteq created', created' \subseteq ForkIds
    PROVE  IInv'
<1>1. Rows' = rows /\ \A m \in rows : msgs'[m] = msgs[m] BY DEF Rows
<1>2. \A s \in Requests : req'[s] = IF s = r THEN q ELSE req[s]
  BY DEF IInv, TypeOK
<1>3. req' \in [Requests -> Request] BY DEF IInv, TypeOK
<1>4. msgs' \in [Rows' -> Message]
  BY <1>1 DEF IInv, TypeOK
<1>5. TypeOK' BY <1>1, <1>3, <1>4 DEF IInv, TypeOK
<1>6. ChainsDescend' BY <1>1 DEF IInv, ChainsDescend
<1>7. Younger' BY <1>1, <1>2 DEF IInv, Younger
<1> QED BY <1>5, <1>6, <1>7 DEF IInv

LEMMA InsertForksStep ==
    ASSUME IInv, NEW r \in Requests, InsertForks(r)
    PROVE  IInv'
<1>1. /\ req[r] \in Request
      /\ req[r].target \in Refs /\ req[r].target < nextSeq
      /\ req[r].tip \in Refs /\ req[r].tip < nextSeq
  BY DEF IInv, TypeOK, Younger, Request
<1>2. PICK f, main, new, named :
          /\ f \in ForkIds \ created
          /\ named \in BOOLEAN
          /\ req[r].first => main \in ForkIds
          /\ new = {f} \cup (IF req[r].first THEN {main} ELSE {})
          /\ forks' = [g \in Forks \cup new |->
                          IF g = f THEN [tip |-> req[r].target, main |-> named]
                          ELSE IF g = main THEN [tip |-> req[r].tip, main |-> TRUE]
                          ELSE forks[g]]
          /\ created' = created \cup new
          /\ main \notin Forks
  <2>1. NoFork \notin Forks BY NamesAssumption DEF IInv, TypeOK
  <2> QED BY <2>1 DEF InsertForks, IInv, TypeOK
<1>3. Forks' = Forks \cup new BY <1>2 DEF Forks
<1>4. \A g \in Forks' : forks'[g] \in Fork /\ forks'[g].tip < nextSeq
  <2> SUFFICES ASSUME NEW g \in Forks' PROVE forks'[g] \in Fork /\ forks'[g].tip < nextSeq
    OBVIOUS
  <2>1. CASE g = f BY <1>1, <1>2, <1>3, <2>1 DEF Fork
  <2>2. CASE g # f /\ g = main BY <1>1, <1>2, <1>3, <2>2 DEF Fork
  <2>3. CASE g # f /\ g # main
    <3>1. g \in Forks /\ forks'[g] = forks[g] BY <1>2, <1>3, <2>3
    <3> QED BY <3>1 DEF IInv, TypeOK, Younger
  <2> QED BY <2>1, <2>2, <2>3
<1>5. forks' \in [Forks' -> Fork] BY <1>2, <1>3, <1>4
<1>6. Forks' \subseteq created' /\ created' \subseteq ForkIds
  BY <1>2, <1>3 DEF IInv, TypeOK
<1>7. msgs' = [m \in Rows |-> msgs[m]] /\ UNCHANGED nextSeq
  BY DEF InsertForks, IInv, TypeOK, Rows
<1>8. req' = [req EXCEPT ![r] = IdleRequest] BY DEF InsertForks, Done
<1> QED BY <1>4, <1>5, <1>6, <1>7, <1>8, IdleTyped, IdleNamesNothing, ForksStep

LEMMA PruneStep ==
    ASSUME IInv, NEW r \in Requests, Prune(r)
    PROVE  IInv'
<1> DEFINE gone == req[r].dels \cap Rows
           q    == [req[r] EXCEPT !.stage = "pruned"]
<1>1. /\ req[r] \in Request
      /\ req[r].parent < nextSeq /\ req[r].target < nextSeq /\ req[r].tip < nextSeq
  BY DEF IInv, TypeOK, Younger
<1>2. q \in Request BY <1>1 DEF Request
<1>3. q.parent < nextSeq /\ q.target < nextSeq /\ q.tip < nextSeq
  BY <1>1 DEF Request
<1>4. /\ req' = [req EXCEPT ![r] = q]
      /\ msgs' = [m \in Rows \ gone |-> msgs[m]]
      /\ forks' = WithoutTips(forks, gone)
      /\ UNCHANGED <<nextSeq, created>>
  BY DEF Prune, Stage
<1>5. Forks' = Forks BY <1>4 DEF WithoutTips, Forks
<1>6. forks' \in [Forks' -> Fork] /\ \A f \in Forks' : forks'[f].tip < nextSeq
  BY <1>4, <1>5, TipsStayTyped
<1>7. Forks' \subseteq created' /\ created' \subseteq ForkIds
  BY <1>4, <1>5 DEF IInv, TypeOK
<1> HIDE DEF q, gone
<1>8. Rows \ gone \in SUBSET Rows OBVIOUS
<1> QED BY <1>2, <1>3, <1>4, <1>6, <1>7, <1>8, ForksStep

LEMMA RenameForkStep ==
    ASSUME IInv, NEW f \in Forks, RenameFork(f)
    PROVE  IInv'
<1>1. PICK main \in BOOLEAN : forks' = [forks EXCEPT ![f].main = main]
  BY DEF RenameFork
<1>2. Forks' = Forks
  BY <1>1 DEF Forks
<1>3. \A g \in Forks : forks[g] \in Fork /\ forks[g].tip < nextSeq
  BY DEF IInv, TypeOK, Younger
<1>4. \A g \in Forks : forks'[g] = IF g = f THEN [forks[f] EXCEPT !.main = main] ELSE forks[g]
  BY <1>1 DEF Forks
<1>5. \A g \in Forks : forks'[g] \in Fork /\ forks'[g].tip = forks[g].tip
  BY <1>3, <1>4 DEF Fork
<1>6. forks' \in [Forks' -> Fork]
  BY <1>1, <1>2, <1>5 DEF Forks
<1>7. UNCHANGED <<msgs, nextSeq, created, req>>
  BY DEF RenameFork
<1> QED BY <1>2, <1>3, <1>5, <1>6, <1>7
        DEF IInv, TypeOK, ChainsDescend, Younger, Rows

LEMMA DropForkStep ==
    ASSUME IInv, NEW r \in Requests, DropFork(r)
    PROVE  IInv'
<1> DEFINE q == [req[r] EXCEPT !.stage = "dropped"]
<1>1. /\ req[r] \in Request
      /\ req[r].parent < nextSeq /\ req[r].target < nextSeq /\ req[r].tip < nextSeq
  BY DEF IInv, TypeOK, Younger
<1>2. q \in Request BY <1>1 DEF Request
<1>3. q.parent < nextSeq /\ q.target < nextSeq /\ q.tip < nextSeq
  BY <1>1 DEF Request
<1>4. /\ req' = [req EXCEPT ![r] = q]
      /\ forks' = [f \in Forks \ {req[r].fork} |-> forks[f]]
      /\ UNCHANGED <<msgs, nextSeq, created>>
  BY DEF DropFork, Stage
<1>5. Forks' \subseteq Forks /\ \A f \in Forks' : forks'[f] = forks[f]
  BY <1>4 DEF Forks
<1>6. forks' \in [Forks' -> Fork] /\ \A f \in Forks' : forks'[f].tip < nextSeq
  BY <1>4, <1>5 DEF IInv, TypeOK, Younger, Forks
<1>7. Forks' \subseteq created' /\ created' \subseteq ForkIds
  BY <1>4, <1>5 DEF IInv, TypeOK
<1>8. msgs' = [m \in Rows |-> msgs[m]] BY <1>4 DEF IInv, TypeOK, Rows
<1> HIDE DEF q
<1> QED BY <1>2, <1>3, <1>4, <1>6, <1>7, <1>8, ForksStep

LEMMA DropAllForksStep ==
    ASSUME IInv, NEW r \in Requests, DropAllForks(r)
    PROVE  IInv'
<1>1. /\ req' = [req EXCEPT ![r] = IdleRequest]
      /\ forks' = << >>
      /\ UNCHANGED <<msgs, nextSeq, created>>
  BY DEF DropAllForks, Done
<1>2. Forks' = {} BY <1>1 DEF Forks
<1>3. forks' \in [Forks' -> Fork] /\ \A f \in Forks' : forks'[f].tip < nextSeq
  BY <1>1, <1>2 DEF Forks
<1>4. Forks' \subseteq created' /\ created' \subseteq ForkIds
  BY <1>1, <1>2 DEF IInv, TypeOK
<1>5. msgs' = [m \in Rows |-> msgs[m]] BY <1>1 DEF IInv, TypeOK, Rows
<1> QED BY <1>1, <1>3, <1>4, <1>5, IdleTyped, IdleNamesNothing, ForksStep

\* The rows of a turn have the next numbers, and name older ones.
LEMMA InsertedTyped ==
    ASSUME IInv, NEW r \in Requests,
           NEW answers \in Nat, LastSeq(req[r], answers) <= MaxSeq
    PROVE  /\ DOMAIN Inserted(req[r], answers) = nextSeq..LastSeq(req[r], answers)
           /\ \A m \in DOMAIN Inserted(req[r], answers) :
                 /\ m \in Seqs
                 /\ Inserted(req[r], answers)[m] \in Message
                 /\ Inserted(req[r], answers)[m].parent < m
<1> DEFINE last == LastSeq(req[r], answers)
           new  == Inserted(req[r], answers)
<1>1. /\ req[r].parent \in Refs /\ req[r].parent < nextSeq
      /\ req[r].target \in Refs /\ req[r].target < nextSeq
      /\ req[r].user \in Users \cup {NoUser}
      /\ nextSeq \in 1..(MaxSeq + 1)
  BY DEF IInv, TypeOK, Younger, Request
<1>2. DOMAIN new = nextSeq..last BY DEF Inserted
<1>3. ASSUME NEW m \in nextSeq..last
      PROVE  m \in Seqs /\ new[m] \in Message /\ new[m].parent < m
  <2>1. last \in Nat /\ m \in Seqs /\ nextSeq \in Refs
    BY <1>1, BoundsAssumption DEF LastSeq, Seqs, Refs
  <2>2. CASE WritesUser(req[r]) /\ m = nextSeq
    <3>1. new[m] = [parent |-> req[r].parent, role |-> "user",
                    sender |-> req[r].user, turn |-> nextSeq]
      BY <2>2 DEF Inserted
    <3> QED BY <3>1, <2>1, <2>2, <1>1 DEF Message
  <2>3. CASE WritesUser(req[r]) /\ m # nextSeq
    <3>1. new[m] = [parent |-> nextSeq, role |-> "ai",
                    sender |-> NoUser, turn |-> nextSeq]
      BY <2>3 DEF Inserted
    <3>2. nextSeq < m /\ nextSeq \in Seqs BY <2>1, <2>3, <1>1, BoundsAssumption DEF Seqs
    <3> QED BY <3>1, <3>2, <2>1 DEF Message
  <2>4. CASE ~WritesUser(req[r])
    <3>1. new[m] = [parent |-> req[r].target, role |-> "ai",
                    sender |-> NoUser, turn |-> nextSeq]
      BY <2>4 DEF Inserted
    <3>2. nextSeq \in Seqs /\ req[r].target < m
      BY <2>1, <1>1, BoundsAssumption DEF Seqs, Refs
    <3> QED BY <3>1, <3>2, <2>1, <1>1 DEF Message
  <2> QED BY <2>2, <2>3, <2>4
<1> QED BY <1>2, <1>3

LEMMA SaveStep ==
    ASSUME IInv, NEW r \in Requests, Save(r)
    PROVE  IInv'
<1> DEFINE q     == req[r]
           after == WithoutTips(forks, q.dels)
           moves == Advances(q) /\ q.fork \in Forks
           new(answers) == Inserted(q, answers)
           last(answers) == LastSeq(q, answers)
<1>1. PICK answers \in AnswerCounts(q) :
          /\ last(answers) <= MaxSeq
          /\ msgs' = [m \in (Rows \ q.dels) \cup DOMAIN new(answers) |->
                        IF m \in DOMAIN new(answers) THEN new(answers)[m] ELSE msgs[m]]
          /\ nextSeq' = last(answers) + 1
          /\ forks' = IF moves THEN [after EXCEPT ![q.fork].tip = last(answers)] ELSE after
          /\ Done(r)
          /\ UNCHANGED created
  BY DEF Save
<1>2. nextSeq \in 1..(MaxSeq + 1) BY DEF IInv, TypeOK
<1>3. /\ answers \in Nat
      /\ last(answers) \in Nat
      /\ nextSeq <= last(answers)
      /\ last(answers) \in Seqs
  <2>1. answers \in Nat /\ (answers >= 1 \/ WritesUser(q))
    BY BoundsAssumption DEF AnswerCounts, WritesUser
  <2> QED BY <2>1, <1>1, <1>2, BoundsAssumption DEF LastSeq, Seqs
<1>4. /\ DOMAIN new(answers) = nextSeq..last(answers)
      /\ \A m \in DOMAIN new(answers) : /\ m \in Seqs
                                        /\ new(answers)[m] \in Message
                                        /\ new(answers)[m].parent < m
  BY <1>1, <1>3, InsertedTyped
<1>5. Rows' = (Rows \ q.dels) \cup DOMAIN new(answers)
  BY <1>1 DEF Rows
<1>6. after \in [Forks -> Fork] /\ \A f \in Forks : after[f].tip < nextSeq
  BY TipsStayTyped
<1> HIDE DEF after, new, last, q
<1>7. /\ forks' \in [Forks -> Fork]
      /\ \A f \in Forks : forks'[f].tip < last(answers) + 1
  <2>1. CASE ~moves
    <3>1. forks' = after BY <1>1, <2>1
    <3>2. \A f \in Forks : after[f].tip \in Nat
      BY <1>6, BoundsAssumption DEF Fork, Refs
    <3> QED BY <3>1, <3>2, <1>2, <1>3, <1>6, BoundsAssumption
  <2>2. CASE moves
    <3>1. forks' = [after EXCEPT ![q.fork].tip = last(answers)] BY <1>1, <2>2
    <3>2. last(answers) \in Refs BY <1>3, BoundsAssumption DEF Seqs, Refs
    <3>3. \A f \in Forks : after[f].tip \in Nat
      BY <1>6, BoundsAssumption DEF Fork, Refs
    <3>4. forks' \in [Forks -> Fork] BY <3>1, <3>2, <1>6 DEF Fork
    <3>5. ASSUME NEW f \in Forks PROVE forks'[f].tip < last(answers) + 1
      <4>1. CASE f = q.fork
        <5>1. forks'[f].tip = last(answers)
          BY <3>1, <4>1, <2>2, <1>6 DEF Fork
        <5> QED BY <5>1, <1>3
      <4>2. CASE f # q.fork
        <5>1. forks'[f] = after[f] BY <3>1, <4>2, <1>6
        <5> QED BY <5>1, <3>3, <1>2, <1>3, <1>6, BoundsAssumption
      <4> QED BY <4>1, <4>2
    <3> QED BY <3>4, <3>5
  <2> QED BY <2>1, <2>2
<1>8. Forks' = Forks BY <1>7 DEF Forks
<1>9. \A s \in Requests : req'[s] = IF s = r THEN IdleRequest ELSE req[s]
  BY <1>1 DEF Done, IInv, TypeOK
<1>10. req' \in [Requests -> Request]
  BY <1>1, IdleTyped DEF Done, IInv, TypeOK
<1>11. \A m \in Rows' : m \in Seqs /\ msgs'[m] \in Message /\ msgs'[m].parent < m
  <2> SUFFICES ASSUME NEW m \in Rows'
               PROVE  m \in Seqs /\ msgs'[m] \in Message /\ msgs'[m].parent < m
    OBVIOUS
  <2>1. CASE m \in DOMAIN new(answers)
    <3>1. msgs'[m] = new(answers)[m] BY <1>1, <1>5, <2>1
    <3> QED BY <3>1, <1>4, <2>1
  <2>2. CASE m \notin DOMAIN new(answers)
    <3>1. m \in Rows /\ msgs'[m] = msgs[m] BY <1>1, <1>5, <2>2
    <3> QED BY <3>1 DEF IInv, TypeOK, ChainsDescend
  <2> QED BY <2>1, <2>2
<1>12. TypeOK'
  <2>1. msgs' \in [Rows' -> Message] BY <1>1, <1>5, <1>11
  <2>2. nextSeq' \in 1..(MaxSeq + 1)
    BY <1>1, <1>3, BoundsAssumption
  <2> QED BY <2>1, <2>2, <1>1, <1>7, <1>8, <1>10, <1>11 DEF IInv, TypeOK
<1>13. ChainsDescend' BY <1>11 DEF ChainsDescend
<1>14. Younger'
  <2>1. \A m \in Rows' : m < nextSeq'
    <3> SUFFICES ASSUME NEW m \in Rows' PROVE m < last(answers) + 1
      BY <1>1
    <3>1. CASE m \in DOMAIN new(answers) BY <3>1, <1>2, <1>3, <1>4
    <3>2. CASE m \in Rows
      BY <3>2, <1>2, <1>3, BoundsAssumption DEF IInv, TypeOK, Younger, Seqs
    <3> QED BY <3>1, <3>2, <1>5
  <2>2. \A f \in Forks' : forks'[f].tip < nextSeq' BY <1>1, <1>7, <1>8
  <2>3. \A s \in Requests : /\ req'[s].parent < nextSeq'
                            /\ req'[s].target < nextSeq'
                            /\ req'[s].tip < nextSeq'
    <3> SUFFICES ASSUME NEW s \in Requests
                 PROVE  /\ req'[s].parent < last(answers) + 1
                        /\ req'[s].target < last(answers) + 1
                        /\ req'[s].tip < last(answers) + 1
      BY <1>1
    <3>1. /\ req'[s].parent < nextSeq /\ req'[s].target < nextSeq /\ req'[s].tip < nextSeq
          /\ req'[s].parent \in Nat /\ req'[s].target \in Nat /\ req'[s].tip \in Nat
      BY <1>9, <1>10, IdleNamesNothing, BoundsAssumption DEF IInv, Younger, Request, Refs
    <3> QED BY <3>1, <1>2, <1>3, BoundsAssumption
  <2> QED BY <2>1, <2>2, <2>3 DEF Younger
<1> QED BY <1>12, <1>13, <1>14 DEF IInv

-----------------------------------------------------------------------------

LEMMA InitIInv == Init => IInv
<1> SUFFICES ASSUME Init PROVE IInv
  OBVIOUS
<1>1. Rows = {} /\ Forks = {} BY DEF Init, Rows, Forks
<1>2. msgs \in [Rows -> Message] /\ forks \in [Forks -> Fork]
  BY <1>1 DEF Init, Rows, Forks
<1>3. nextSeq \in 1..(MaxSeq + 1) BY BoundsAssumption DEF Init
<1>4. req \in [Requests -> Request] BY IdleTyped DEF Init
<1>5. TypeOK BY <1>1, <1>2, <1>3, <1>4 DEF TypeOK, Init
<1>6. Younger BY <1>1 DEF Younger, Init, IdleRequest
<1> QED BY <1>1, <1>5, <1>6 DEF IInv, ChainsDescend

LEMMA StepIInv == IInv /\ [Next]_vars => IInv'
<1> SUFFICES ASSUME IInv, [Next]_vars PROVE IInv'
  OBVIOUS
<1>1. CASE UNCHANGED vars
  BY <1>1 DEF vars, dbVars, IInv, TypeOK, ChainsDescend, Younger, Rows, Forks
<1>2. CASE \E f \in Forks : RenameFork(f) BY <1>2, RenameForkStep
<1>3. CASE Next /\ ~\E f \in Forks : RenameFork(f)
  <2>1. PICK r \in Requests :
          \/ \E u \in Users :
              \/ \E f \in created \cup {NoFork} : OpenSend(r, u, f)
              \/ OpenNote(r, u)
              \/ \E f \in Forks \cup {NoFork} : OpenRetry(r, u, f) \/ OpenEdit(r, u, f)
          \/ OpenFork(r)
          \/ \E f \in Forks : OpenUnfork(r, f)
          \/ ApplySend(r) \/ LoadTarget(r) \/ ApplyRegeneration(r) \/ Save(r) \/ Drop(r)
          \/ InsertForks(r) \/ Prune(r) \/ DropFork(r) \/ CountForks(r)
          \/ DropAllForks(r)
    BY <1>3 DEF Next
  <2>2. CASE \E u \in Users, f \in created \cup {NoFork} : OpenSend(r, u, f)
    BY <2>2, OpenSendStep
  <2>3. CASE \E u \in Users : OpenNote(r, u)
    BY <2>3, OpenNoteStep
  <2>4. CASE \E u \in Users, f \in Forks \cup {NoFork} : OpenRetry(r, u, f)
    BY <2>4, OpenRetryStep
  <2>5. CASE \E u \in Users, f \in Forks \cup {NoFork} : OpenEdit(r, u, f)
    BY <2>5, OpenEditStep
  <2>6. CASE OpenFork(r) BY <2>6, OpenForkStep
  <2>7. CASE \E f \in Forks : OpenUnfork(r, f) BY <2>7, OpenUnforkStep
  <2>8. CASE ApplySend(r) BY <2>8, StageStep DEF ApplySend
  <2>9. CASE ApplyRegeneration(r) BY <2>9, ApplyRegenerationStep
  <2>10. CASE Save(r) BY <2>10, SaveStep
  <2>11. CASE Drop(r) BY <2>11, DoneStep DEF Drop
  <2>12. CASE InsertForks(r) BY <2>12, InsertForksStep
  <2>13. CASE Prune(r) BY <2>13, PruneStep
  <2>14. CASE DropFork(r) BY <2>14, DropForkStep
  <2>15. CASE CountForks(r) BY <2>15, StageStep, DoneStep DEF CountForks
  <2>16. CASE DropAllForks(r) BY <2>16, DropAllForksStep
  <2>17. CASE LoadTarget(r) BY <2>17, LoadTargetStep
  <2> QED BY <2>1, <2>2, <2>3, <2>4, <2>5, <2>6, <2>7, <2>8, <2>9, <2>10,
             <2>11, <2>12, <2>13, <2>14, <2>15, <2>16, <2>17
<1> QED BY <1>1, <1>2, <1>3

LEMMA AlwaysIInv == Spec => []IInv
  BY InitIInv, StepIInv, PTL DEF Spec

(* Every variable keeps its type, whatever the number of users, requests and  *)
(* messages.                                                                  *)
THEOREM TypeCorrect == Spec => []TypeOK
<1>1. IInv => TypeOK BY DEF IInv
<1> QED BY <1>1, AlwaysIInv, PTL

(* However sends, notes, regenerations and edits overlap with one another and *)
(* with the creation and deletion of forks, a message names an older parent:  *)
(* the walk of collectAncestorChain always ends.                              *)
THEOREM ChainsAlwaysDescend == Spec => []ChainsDescend
<1>1. IInv => ChainsDescend BY DEF IInv
<1> QED BY <1>1, AlwaysIInv, PTL

-----------------------------------------------------------------------------
(* The walk to the root *)

\* Chain, of any messages that name older parents.
ChainOf(ms, m) ==
    LET walk[n \in Refs] ==
            IF n \notin DOMAIN ms THEN {}
            ELSE {n} \cup (IF ms[n].parent < n THEN walk[ms[n].parent] ELSE {})
    IN  walk[m]

Descends(ms) ==
    /\ DOMAIN ms \subseteq Seqs
    /\ \A m \in DOMAIN ms : ms[m].parent \in Refs /\ ms[m].parent < m

LEMMA ChainIsOfMsgs == /\ \A m : Chain(m) = ChainOf(msgs, m)
                       /\ \A m : Chain(m)' = ChainOf(msgs', m)
  BY DEF Chain, ChainOf, Rows

\* What the walk as far as k is to satisfy; ChainOf chooses one to MaxSeq.
WalkStep(ms, g, n) ==
    IF n \notin DOMAIN ms THEN {}
    ELSE {n} \cup (IF ms[n].parent < n THEN g[ms[n].parent] ELSE {})

IsWalk(ms, g, k) == g = [n \in 0..k |-> WalkStep(ms, g, n)]

LEMMA WalkExists ==
    ASSUME NEW ms, Descends(ms), NEW k \in Nat
    PROVE  \E g : IsWalk(ms, g, k)
<1> DEFINE T == {n \in Nat : ~\E g : IsWalk(ms, g, n)}
<1> SUFFICES ASSUME T # {} PROVE FALSE OBVIOUS
<1>1. PICK n \in T : \A i \in T : n <= i
  <2>1. T \subseteq Nat OBVIOUS
  <2> HIDE DEF T
  <2> QED BY <2>1, LeastNatural
<1>2. CASE n = 0
  <2> DEFINE g == [i \in 0..n |-> {}]
  <2>1. \A i \in 0..n : WalkStep(ms, g, i) = {}
    BY <1>2, BoundsAssumption DEF WalkStep, Descends, Seqs
  <2>2. IsWalk(ms, g, n) BY <2>1 DEF IsWalk
  <2> QED BY <1>1, <2>2
<1>3. CASE n # 0
  <2>1. n - 1 \in Nat /\ n - 1 \notin T BY <1>1, <1>3
  <2>2. PICK g : IsWalk(ms, g, n - 1) BY <2>1
  <2> DEFINE h == [i \in 0..n |-> IF i = n THEN WalkStep(ms, g, n) ELSE g[i]]
  <2>3. ASSUME NEW i \in 0..n PROVE WalkStep(ms, h, i) = WalkStep(ms, g, i)
    <3>1. CASE i \in DOMAIN ms /\ ms[i].parent < i
      <4>1. ms[i].parent \in 0..n /\ ms[i].parent # n
        BY <3>1, BoundsAssumption DEF Descends, Refs
      <4> QED BY <3>1, <4>1 DEF WalkStep
    <3>2. CASE ~(i \in DOMAIN ms /\ ms[i].parent < i) BY <3>2 DEF WalkStep
    <3> QED BY <3>1, <3>2
  <2>4. ASSUME NEW i \in 0..n PROVE h[i] = WalkStep(ms, g, i)
    <3>1. CASE i = n BY <3>1
    <3>2. CASE i # n
      <4>1. i \in 0..(n - 1) BY <1>1, <3>2
      <4>2. g[i] = WalkStep(ms, g, i)
        <5> HIDE DEF T
        <5> QED BY <2>2, <4>1 DEF IsWalk
      <4> QED BY <3>2, <4>2
    <3> QED BY <3>1, <3>2
  <2>5. IsWalk(ms, h, n)
    <3>1. \A i \in 0..n : h[i] = WalkStep(ms, h, i) BY <2>3, <2>4
    <3> QED BY <3>1 DEF IsWalk
  <2> QED BY <1>1, <2>5
<1> QED BY <1>2, <1>3

\* One step of the walk.
LEMMA ChainStep ==
    ASSUME NEW ms, Descends(ms), NEW n \in Refs
    PROVE  ChainOf(ms, n) = IF n \notin DOMAIN ms THEN {}
                            ELSE {n} \cup ChainOf(ms, ms[n].parent)
<1> DEFINE g == CHOOSE g : IsWalk(ms, g, MaxSeq)
<1>1. \A m : ChainOf(ms, m) = g[m] BY DEF ChainOf, IsWalk, WalkStep, Refs
<1>2. IsWalk(ms, g, MaxSeq) BY WalkExists, BoundsAssumption
<1> HIDE DEF g
<1>3. g[n] = WalkStep(ms, g, n) BY <1>2 DEF IsWalk, Refs
<1>4. n \in DOMAIN ms => ms[n].parent < n BY DEF Descends
<1> QED BY <1>1, <1>3, <1>4 DEF WalkStep

LEMMA ChainBelow ==
    ASSUME NEW ms, Descends(ms), NEW t \in Refs
    PROVE  /\ ChainOf(ms, t) \subseteq DOMAIN ms
           /\ \A m \in ChainOf(ms, t) : m <= t
           /\ t \in DOMAIN ms => t \in ChainOf(ms, t)
<1> DEFINE Good(n) == \A m \in ChainOf(ms, n) : m \in DOMAIN ms /\ m <= n
           T == {n \in Refs : ~Good(n)}
<1>1. T = {}
  <2> SUFFICES ASSUME T # {} PROVE FALSE OBVIOUS
  <2>1. PICK n \in T : \A i \in T : n <= i
    <3>1. T \subseteq Nat BY BoundsAssumption DEF Refs
    <3> HIDE DEF T
    <3> QED BY <3>1, LeastNatural
  <2>2. n \in DOMAIN ms /\ ChainOf(ms, n) = {n} \cup ChainOf(ms, ms[n].parent)
    BY <2>1, ChainStep
  <2>3. ms[n].parent \in Refs /\ ms[n].parent < n /\ n \in Nat /\ ms[n].parent \in Nat
    BY <2>2, BoundsAssumption DEF Descends, Refs
  <2>4. Good(ms[n].parent)
    <3> HIDE DEF Good
    <3> QED BY <2>1, <2>3
  <2>5. \A m \in DOMAIN ms : m \in Nat BY BoundsAssumption DEF Descends, Seqs
  <2>6. Good(n) BY <2>2, <2>3, <2>4, <2>5
  <2> QED BY <2>1, <2>6
<1>2. Good(t)
  <2> HIDE DEF Good
  <2> QED BY <1>1
<1> QED BY <1>2, ChainStep

\* The walks from two messages of a walk: one is a part of the other.
LEMMA ChainNested ==
    ASSUME NEW ms, Descends(ms), NEW t \in Refs, NEW a \in ChainOf(ms, t)
    PROVE  /\ ChainOf(ms, a) \subseteq ChainOf(ms, t)
           /\ \A e \in ChainOf(ms, t) : e <= a => e \in ChainOf(ms, a)
<1> DEFINE Good(n) == \A b \in ChainOf(ms, n) :
                         /\ ChainOf(ms, b) \subseteq ChainOf(ms, n)
                         /\ \A e \in ChainOf(ms, n) : e <= b => e \in ChainOf(ms, b)
           T == {n \in Refs : ~Good(n)}
<1>1. T = {}
  <2> SUFFICES ASSUME T # {} PROVE FALSE OBVIOUS
  <2>1. PICK n \in T : \A i \in T : n <= i
    <3>1. T \subseteq Nat BY BoundsAssumption DEF Refs
    <3> HIDE DEF T
    <3> QED BY <3>1, LeastNatural
  <2>2. n \in DOMAIN ms /\ ChainOf(ms, n) = {n} \cup ChainOf(ms, ms[n].parent)
    BY <2>1, ChainStep
  <2>3. ms[n].parent \in Refs /\ ms[n].parent < n /\ n \in Nat /\ ms[n].parent \in Nat
    BY <2>2, BoundsAssumption DEF Descends, Refs
  <2>4. Good(ms[n].parent)
    <3> HIDE DEF Good
    <3> QED BY <2>1, <2>3
  <2>5. \A m \in ChainOf(ms, ms[n].parent) : m \in Nat /\ m < n
    BY <2>3, ChainBelow, BoundsAssumption DEF Descends, Seqs
  <2>6. ASSUME NEW b \in ChainOf(ms, n)
        PROVE  /\ ChainOf(ms, b) \subseteq ChainOf(ms, n)
               /\ \A e \in ChainOf(ms, n) : e <= b => e \in ChainOf(ms, b)
    <3>1. CASE b = n BY <3>1
    <3>2. CASE b # n BY <2>2, <2>3, <2>4, <2>5, <2>6, <3>2
    <3> QED BY <3>1, <3>2
  <2> QED BY <2>1, <2>6
<1>2. Good(t)
  <2> HIDE DEF Good
  <2> QED BY <1>1
<1> QED BY <1>2

\* Of the messages below the number b, ns has no other than ms, and they name
\* the parents that they name there.
Thinned(ms, ns, b) == \A m \in DOMAIN ns : m < b => m \in DOMAIN ms /\ ns[m] = ms[m]

\* Deletions make a walk shorter and do not lead it elsewhere.
LEMMA ChainThins ==
    ASSUME NEW ms, NEW ns, Descends(ms), Descends(ns), NEW b \in Nat, Thinned(ms, ns, b),
           NEW t \in Refs, t < b
    PROVE  /\ ChainOf(ns, t) \subseteq ChainOf(ms, t)
           /\ \A a \in ChainOf(ms, t) : \A e \in ChainOf(ms, a) :
                 e \in ChainOf(ns, t) => a \in ChainOf(ns, t)
<1> DEFINE Good(n) == /\ ChainOf(ns, n) \subseteq ChainOf(ms, n)
                      /\ \A a \in ChainOf(ms, n) : \A e \in ChainOf(ms, a) :
                            e \in ChainOf(ns, n) => a \in ChainOf(ns, n)
           T == {n \in Refs : n < b /\ ~Good(n)}
<1>1. T = {}
  <2> SUFFICES ASSUME T # {} PROVE FALSE OBVIOUS
  <2>1. PICK n \in T : \A i \in T : n <= i
    <3>1. T \subseteq Nat BY BoundsAssumption DEF Refs
    <3> HIDE DEF T
    <3> QED BY <3>1, LeastNatural
  <2>2. CASE n \notin DOMAIN ns
    <3>1. ChainOf(ns, n) = {} BY <2>1, <2>2, ChainStep
    <3> QED BY <2>1, <3>1
  <2>3. CASE n \in DOMAIN ns
    <3>1. n \in DOMAIN ms /\ ns[n] = ms[n] BY <2>1, <2>3 DEF Thinned
    <3> DEFINE p == ms[n].parent
    <3>2. /\ ChainOf(ns, n) = {n} \cup ChainOf(ns, p)
          /\ ChainOf(ms, n) = {n} \cup ChainOf(ms, p)
      BY <2>1, <2>3, <3>1, ChainStep
    <3>3. p \in Refs /\ p < n /\ n \in Nat /\ p \in Nat
      BY <3>1, BoundsAssumption DEF Descends, Seqs, Refs
    <3>4. Good(p)
      <4>1. p < b BY <2>1, <3>3
      <4> HIDE DEF Good, p
      <4> QED BY <2>1, <3>3, <4>1
    <3>5. \A a \in ChainOf(ms, p) : a \in Nat /\ a < n
      BY <3>3, ChainBelow, BoundsAssumption DEF Descends, Seqs
    <3>6. ASSUME NEW a \in ChainOf(ms, n), NEW e \in ChainOf(ms, a), e \in ChainOf(ns, n)
          PROVE  a \in ChainOf(ns, n)
      <4>1. CASE a = n BY <3>2, <4>1
      <4>2. CASE a # n
        <5>1. a \in ChainOf(ms, p) BY <3>2, <4>2
        <5>2. a \in Refs BY <5>1, <3>3, ChainBelow, BoundsAssumption DEF Descends, Seqs, Refs
        <5>3. e <= a /\ e \in Nat
          BY <5>2, ChainBelow, BoundsAssumption DEF Descends, Seqs
        <5>4. e # n BY <3>3, <3>5, <5>1, <5>3
        <5>5. e \in ChainOf(ns, p) BY <3>2, <3>6, <5>4
        <5> QED BY <3>2, <3>4, <5>1, <5>5
      <4> QED BY <4>1, <4>2
    <3>7. ChainOf(ns, n) \subseteq ChainOf(ms, n) BY <3>2, <3>4
    <3> QED BY <2>1, <3>6, <3>7
  <2> QED BY <2>2, <2>3
<1>2. Good(t)
  <2> HIDE DEF Good
  <2> QED BY <1>1
<1> QED BY <1>2

LEMMA TreeDescends == ASSUME IInv PROVE Descends(msgs)
  BY DEF IInv, TypeOK, ChainsDescend, Message, Descends, Rows

LEMMA TreeDescendsNext == ASSUME IInv' PROVE Descends(msgs')
  BY DEF IInv, TypeOK, ChainsDescend, Message, Descends, Rows

-----------------------------------------------------------------------------
(* Turns stay on their fork *)

\* The rows that a turn to the end of a chain inserts.
LEMMA SendExtends ==
    ASSUME IInv, IInv', NEW r \in Requests, req[r].op = "send",
           NEW answers \in 1..MaxSlots,
           LastSeq(req[r], answers) <= MaxSeq,
           msgs' = [m \in (Rows \ req[r].dels) \cup DOMAIN Inserted(req[r], answers) |->
                       IF m \in DOMAIN Inserted(req[r], answers)
                       THEN Inserted(req[r], answers)[m] ELSE msgs[m]],
           req[r].parent \in DOMAIN msgs'
    PROVE  req[r].parent \in ChainOf(msgs', LastSeq(req[r], answers))
<1> DEFINE last == LastSeq(req[r], answers)
           parent == req[r].parent
<1>1. nextSeq \in 1..(MaxSeq + 1) /\ parent \in Refs
  BY DEF IInv, TypeOK, Request
<1>2. WritesUser(req[r]) /\ last = nextSeq + answers BY DEF WritesUser, LastSeq
<1>3. /\ last \in Refs /\ nextSeq \in Refs /\ nextSeq < last
      /\ last \in nextSeq..last /\ nextSeq \in nextSeq..last
  BY <1>1, <1>2, BoundsAssumption DEF Refs
<1>4. DOMAIN Inserted(req[r], answers) = nextSeq..last BY DEF Inserted
<1>5. Inserted(req[r], answers)[last].parent = nextSeq
  BY <1>2, <1>3 DEF Inserted
<1>6. Inserted(req[r], answers)[nextSeq].parent = parent
  BY <1>2, <1>3 DEF Inserted
<1> HIDE DEF last, parent
<1>7. /\ last \in DOMAIN msgs' /\ msgs'[last].parent = nextSeq
      /\ nextSeq \in DOMAIN msgs' /\ msgs'[nextSeq].parent = parent
  BY <1>3, <1>4, <1>5, <1>6 DEF last
<1>8. Descends(msgs') BY TreeDescendsNext
<1>9. nextSeq \in Refs /\ ChainOf(msgs', last) = {last} \cup ChainOf(msgs', nextSeq)
  BY <1>3, <1>7, <1>8, ChainStep
<1>10. ChainOf(msgs', nextSeq) = {nextSeq} \cup ChainOf(msgs', parent)
  BY <1>3, <1>7, <1>8, ChainStep
<1>11. parent \in ChainOf(msgs', parent) BY <1>1, <1>8, ChainStep DEF parent
<1> QED BY <1>9, <1>10, <1>11 DEF last, parent

\* A tip that does not move, and one that is deleted.
LEMMA StaysOnFork ==
    ASSUME IInv, IInv', NEW f \in Forks, NEW m \in Rows, forks[f].tip = m,
           f \in Forks' /\ m \in Rows' => forks'[f].tip = m
    PROVE  Follows(f, m)'
<1> SUFFICES ASSUME f \in Forks', m \in Rows' PROVE m \in ChainOf(msgs', forks'[f].tip)
  BY ChainIsOfMsgs DEF Follows, Chain, ChainOf, Rows
<1>1. forks'[f].tip = m /\ m \in DOMAIN msgs' BY DEF Rows
<1>2. m \in Refs BY BoundsAssumption DEF IInv, TypeOK, Seqs, Refs
<1> QED BY <1>1, <1>2, TreeDescendsNext, ChainBelow

LEMMA SaveStaysOnFork ==
    ASSUME IInv, IInv', NEW r \in Requests, Save(r),
           NEW f \in Forks, NEW m \in Rows, forks[f].tip = m
    PROVE  Follows(f, m)'
<1> DEFINE q     == req[r]
           after == WithoutTips(forks, q.dels)
           moves == Advances(q) /\ q.fork \in Forks
<1>1. PICK answers \in AnswerCounts(q) :
          /\ LastSeq(q, answers) <= MaxSeq
          /\ moves => TipAsExpected(r, after)
          /\ msgs' = [n \in (Rows \ q.dels) \cup DOMAIN Inserted(q, answers) |->
                        IF n \in DOMAIN Inserted(q, answers)
                        THEN Inserted(q, answers)[n] ELSE msgs[n]]
          /\ forks' = IF moves THEN [after EXCEPT ![q.fork].tip = LastSeq(q, answers)] ELSE after
  BY DEF Save
<1>2. after = [g \in Forks |-> IF forks[g].tip \in q.dels
                               THEN [forks[g] EXCEPT !.tip = 0] ELSE forks[g]]
  BY DEF WithoutTips, Forks
<1>3. m \in Rows' => m \notin q.dels
  <2>1. m < nextSeq /\ m \in Nat /\ nextSeq \in Nat
    BY BoundsAssumption DEF IInv, TypeOK, Younger, Seqs
  <2>2. m \notin DOMAIN Inserted(q, answers) BY <2>1 DEF Inserted
  <2> QED BY <1>1, <2>2 DEF Rows
<1>4. m \in Rows' => after[f].tip = m BY <1>2, <1>3
<1>5. CASE ~(moves /\ f = q.fork)
  <2>1. m \in Rows' => forks'[f].tip = m BY <1>1, <1>2, <1>4, <1>5
  <2> QED BY <2>1, StaysOnFork
<1>6. CASE moves /\ f = q.fork
  <2>1. CASE m \notin Rows' BY <2>1, StaysOnFork
  <2>2. CASE m \in Rows'
    <3>1. after[f].tip = ExpectedTip(q) BY <1>1, <1>6 DEF TipAsExpected
    <3>2. m # 0 BY DEF IInv, TypeOK, Seqs
    <3>3. q.op = "send" /\ q.parent = m BY <1>4, <2>2, <3>1, <3>2 DEF ExpectedTip
    <3>4. answers \in 1..MaxSlots BY <3>3 DEF AnswerCounts
    <3>5. forks'[f].tip = LastSeq(q, answers)
      <4>1. forks[f] \in Fork BY DEF IInv, TypeOK
      <4>2. after[f] = forks[f] BY <1>2, <1>3, <2>2
      <4>3. forks' = [after EXCEPT ![f].tip = LastSeq(q, answers)] BY <1>1, <1>6
      <4>4. f \in DOMAIN after BY <1>2
      <4> HIDE DEF after, q
      <4> QED BY <4>1, <4>2, <4>3, <4>4 DEF Fork
    <3>6. m \in ChainOf(msgs', LastSeq(q, answers))
      BY <1>1, <2>2, <3>3, <3>4, SendExtends DEF Rows
    <3> QED BY <3>5, <3>6 DEF Follows, Chain, ChainOf, Rows
  <2> QED BY <2>1, <2>2
<1> QED BY <1>5, <1>6

LEMMA InsertForksStaysOnFork ==
    ASSUME IInv, IInv', NEW r \in Requests, InsertForks(r),
           NEW f \in Forks, NEW m \in Rows, forks[f].tip = m
    PROVE  Follows(f, m)'
<1>1. NoFork \notin Forks BY NamesAssumption DEF IInv, TypeOK
<1>2. f \in created BY DEF IInv, TypeOK
<1>3. forks'[f] = forks[f] BY <1>1, <1>2 DEF InsertForks
<1> QED BY <1>3, StaysOnFork

\* However turns that grafted onto one tip are validated and saved: no saved
\* turn drops out of its fork, except where the step deletes it.
THEOREM TurnsAlwaysStayOnFork == Spec => TurnsStayOnFork
<1>1. ASSUME IInv, IInv', [Next]_vars, NEW f \in Forks, NEW m \in Rows, forks[f].tip = m
      PROVE  Follows(f, m)'
  <2>1. CASE forks' = forks BY <1>1, <2>1, StaysOnFork
  <2>2. ASSUME NEW g \in Forks, RenameFork(g) PROVE Follows(f, m)'
    <3>1. PICK main \in BOOLEAN : forks' = [forks EXCEPT ![g].main = main]
      BY <2>2 DEF RenameFork
    <3>2. forks[f] \in Fork BY <1>1 DEF IInv, TypeOK
    <3>3. forks'[f].tip = forks[f].tip BY <3>1, <3>2 DEF Forks, Fork
    <3> QED BY <1>1, <3>3, StaysOnFork
  <2>3. ASSUME NEW r \in Requests, Prune(r) PROVE Follows(f, m)'
    <3>1. forks' = WithoutTips(forks, req[r].dels \cap Rows)
          /\ msgs' = [n \in Rows \ (req[r].dels \cap Rows) |-> msgs[n]]
      BY <2>3 DEF Prune
    <3>2. m \in Rows' => m \notin req[r].dels \cap Rows BY <3>1 DEF Rows
    <3>3. m \in Rows' => forks'[f].tip = m BY <1>1, <3>1, <3>2 DEF WithoutTips, Forks
    <3> QED BY <1>1, <3>3, StaysOnFork
  <2>4. ASSUME NEW r \in Requests, DropFork(r) \/ DropAllForks(r) PROVE Follows(f, m)'
    <3>1. f \in Forks' => forks'[f] = forks[f] BY <2>4 DEF DropFork, DropAllForks, Forks
    <3> QED BY <1>1, <3>1, StaysOnFork
  <2>5. ASSUME NEW r \in Requests, Save(r) \/ InsertForks(r) PROVE Follows(f, m)'
    BY <1>1, <2>5, SaveStaysOnFork, InsertForksStaysOnFork
  <2>6. \/ forks' = forks
        \/ \E g \in Forks : RenameFork(g)
        \/ \E r \in Requests : Prune(r) \/ DropFork(r) \/ DropAllForks(r) \/ Save(r) \/ InsertForks(r)
    <3>1. CASE UNCHANGED vars BY <3>1 DEF vars, dbVars
    <3>2. \A r \in Requests : \A q : Begin(r, q) => forks' = forks BY DEF Begin, dbVars
    <3>3. \A r \in Requests, u \in Users :
             /\ \A g \in created \cup {NoFork} : OpenSend(r, u, g) => forks' = forks
             /\ OpenNote(r, u) => forks' = forks
             /\ \A g \in Forks \cup {NoFork} : OpenRetry(r, u, g) \/ OpenEdit(r, u, g) => forks' = forks
      <4> SUFFICES ASSUME NEW r \in Requests, NEW u \in Users
                   PROVE  /\ \A g : OpenSend(r, u, g) => forks' = forks
                          /\ OpenNote(r, u) => forks' = forks
                          /\ \A g : OpenRetry(r, u, g) \/ OpenEdit(r, u, g) => forks' = forks
        OBVIOUS
      <4>1. \A g : OpenSend(r, u, g) => forks' = forks BY <3>2 DEF OpenSend
      <4>2. OpenNote(r, u) => forks' = forks BY <3>2 DEF OpenNote
      <4>3. \A g : OpenRetry(r, u, g) => forks' = forks BY <3>2 DEF OpenRetry
      <4>4. \A g : OpenEdit(r, u, g) => forks' = forks BY <3>2 DEF OpenEdit
      <4> QED BY <4>1, <4>2, <4>3, <4>4
    <3>4. \A r \in Requests :
             /\ OpenFork(r) => forks' = forks
             /\ \A g \in Forks : OpenUnfork(r, g) => forks' = forks
      BY <3>2 DEF OpenFork, OpenUnfork
    <3>5. \A r \in Requests :
             \/ ApplySend(r) \/ LoadTarget(r) \/ ApplyRegeneration(r)
             \/ Drop(r) \/ CountForks(r)
             => forks' = forks
      BY DEF ApplySend, LoadTarget, ApplyRegeneration, Drop, CountForks, dbVars
    <3> QED BY <1>1, <3>1, <3>3, <3>4, <3>5 DEF Next
  <2> QED BY <2>1, <2>2, <2>3, <2>4, <2>5, <2>6
<1>2. IInv /\ IInv' /\ [Next]_vars =>
          [\A f \in Forks, m \in Rows : forks[f].tip = m => Follows(f, m)']_vars
  BY <1>1
<1> QED BY <1>2, AlwaysIInv, PTL DEF Spec, TurnsStayOnFork

-----------------------------------------------------------------------------
(* Regenerations spare the others *)

\* Between and OfOthers, of any messages.
BetweenOf(ms, tip, anchor) ==
    IF anchor \in ChainOf(ms, tip) THEN ChainOf(ms, tip) \ ChainOf(ms, anchor)
    ELSE ChainOf(ms, tip)

OthersIn(ms, u) == {m \in DOMAIN ms : ms[m].role = "user" /\ ms[m].sender \notin {u, NoUser}}

\* What a gate has found out, and what a tree action has made of it.  The
\* numbers are taken, so no message that is saved later is among them.  An edit
\* keeps the parent that it read for as long as it waits for its fork.
Spares(ms, next, q) ==
    /\ q.stage \in {"open", "loaded"} /\ q.op \in Regenerations /\ q.tip # 0 =>
          /\ q.op # "replace" => BetweenOf(ms, q.tip, q.target) \cap OthersIn(ms, q.user) = {}
          /\ q.op = "edit" => q.target \notin OthersIn(ms, q.user)
          /\ q.op = "replace" => q.replace \notin OthersIn(ms, q.user)
    /\ q.stage = "loaded" /\ q.target \in DOMAIN ms => ms[q.target].parent = q.parent
    /\ q.stage = "applied" /\ q.op \in Regenerations /\ q.tip # 0 =>
          q.dels \cap OthersIn(ms, q.user) = {}
    /\ q.replace < next
    /\ \A m \in q.dels : m < next

SpareInv == \A r \in Requests : Spares(msgs, nextSeq, req[r])

LEMMA OfMsgs == /\ \A tip, anchor : Between(tip, anchor) = BetweenOf(msgs, tip, anchor)
                /\ \A u : OfOthers(u) = OthersIn(msgs, u)
  BY DEF Between, BetweenOf, Chain, ChainOf, OfOthers, OthersIn, Rows

\* Deletions and new messages put nothing between a tip and an anchor, not even
\* where they take the anchor, or a message on the way to it, out of the walk.
LEMMA BetweenThins ==
    ASSUME NEW ms, NEW ns, Descends(ms), Descends(ns), NEW b \in Nat, Thinned(ms, ns, b),
           NEW tip \in Refs, tip < b, NEW anchor \in Refs
    PROVE  BetweenOf(ns, tip, anchor) \subseteq BetweenOf(ms, tip, anchor)
<1> SUFFICES ASSUME NEW e \in BetweenOf(ns, tip, anchor)
             PROVE  e \in BetweenOf(ms, tip, anchor)
  OBVIOUS
<1>1. /\ ChainOf(ns, tip) \subseteq ChainOf(ms, tip)
      /\ \A a \in ChainOf(ms, tip) : \A d \in ChainOf(ms, a) :
            d \in ChainOf(ns, tip) => a \in ChainOf(ns, tip)
  BY ChainThins
<1>2. e \in ChainOf(ns, tip) BY DEF BetweenOf
<1>3. ASSUME anchor \in ChainOf(ms, tip), e \in ChainOf(ms, anchor) PROVE FALSE
  <2>1. anchor \in ChainOf(ns, tip) BY <1>1, <1>2, <1>3
  <2>2. e \notin ChainOf(ns, anchor) BY <2>1 DEF BetweenOf
  <2>3. e <= anchor BY <1>3, ChainBelow
  <2> QED BY <1>2, <2>1, <2>2, <2>3, ChainNested
<1> QED BY <1>1, <1>2, <1>3 DEF BetweenOf

\* What an edit asks for is what the gate looked at, and the edited message.
LEMMA BetweenParent ==
    ASSUME NEW ms, Descends(ms), NEW tip \in Refs, NEW m \in DOMAIN ms
    PROVE  BetweenOf(ms, tip, ms[m].parent) \subseteq BetweenOf(ms, tip, m) \cup {m}
<1> DEFINE p == ms[m].parent
<1>1. m \in Refs /\ p \in Refs BY BoundsAssumption DEF Descends, Seqs, Refs
<1>2. ChainOf(ms, m) = {m} \cup ChainOf(ms, p) BY <1>1, ChainStep
<1>3. CASE m \notin ChainOf(ms, tip) BY <1>3 DEF BetweenOf
<1>4. CASE m \in ChainOf(ms, tip)
  <2>1. ChainOf(ms, m) \subseteq ChainOf(ms, tip) BY <1>4, ChainNested
  <2>2. CASE p \in ChainOf(ms, tip) BY <1>2, <1>4, <2>2 DEF BetweenOf
  <2>3. CASE p \notin ChainOf(ms, tip)
    <3>1. p \notin DOMAIN ms
      <4>1. p \in DOMAIN ms => p \in ChainOf(ms, p) BY <1>1, ChainBelow
      <4> QED BY <1>2, <2>1, <2>3, <4>1
    <3>2. ChainOf(ms, p) = {} BY <1>1, <3>1, ChainStep
    <3> QED BY <1>2, <1>4, <2>3, <3>2 DEF BetweenOf
  <2> QED BY <2>2, <2>3
<1> QED BY <1>3, <1>4

LEMMA SparesKept ==
    ASSUME IInv, IInv', Thinned(msgs, msgs', nextSeq), nextSeq <= nextSeq',
           NEW q \in Request, q.tip < nextSeq, q.target < nextSeq, Spares(msgs, nextSeq, q)
    PROVE  Spares(msgs', nextSeq', q)
<1>1. \A u, m : m < nextSeq /\ m \in OthersIn(msgs', u) => m \in OthersIn(msgs, u)
  BY DEF OthersIn, Thinned
<1>2. nextSeq \in Nat /\ nextSeq' \in Nat BY DEF IInv, TypeOK
<1>3. /\ q.tip \in Refs /\ q.target \in Refs /\ q.replace \in Nat
      /\ \A m \in q.dels : m \in Nat
  BY BoundsAssumption DEF Request, Refs, Seqs
<1>4. BetweenOf(msgs', q.tip, q.target) \subseteq BetweenOf(msgs, q.tip, q.target)
  BY <1>2, <1>3, TreeDescends, TreeDescendsNext, BetweenThins
<1>5. \A m \in BetweenOf(msgs', q.tip, q.target) : m < nextSeq
  <2>1. BetweenOf(msgs, q.tip, q.target) \subseteq Rows
    BY <1>3, TreeDescends, ChainBelow DEF BetweenOf, Rows
  <2> QED BY <1>4, <2>1 DEF IInv, Younger
<1>6. \A u : (BetweenOf(msgs, q.tip, q.target) \cap OthersIn(msgs, u) = {})
             => (BetweenOf(msgs', q.tip, q.target) \cap OthersIn(msgs', u) = {})
  BY <1>1, <1>4, <1>5
<1>7. \A u : (q.dels \cap OthersIn(msgs, u) = {}) => (q.dels \cap OthersIn(msgs', u) = {})
  BY <1>1 DEF Spares
<1>8. \A u : /\ q.replace \notin OthersIn(msgs, u) => q.replace \notin OthersIn(msgs', u)
             /\ q.target \notin OthersIn(msgs, u) => q.target \notin OthersIn(msgs', u)
  BY <1>1 DEF Spares
<1>9. q.replace < nextSeq' /\ \A m \in q.dels : m < nextSeq' BY <1>2, <1>3 DEF Spares
<1>10. q.stage = "loaded" /\ q.target \in DOMAIN msgs' => msgs'[q.target].parent = q.parent
  BY DEF Spares, Thinned
<1> QED BY <1>6, <1>7, <1>8, <1>9, <1>10 DEF Spares

\* A step that changes one request, whose new record spares the others, and at
\* most deletes messages or saves new ones.
LEMMA SparesNext ==
    ASSUME IInv, IInv', SpareInv, Thinned(msgs, msgs', nextSeq), nextSeq <= nextSeq',
           NEW r \in Requests, NEW q, req' = [req EXCEPT ![r] = q],
           Spares(msgs', nextSeq', q)
    PROVE  SpareInv'
<1>0. ASSUME \A s \in Requests : Spares(msgs', nextSeq', req'[s]) PROVE SpareInv'
  BY <1>0 DEF SpareInv, Spares, BetweenOf, OthersIn, ChainOf
<1> SUFFICES ASSUME NEW s \in Requests PROVE Spares(msgs', nextSeq', req'[s])
  BY <1>0
<1>1. CASE s = r BY <1>1 DEF IInv, TypeOK
<1>2. CASE s # r
  <2>1. req'[s] = req[s] BY <1>2 DEF IInv, TypeOK
  <2>2. req[s] \in Request /\ req[s].tip < nextSeq /\ req[s].target < nextSeq
    BY DEF IInv, TypeOK, Younger
  <2>3. Spares(msgs, nextSeq, req[s]) BY DEF SpareInv
  <2> QED BY <2>1, <2>2, <2>3, SparesKept
<1> QED BY <1>1, <1>2

LEMMA SparesBeside ==
    ASSUME IInv, IInv', SpareInv, UNCHANGED <<msgs, nextSeq>>,
           NEW r \in Requests, NEW q, req' = [req EXCEPT ![r] = q], Spares(msgs, nextSeq, q)
    PROVE  SpareInv'
<1>1. nextSeq \in Nat /\ nextSeq <= nextSeq' BY DEF IInv, TypeOK
<1>2. Thinned(msgs, msgs', nextSeq) BY DEF Thinned
<1>3. Spares(msgs', nextSeq', q) OBVIOUS
<1> QED BY <1>1, <1>2, <1>3, SparesNext

LEMMA IdleSpares == ASSUME IInv PROVE Spares(msgs, nextSeq, IdleRequest)
  BY DEF Spares, IdleRequest, IInv, TypeOK

\* Requests that delete nothing, or have yet to choose what.
LEMMA PlainSpares ==
    ASSUME IInv, SpareInv, NEW r \in Requests,
           NEW stage \in {"applied", "pruned", "dropped", "alone"},
           stage = "applied" => req[r].op \notin Regenerations
    PROVE  Spares(msgs, nextSeq, [req[r] EXCEPT !.stage = stage])
<1>1. req[r] \in Request /\ Spares(msgs, nextSeq, req[r]) BY DEF IInv, TypeOK, SpareInv
<1> QED BY <1>1 DEF Spares, Request

LEMMA OpenRetrySpares ==
    ASSUME IInv, IInv', SpareInv, NEW r \in Requests, NEW u \in Users, NEW f,
           OpenRetry(r, u, f)
    PROVE  SpareInv'
<1> DEFINE target(m) == IF msgs[m].role = "user" THEN m ELSE msgs[m].parent
           q(m, one) == [IdleRequest EXCEPT !.stage = "open",
                            !.op = IF one THEN "replace" ELSE "retry",
                            !.user = u, !.fork = f, !.target = target(m),
                            !.replace = IF one THEN m ELSE 0, !.tip = Tips(f)]
<1>1. PICK m \in Offered(u, f), one \in BOOLEAN :
          Begin(r, q(m, one)) /\ Gate(u, f, target(m))
  BY DEF OpenRetry
<1>2. m \in Rows /\ m \notin OfOthers(u) BY DEF Offered, View
<1> DEFINE p == q(m, one)
<1>3. /\ p.stage = "open" /\ p.op = IF one THEN "replace" ELSE "retry"
      /\ p.user = u /\ p.target = target(m) /\ p.tip = Tips(f)
      /\ p.replace = IF one THEN m ELSE 0
      /\ p.dels = {}
  BY DEF IdleRequest
<1>4. Tips(f) # 0 => Between(Tips(f), target(m)) \cap OfOthers(u) = {}
  BY <1>1 DEF Gate
<1>5. m < nextSeq /\ 0 < nextSeq BY <1>2 DEF IInv, TypeOK, Younger
<1>6. req' = [req EXCEPT ![r] = p] /\ UNCHANGED <<msgs, nextSeq>>
  BY <1>1 DEF Begin, dbVars
<1> HIDE DEF p, target
<1>7. Spares(msgs, nextSeq, p) BY <1>2, <1>3, <1>4, <1>5, OfMsgs DEF Spares
<1> QED BY <1>6, <1>7, SparesBeside

LEMMA OpenEditSpares ==
    ASSUME IInv, IInv', SpareInv, NEW r \in Requests, NEW u \in Users, NEW f,
           OpenEdit(r, u, f)
    PROVE  SpareInv'
<1> DEFINE q(m) == [IdleRequest EXCEPT !.stage = "open", !.op = "edit", !.user = u,
                                       !.fork = f, !.target = m, !.tip = Tips(f)]
<1>1. PICK m \in Offered(u, f) : Begin(r, q(m)) /\ Gate(u, f, m) BY DEF OpenEdit
<1>2. m \notin OfOthers(u) BY DEF Offered
<1> DEFINE p == q(m)
<1>3. /\ p.stage = "open" /\ p.op = "edit" /\ p.user = u /\ p.target = m /\ p.tip = Tips(f)
      /\ p.replace = 0 /\ p.dels = {}
  BY DEF IdleRequest
<1>4. Tips(f) # 0 => Between(Tips(f), m) \cap OfOthers(u) = {} BY <1>1 DEF Gate
<1>5. 0 < nextSeq BY DEF IInv, TypeOK
<1>6. req' = [req EXCEPT ![r] = p] /\ UNCHANGED <<msgs, nextSeq>>
  BY <1>1 DEF Begin, dbVars
<1> HIDE DEF p
<1>7. Spares(msgs, nextSeq, p) BY <1>2, <1>3, <1>4, <1>5, OfMsgs DEF Spares
<1> QED BY <1>6, <1>7, SparesBeside

\* The other requests that begin.
LEMMA OpenSpares ==
    ASSUME IInv, IInv', SpareInv, NEW r \in Requests,
           \/ \E u \in Users, f \in created \cup {NoFork} : OpenSend(r, u, f)
           \/ \E u \in Users : OpenNote(r, u)
           \/ OpenFork(r)
           \/ \E f \in Forks : OpenUnfork(r, f)
    PROVE  SpareInv'
<1>1. ASSUME NEW q, Begin(r, q), q.stage # "loaded", q.op \notin Regenerations,
             q.replace = 0, q.dels \subseteq Rows
      PROVE  SpareInv'
  <2>1. req' = [req EXCEPT ![r] = q] /\ UNCHANGED <<msgs, nextSeq>> BY <1>1 DEF Begin, dbVars
  <2>2. Spares(msgs, nextSeq, q) BY <1>1 DEF Spares, IInv, TypeOK, Younger
  <2> QED BY <2>1, <2>2, SparesBeside
<1>2. ASSUME NEW u, NEW f, OpenSend(r, u, f) PROVE SpareInv'
  <2> DEFINE q == [IdleRequest EXCEPT !.stage = "open", !.op = "send", !.user = u,
                                      !.fork = f, !.parent = ParentFor(f)]
  <2>1. q.stage # "loaded" /\ q.op = "send" /\ q.replace = 0 /\ q.dels = {} BY DEF IdleRequest
  <2>2. Begin(r, q) BY <1>2 DEF OpenSend
  <2> HIDE DEF q
  <2> QED BY <1>1, <2>1, <2>2 DEF Regenerations
<1>3. ASSUME NEW u, OpenNote(r, u) PROVE SpareInv'
  <2> DEFINE q == [IdleRequest EXCEPT !.stage = "open", !.op = "note", !.user = u,
                                      !.parent = ParentFor(NoFork)]
  <2>1. q.stage # "loaded" /\ q.op = "note" /\ q.replace = 0 /\ q.dels = {} BY DEF IdleRequest
  <2>2. Begin(r, q) BY <1>3 DEF OpenNote
  <2> HIDE DEF q
  <2> QED BY <1>1, <2>1, <2>2 DEF Regenerations
<1>4. ASSUME OpenFork(r) PROVE SpareInv'
  <2> DEFINE q(m) == [IdleRequest EXCEPT !.stage = "read", !.op = "fork", !.target = m,
                         !.first = (Forks = {}), !.tip = IF Forks = {} THEN Latest ELSE 0]
  <2>1. \A m : /\ q(m).stage # "loaded" /\ q(m).op = "fork"
               /\ q(m).replace = 0 /\ q(m).dels = {}
    BY DEF IdleRequest
  <2>2. PICK m \in Rows : Begin(r, q(m)) BY <1>4 DEF OpenFork
  <2> HIDE DEF q
  <2> QED BY <1>1, <2>1, <2>2 DEF Regenerations
<1>5. ASSUME NEW f, OpenUnfork(r, f) PROVE SpareInv'
  <2> DEFINE q == [IdleRequest EXCEPT !.stage = "read", !.op = "unfork", !.fork = f,
                                      !.dels = OwnChain(f)]
  <2>1. q.stage # "loaded" /\ q.op = "unfork" /\ q.replace = 0 /\ q.dels = OwnChain(f) BY DEF IdleRequest
  <2>2. Begin(r, q) BY <1>5 DEF OpenUnfork
  <2>3. OwnChain(f) \subseteq Rows BY DEF OwnChain
  <2> HIDE DEF q
  <2> QED BY <1>1, <2>1, <2>2, <2>3 DEF Regenerations
<1> QED BY <1>2, <1>3, <1>4, <1>5

LEMMA LoadTargetSpares ==
    ASSUME IInv, IInv', SpareInv, NEW r \in Requests, LoadTarget(r)
    PROVE  SpareInv'
<1> DEFINE q == req[r]
           p == [q EXCEPT !.stage = "loaded", !.parent = msgs[q.target].parent]
<1>1. q \in Request /\ Spares(msgs, nextSeq, q) BY DEF IInv, TypeOK, SpareInv
<1>2. q.stage = "open" /\ req' = [req EXCEPT ![r] = p] /\ UNCHANGED <<msgs, nextSeq>>
  BY DEF LoadTarget, dbVars
<1>3. /\ p.stage = "loaded" /\ p.op = q.op /\ p.tip = q.tip /\ p.user = q.user
      /\ p.target = q.target /\ p.parent = msgs[q.target].parent
      /\ p.replace = q.replace /\ p.dels = q.dels
  BY <1>1 DEF Request
<1> HIDE DEF p
<1>4. Spares(msgs, nextSeq, p) BY <1>1, <1>2, <1>3 DEF Spares
<1> QED BY <1>2, <1>4, SparesBeside

\* What an edit deletes lies below the edited message, or is that message, also
\* when it is gone by then: the walk does not come by it, and the gate looked
\* at the whole of the walk.
LEMMA EditDeletes ==
    ASSUME Descends(msgs), NEW q \in Request, q.op = "edit", q.tip # 0,
           q.target \in Rows => msgs[q.target].parent = q.parent
    PROVE  Deletes(q) \subseteq BetweenOf(msgs, q.tip, q.target) \cup {q.target}
<1>1. \A anchor : After(q, anchor) \subseteq BetweenOf(msgs, q.tip, anchor)
  BY OfMsgs DEF After, Exclusive
<1>2. q.tip \in Refs BY DEF Request
<1>3. BetweenOf(msgs, q.tip, q.parent) \subseteq BetweenOf(msgs, q.tip, q.target) \cup {q.target}
  <2>1. CASE q.target \in Rows BY <1>2, <2>1, BetweenParent DEF Rows
  <2>2. CASE q.target \notin Rows
    <3>1. q.target \notin ChainOf(msgs, q.tip) BY <1>2, <2>2, ChainBelow DEF Rows
    <3> QED BY <3>1 DEF BetweenOf
  <2> QED BY <2>1, <2>2
<1>4. CASE q.parent = 0 BY <1>1, <1>4 DEF Deletes
<1>5. CASE q.parent # 0 BY <1>1, <1>3, <1>5 DEF Deletes
<1> QED BY <1>4, <1>5

LEMMA ApplyRegenerationSpares ==
    ASSUME IInv, IInv', SpareInv, NEW r \in Requests, ApplyRegeneration(r)
    PROVE  SpareInv'
<1> DEFINE q == req[r]
           p == [q EXCEPT !.stage = "applied", !.dels = Deletes(q)]
<1>1. /\ q \in Request /\ q.tip \in Refs /\ Spares(msgs, nextSeq, q) /\ Descends(msgs)
  BY TreeDescends DEF IInv, TypeOK, SpareInv, Request
<1>2. /\ q.op \in Regenerations
      /\ q.stage = IF q.op = "edit" THEN "loaded" ELSE "open"
      /\ req' = [req EXCEPT ![r] = p] /\ UNCHANGED <<msgs, nextSeq>>
  BY DEF ApplyRegeneration, dbVars
<1>3. /\ p.stage = "applied" /\ p.op = q.op /\ p.tip = q.tip /\ p.user = q.user
      /\ p.replace = q.replace /\ p.dels = Deletes(q)
  BY <1>1 DEF Request
<1>4. \A m \in Deletes(q) : m < nextSeq
  BY <1>2, DeletesRows DEF IInv, Younger
<1>5. q.tip # 0 => Deletes(q) \cap OthersIn(msgs, q.user) = {}
  <2> SUFFICES ASSUME q.tip # 0 PROVE Deletes(q) \cap OthersIn(msgs, q.user) = {}
    OBVIOUS
  <2>1. CASE q.op = "replace"
    <3>1. Deletes(q) \subseteq {q.replace} BY <2>1 DEF Deletes
    <3> QED BY <1>1, <1>2, <2>1, <3>1 DEF Spares
  <2>2. CASE q.op = "retry"
    <3>1. Deletes(q) \subseteq BetweenOf(msgs, q.tip, q.target)
      BY <2>2, OfMsgs DEF Deletes, After, Exclusive
    <3> QED BY <1>1, <1>2, <2>2, <3>1 DEF Spares
  <2>3. CASE q.op = "edit"
    <3>1. q.target \in Rows => msgs[q.target].parent = q.parent
      BY <1>1, <1>2, <2>3 DEF Spares, Rows
    <3>2. Deletes(q) \subseteq BetweenOf(msgs, q.tip, q.target) \cup {q.target}
      BY <1>1, <2>3, <3>1, EditDeletes
    <3> QED BY <1>1, <1>2, <2>3, <3>2 DEF Spares
  <2> QED BY <1>2, <2>1, <2>2, <2>3 DEF Regenerations
<1> HIDE DEF p
<1>6. Spares(msgs, nextSeq, p) BY <1>1, <1>3, <1>4, <1>5 DEF Spares
<1> QED BY <1>2, <1>6, SparesBeside

LEMMA SaveSpares ==
    ASSUME IInv, IInv', SpareInv, NEW r \in Requests, Save(r)
    PROVE  SpareInv'
<1> DEFINE q == req[r]
<1>1. PICK answers \in AnswerCounts(q) :
          /\ msgs' = [n \in (Rows \ q.dels) \cup DOMAIN Inserted(q, answers) |->
                        IF n \in DOMAIN Inserted(q, answers)
                        THEN Inserted(q, answers)[n] ELSE msgs[n]]
          /\ nextSeq' = LastSeq(q, answers) + 1
          /\ req' = [req EXCEPT ![r] = IdleRequest]
  BY DEF Save, Done
<1>2. nextSeq \in Nat BY DEF IInv, TypeOK
<1>3. nextSeq <= nextSeq'
  <2>1. answers \in Nat BY BoundsAssumption DEF AnswerCounts
  <2> QED BY <1>1, <1>2, <2>1 DEF LastSeq
<1>4. \A m \in DOMAIN Inserted(q, answers) : ~(m < nextSeq)
  BY <1>2 DEF Inserted
<1>5. Thinned(msgs, msgs', nextSeq) BY <1>1, <1>4 DEF Thinned, Rows
<1>6. Spares(msgs', nextSeq', IdleRequest)
  BY DEF Spares, IdleRequest, IInv, TypeOK
<1> QED BY <1>1, <1>3, <1>5, <1>6, SparesNext

LEMMA PruneSpares ==
    ASSUME IInv, IInv', SpareInv, NEW r \in Requests, Prune(r)
    PROVE  SpareInv'
<1> DEFINE q == [req[r] EXCEPT !.stage = "pruned"]
<1>1. /\ req' = [req EXCEPT ![r] = q]
      /\ msgs' = [m \in Rows \ (req[r].dels \cap Rows) |-> msgs[m]]
      /\ nextSeq' = nextSeq /\ nextSeq \in Nat
  BY DEF Prune, Stage, IInv, TypeOK
<1>2. Thinned(msgs, msgs', nextSeq) BY <1>1 DEF Thinned, Rows
<1>3. q.stage = "pruned" /\ Spares(msgs, nextSeq, q)
  <2>1. req[r] \in Request BY DEF IInv, TypeOK
  <2> QED BY <2>1, PlainSpares DEF Request
<1> HIDE DEF q
<1>4. Spares(msgs', nextSeq', q) BY <1>1, <1>3 DEF Spares
<1>5. nextSeq <= nextSeq' BY <1>1
<1> QED BY <1>1, <1>2, <1>4, <1>5, SparesNext

LEMMA SpareStep ==
    ASSUME IInv, IInv', SpareInv, [Next]_vars
    PROVE  SpareInv'
<1>1. CASE UNCHANGED <<msgs, nextSeq, req>> BY <1>1 DEF SpareInv, Spares
<1>2. ASSUME NEW r \in Requests, Done(r), UNCHANGED <<msgs, nextSeq>> PROVE SpareInv'
  BY <1>2, IdleSpares, SparesBeside DEF Done
<1>3. ASSUME NEW r \in Requests, NEW stage \in {"applied", "pruned", "dropped", "alone"},
             stage = "applied" => req[r].op \notin Regenerations,
             Stage(r, stage), UNCHANGED <<msgs, nextSeq>>
      PROVE  SpareInv'
  <2>1. Spares(msgs, nextSeq, [req[r] EXCEPT !.stage = stage]) BY <1>3, PlainSpares
  <2>2. req' = [req EXCEPT ![r] = [req[r] EXCEPT !.stage = stage]] BY <1>3 DEF Stage
  <2> QED BY <1>3, <2>1, <2>2, SparesBeside
<1>4. CASE UNCHANGED vars BY <1>1, <1>4 DEF vars, dbVars
<1>5. CASE \E f \in Forks : RenameFork(f) BY <1>1, <1>5 DEF RenameFork
<1>6. ASSUME NEW r \in Requests, ApplySend(r) PROVE SpareInv'
  <2>1. Stage(r, "applied") /\ req[r].op \notin Regenerations /\ UNCHANGED <<msgs, nextSeq>>
    BY <1>6 DEF ApplySend, Regenerations, dbVars
  <2> QED BY <1>3, <2>1
<1>7. ASSUME NEW r \in Requests, Drop(r) \/ InsertForks(r) \/ DropAllForks(r) PROVE SpareInv'
  <2>1. Done(r) /\ UNCHANGED <<msgs, nextSeq>>
    BY <1>7 DEF Drop, InsertForks, DropAllForks, dbVars
  <2> QED BY <1>2, <2>1
<1>8. ASSUME NEW r \in Requests, DropFork(r) \/ CountForks(r) PROVE SpareInv'
  <2>1. (Done(r) \/ Stage(r, "dropped") \/ Stage(r, "alone")) /\ UNCHANGED <<msgs, nextSeq>>
    BY <1>8 DEF DropFork, CountForks, dbVars
  <2> QED BY <1>2, <1>3, <2>1
<1>9. ASSUME NEW r \in Requests, NEW u \in Users, NEW f \in Forks \cup {NoFork},
             OpenRetry(r, u, f) \/ OpenEdit(r, u, f)
      PROVE  SpareInv'
  BY <1>9, OpenRetrySpares, OpenEditSpares
<1>10. ASSUME NEW r \in Requests,
              LoadTarget(r) \/ ApplyRegeneration(r) \/ Save(r) \/ Prune(r)
       PROVE  SpareInv'
  BY <1>10, LoadTargetSpares, ApplyRegenerationSpares, SaveSpares, PruneSpares
<1> QED BY <1>4, <1>5, <1>6, <1>7, <1>8, <1>9, <1>10, OpenSpares DEF Next

\* However the fork grows or shrinks while a retry or an edit waits for its
\* answers: it deletes no message of another user.
THEOREM RegenerationAlwaysSparesOthers == Spec => []RegenerationSparesOthers
<1>1. Init => SpareInv
  BY IdleSpares, InitIInv DEF Init, SpareInv
<1>2. IInv /\ IInv' /\ SpareInv /\ [Next]_vars => SpareInv' BY SpareStep
<1>3. SpareInv => RegenerationSparesOthers
  BY OfMsgs DEF SpareInv, Spares, RegenerationSparesOthers, Applied
<1> QED BY <1>1, <1>2, <1>3, AlwaysIInv, PTL DEF Spec

=============================================================================
