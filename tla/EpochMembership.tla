-------------------------- MODULE EpochMembership --------------------------
(***************************************************************************)
(* Membership and epoch keys of one conversation.                          *)
(*                                                                         *)
(* Every epoch of a conversation has a private key.  A row of the          *)
(* epoch_members table (a wrap) is that key encrypted for one member, and  *)
(* every epoch but the first carries a chain link: the key of the epoch    *)
(* before it, encrypted under its own.  Whoever opens a wrap can therefore *)
(* walk back, and a member leaves, or joins without history, by a rotation *)
(* to a new epoch whose wraps exclude (or start with) that member.         *)
(*                                                                         *)
(* Requests are Hono handlers on concurrent workers.  Each has three       *)
(* points at which it sees the database: the client reads the member keys  *)
(* and sends (Send), the middleware and gates read outside any transaction *)
(* (Gate), and the transaction commits.  A transaction that rotates has a  *)
(* point of its own between the validation of the wraps and the commit     *)
(* (Begin, Commit): it holds the lock of the conversations row there, which *)
(* stops the other rotations, createLink and deletion, but not the         *)
(* handlers that only touch conversation_members and epoch_members.        *)
(*                                                                         *)
(* A principal stands for its public key: a user's account key or the key  *)
(* derived from a link's secret.                                           *)
(***************************************************************************)
EXTENDS Privileges, FiniteSets

CONSTANTS
    Users,       \* accounts
    Links,       \* shared links, one key pair each, never reused
    Owner,       \* the account that created the conversation
    Requests,    \* requests in flight at once
    Grantable,   \* the levels the client offers for a new or changed member
    Handlers,    \* the handlers this instance exercises
    MaxEpoch,    \* bound: the last epoch a rotation may create
    MaxRows,     \* bound: conversation_members rows of one user
    MaxMembers,  \* MAX_CONVERSATION_MEMBERS
    None         \* no principal

ASSUME PrincipalsAssumption ==
    /\ Owner \in Users
    /\ Users \cap Links = {}
    /\ None \notin Users \cup Links
ASSUME LevelsAssumption == Grantable \subseteq Read..Admin
ASSUME HandlersAssumption ==
    Handlers \subseteq {"addFull", "addFresh", "remove", "leave", "linkFull", "linkFresh",
                        "revoke", "privilege", "accept", "decline", "deleteAccount",
                        "rename", "delete"}
ASSUME BoundsAssumption ==
    /\ MaxEpoch \in Nat \ {0}
    /\ MaxRows \in Nat
    /\ MaxMembers \in Nat
ASSUME FiniteAssumption ==
    /\ IsFiniteSet(Users)
    /\ IsFiniteSet(Links)
    /\ IsFiniteSet(Requests)
ASSUME RoomAssumption == MaxMembers > 0 /\ Requests # {}

Principals == Users \cup Links
Epochs     == 1..MaxEpoch

VARIABLES
    (* the database *)
    exists,        \* the conversations row exists
    currentEpoch,  \* conversations.current_epoch
    titleEpoch,    \* conversations.title_epoch_number
    wraps,         \* epoch_members: [epoch, who, key, from]
    member,        \* the latest conversation_members row of each principal
    revoked,       \* links with shared_links.revoked_at set
    accounts,      \* rows of users
    (* the clients: epoch-key-cache.ts *)
    held,          \* the epoch a client takes for current and holds the key of
    (* the workers *)
    req,
    (* history *)
    gone,          \* the epoch made by the rotation that removed a principal
    floor,         \* the epoch that began when a principal last joined
    raced          \* members added while a rotation was open or with a key the
                   \* epoch had moved past, until a rotation grants them theirs

dbVars      == <<exists, currentEpoch, titleEpoch, wraps, member, revoked, accounts>>
historyVars == <<gone, floor, raced>>
vars        == <<dbVars, held, req, historyVars>>

-----------------------------------------------------------------------------
(* Types *)

Wrap == [epoch : Nat, who : Principals, key : Nat, from : Nat]

\* The row number tells apart the memberships of a user who left and came back.
Member == [row : Nat, active : BOOLEAN, accepted : BOOLEAN,
           level : PrivilegeLevels, from : Nat]

NoMember == [row |-> 0, active |-> FALSE, accepted |-> FALSE,
             level |-> Read, from |-> 0]

RotatingOps == {"addFresh", "remove", "leave", "linkFresh", "revoke"}
JoinOps     == {"addFull", "addFresh", "linkFull", "linkFresh"}
KeyOps      == RotatingOps \cup JoinOps
Ops         == KeyOps \cup {"privilege"}

Grant == [who : Principals, from : Nat]

Request == [stage    : {"idle", "sent", "gated", "locked"},
            op       : Ops \cup {"none"},
            actor    : Users \cup {None},
            target   : Principals \cup {None},
            row      : Nat,                 \* the memberId a gate or a body names
            expected : Nat,                 \* the epoch the client holds the key of
            provided : SUBSET Principals,   \* the keys in rotation.memberWraps
            level    : PrivilegeLevels,
            seen     : Nat,                 \* the current epoch a gate read
            grants   : SUBSET Grant]        \* wraps of a validated rotation

IdleRequest == [stage |-> "idle", op |-> "none", actor |-> None, target |-> None,
                row |-> 0, expected |-> 0, provided |-> {}, level |-> Read,
                seen |-> 0, grants |-> {}]

-----------------------------------------------------------------------------
(* Helper state formulae *)

Active == {p \in Principals : member[p].active}

\* The row left_at is set on; what the row held no longer matters.
Departed(p) == [NoMember EXCEPT !.row = member[p].row]

Joined(p, level, from) ==
    [row |-> member[p].row + 1, active |-> TRUE, accepted |-> p \in Links,
     level |-> level, from |-> from]

\* visibleFromEpoch of a new member: all of the history, or from the epoch
\* that the request's own rotation is to create.
VisibleFromPrevious(q) == IF q.op \in {"addFull", "linkFull"} THEN 1 ELSE q.expected
VisibleFrom(q) == IF q.op \in {"addFull", "linkFull"} THEN 1 ELSE q.expected + 1

\* The members whose rows a rotating transaction closes and opens.
Departing(q) ==
    {p \in {q.target} : \/ q.op \in {"remove", "leave"} /\ member[p].row = q.row
                        \/ q.op = "revoke"}
Arriving(q) == {p \in {q.target} : q.op \in {"addFresh", "linkFresh"}}

LockFree     == \A r \in Requests : req[r].stage # "locked"
RowLocked(p) == \E r \in Requests : /\ req[r].stage = "locked"
                                    /\ p \in Departing(req[r]) \cup Arriving(req[r])

\* The key share lock an inserted member takes on its conversation passes the
\* lock of a rotation's UPDATE and waits for the SELECT ... FOR UPDATE of createLink.
MayShare == \A r \in Requests :
                ~(req[r].stage = "locked" /\ req[r].op = "linkFresh")

\* The epochs whose keys a reader gets out of its key chain response.
\* assembleKeyChain drops the wraps below the lowest visibleFromEpoch of the
\* reader's rows and the chain links at or below it; the client keeps an unwrapped
\* key only when it matches the confirmation hash of its epoch, then walks the
\* chain links down.
RowsOf(p) == {w \in wraps : w.who = p}
Served(p) ==
    LET rows == RowsOf(p)
    IN  {e \in 1..currentEpoch : /\ \E w \in rows : w.from <= e
                                 /\ \E w \in rows : w.key = w.epoch /\ e <= w.epoch}

-----------------------------------------------------------------------------
(* Initial state: createOrGetConversation has just run. *)

Init ==
    /\ exists = TRUE
    /\ currentEpoch = 1
    /\ titleEpoch = 1
    /\ wraps = {[epoch |-> 1, who |-> Owner, key |-> 1, from |-> 1]}
    /\ member = [p \in Principals |->
                    IF p = Owner
                    THEN [row |-> 1, active |-> TRUE, accepted |-> TRUE,
                          level |-> OwnerLevel, from |-> 1]
                    ELSE NoMember]
    /\ revoked = {}
    /\ accounts = Users
    /\ held = [u \in Users |-> IF u = Owner THEN 1 ELSE 0]
    /\ req = [r \in Requests |-> IdleRequest]
    /\ gone = [p \in Principals |-> 0]
    /\ floor = [p \in Principals |-> IF p = Owner THEN 1 ELSE 0]
    /\ raced = {}

-----------------------------------------------------------------------------
(* The client *)

\* A client fetches its key chain (GET /keys/:id, POST /keys/batch) and
\* processes it.  Both queries find rows by the public key alone.  The client
\* takes the current epoch from the response; 0 stands for a client that has
\* not fetched or could not open the key of the epoch it takes for current.
FetchKeys(u) ==
    /\ exists
    /\ u \in accounts
    /\ RowsOf(u) # {}
    /\ held' = [held EXCEPT ![u] = IF currentEpoch \in Served(u) \cup {@}
                                   THEN currentEpoch ELSE 0]
    /\ UNCHANGED <<dbVars, req, historyVars>>

\* The public keys the client wraps a new epoch key for: those of the members
\* it has just fetched, with the one who leaves left out or the one who joins
\* put in.
KeySet(op, t) ==
    CASE op \in {"remove", "leave", "revoke"} -> Active \ {t}
      [] op \in {"addFresh", "linkFresh"}     -> Active \cup {t}
      [] OTHER                                -> {}

\* The targets the group chat screen offers an actor.
Offered(op, a, t) ==
    CASE op \in {"addFull", "addFresh"} ->
            /\ t \in accounts \ Active
            /\ member[t].row < MaxRows
      [] op \in {"linkFull", "linkFresh"} ->
            /\ t \in Links
            /\ member[t].row = 0
            /\ \A r \in Requests : req[r].target # t
      [] op = "remove"    -> t \in Active \ {a}
      [] op = "leave"     -> t = a /\ a # Owner
      [] op = "revoke"    -> t \in (Links \ revoked) /\ member[t].row > 0
      [] op = "privilege" -> t \in (Active \cap Users) \ {a}

\* A link is offered read or write only.
LevelsOffered(op) ==
    CASE op \in {"addFull", "addFresh", "privilege"} -> Grantable
      [] op \in {"linkFull", "linkFresh"}            -> Grantable \ {Admin}
      [] OTHER                                       -> {Read}

Send(r, op, a, t, level) ==
    /\ op \in Handlers
    /\ exists
    /\ req[r].stage = "idle"
    /\ a \in accounts \cap Active
    /\ op \in KeyOps => held[a] # 0
    /\ op \in RotatingOps => currentEpoch < MaxEpoch
    /\ Offered(op, a, t)
    /\ req' = [req EXCEPT ![r] =
                  [IdleRequest EXCEPT
                      !.stage = "sent", !.op = op, !.actor = a, !.target = t,
                      !.row = IF op \in {"remove", "privilege"} THEN member[t].row ELSE 0,
                      !.expected = IF op \in KeyOps THEN held[a] ELSE 0,
                      !.provided = KeySet(op, t),
                      !.level = level]]
    /\ UNCHANGED <<dbVars, held, historyVars>>

-----------------------------------------------------------------------------
(* Middleware and gates: reads outside the transaction *)

MinLevel(op) == IF op = "leave" THEN Read ELSE Admin

HasRoomForOneMore == Cardinality(Active) <= MaxMembers
HasRoom == Cardinality(Active) < MaxMembers

\* requirePrivilege followed by the handler's own checks.
GatePasses(q) ==
    /\ q.actor \in accounts \cap Active
    /\ member[q.actor].level >= MinLevel(q.op)
    /\ CASE q.op \in {"addFull", "addFresh"} ->
              /\ q.target \in accounts
              /\ HasRoom
         [] q.op \in {"linkFull", "linkFresh"} ->
              HasRoom
         [] q.op = "remove" ->
              /\ member[q.target].active
              /\ member[q.target].row = q.row
              /\ member[q.target].level # OwnerLevel
              /\ CanRemoveMember(member[q.actor].level, member[q.target].level)
         [] q.op = "privilege" ->
              /\ member[q.target].active
              /\ member[q.target].row = q.row
              /\ CanChangePrivilege(member[q.actor].level,
                                    member[q.target].level, q.level)
         [] OTHER -> TRUE

Gate(r) ==
    /\ req[r].stage = "sent"
    /\ GatePasses(req[r])
    /\ req' = [req EXCEPT
                  ![r].stage = "gated",
                  ![r].seen = IF req[r].op \in JoinOps THEN currentEpoch ELSE 0,
                  ![r].row = IF req[r].op = "leave" THEN member[req[r].actor].row ELSE @]
    /\ UNCHANGED <<dbVars, held, historyVars>>

\* A request ends: it was answered or refused, or the worker died and the open
\* transaction rolled back.
FinishDone(r) == req' = [req EXCEPT ![r].stage = "done"]
Finish(r) == req' = [req EXCEPT ![r] = IdleRequest]

GateRefuses(r) ==
    /\ req[r].stage = "sent"
    /\ ~GatePasses(req[r])
    /\ Finish(r)
    /\ UNCHANGED <<dbVars, held, historyVars>>

Lost(r) ==
    /\ req[r].stage # "idle"
    /\ Finish(r)
    /\ UNCHANGED <<dbVars, held, historyVars>>

-----------------------------------------------------------------------------
(* Transactions that do not rotate *)

\* A wrap of the key the client holds, stored under the epoch the gate read.
NewWrap(q) == [epoch |-> q.seen, who |-> q.target, key |-> q.expected,
               from |-> VisibleFrom(q)]

\* The member and its wrap are inserted; the history records a wrap of a key that
\* is not the current one, and an invitation that overtakes an open rotation.
InsertWithWrap(q) ==
    /\ member' = [member EXCEPT ![q.target] = Joined(q.target, q.level, VisibleFrom(q))]
    /\ wraps' = wraps \cup {NewWrap(q)}
    /\ gone' = [gone EXCEPT ![q.target] = 0]
    /\ floor' = [floor EXCEPT ![q.target] = 1]
    /\ raced' = IF q.expected = currentEpoch /\ (q.op = "addFull" => LockFree)
                THEN raced
                ELSE raced \cup {q.target}

\* onConflictDoNothing on the active row, the unique (epoch, key) index and the
\* foreign keys to the invited and the inviting user.
MayJoin(q)   == {q.actor, q.target} \subseteq accounts /\ ~member[q.target].active
MayInsert(q) ==
    /\ MayJoin(q)
    /\ \A w \in wraps : ~(w.epoch = q.seen /\ w.who = q.target)

\* runMemberInsertion with full history: nothing here looks at current_epoch.
AddFull(r) ==
    /\ req[r].stage = "gated"
    /\ req[r].op = "addFull"
    /\ MayShare
    /\ ~RowLocked(req[r].target)
    /\ MayInsert(req[r])
    /\ InsertWithWrap(req[r])
    /\ Finish(r)
    /\ UNCHANGED <<exists, currentEpoch, titleEpoch, revoked, accounts, held>>

\* createLink with full history: SELECT ... FOR UPDATE, then the epoch the route
\* read must still be the current one.
LinkFull(r) ==
    /\ req[r].stage = "gated"
    /\ req[r].op = "linkFull"
    /\ LockFree
    /\ req[r].seen = currentEpoch
    /\ InsertWithWrap(req[r])
    /\ Finish(r)
    /\ UNCHANGED <<exists, currentEpoch, titleEpoch, revoked, accounts, held>>

\* UPDATE ... SET privilege WHERE id: the row the gate saw, left or not.
ChangePrivilege(r) ==
    LET q == req[r] IN
    /\ q.stage = "gated"
    /\ q.op = "privilege"
    /\ ~RowLocked(q.target)
    /\ member' = IF member[q.target].active /\ member[q.target].row = q.row
                 THEN [member EXCEPT ![q.target].level = q.level]
                 ELSE member
    /\ Finish(r)
    /\ UNCHANGED <<exists, currentEpoch, titleEpoch, wraps, revoked, accounts,
                   held, historyVars>>

\* revokeLink of a link whose member was removed before: no rotation.
IsBare(q) ==
    /\ q.op = "revoke"
    /\ q.target \notin revoked
    /\ ~member[q.target].active

RevokeBare(r) ==
    LET q == req[r] IN
    /\ q.stage = "gated"
    /\ IsBare(q)
    /\ ~RowLocked(q.target)
    /\ revoked' = revoked \cup {q.target}
    /\ Finish(r)
    /\ UNCHANGED <<exists, currentEpoch, titleEpoch, wraps, member, accounts,
                   held, historyVars>>

-----------------------------------------------------------------------------
(* Transactions that rotate: submitRotation and what each caller does first *)

\* The caller's own writes would go through.
CallerProceeds(q) ==
    CASE q.op = "addFresh"  -> MayJoin(q)
      [] q.op = "linkFresh" -> q.seen = currentEpoch
      [] q.op = "revoke"    -> q.target \notin revoked /\ member[q.target].active
      [] OTHER              -> TRUE

\* validateWrapSet: the members active inside the transaction, and no others.
Remaining(q) == (Active \ Departing(q)) \cup Arriving(q)

RotationUnvalidated(q) == CallerProceeds(q) /\ q.expected = currentEpoch

\* Step 1, the conditional UPDATE of current_epoch, and the validation.
RotationAccepted(q) ==
    /\ CallerProceeds(q)
    /\ q.expected = currentEpoch
    /\ q.provided = Remaining(q)

GrantsToDeparting(q) ==
    {[who |-> p, from |-> IF p \in Arriving(q) THEN VisibleFrom(q) ELSE member[p].from] :
        p \in q.provided \cup Departing(q)}

\* (Every wrap is visible from its own epoch on.)
GrantsOfNow(q) == {[who |-> p, from |-> q.expected + 1] : p \in q.provided}

\* The wraps carry the visibleFromEpoch the server reads, not one it is sent.
GrantsOf(q) ==
    {[who |-> p, from |-> IF p \in Arriving(q) THEN VisibleFrom(q) ELSE member[p].from] :
        p \in q.provided}

Begin(r) ==
    /\ req[r].stage = "gated"
    /\ req[r].op \in RotatingOps
    /\ LockFree
    /\ RotationAccepted(req[r])
    /\ req' = [req EXCEPT ![r].stage = "locked", ![r].grants = GrantsOf(req[r])]
    /\ UNCHANGED <<dbVars, held, historyVars>>

\* Steps 3 and 4, the deletion of the old epoch's wraps and the new title.
RotatedWraps(q) ==
    {w \in wraps : w.epoch # q.expected} \cup
    {[epoch |-> q.expected + 1, who |-> g.who, key |-> q.expected + 1,
      from |-> g.from] : g \in q.grants}

\* Whether the response arrives decides whether the client caches the key.
Commit(r) ==
    LET q == req[r]
        n == q.expected + 1
    IN  /\ q.stage = "locked"
        /\ currentEpoch' = n
        /\ titleEpoch' = n
        /\ wraps' = RotatedWraps(q)
        /\ member' = [p \in Principals |->
                        IF p \in Departing(q) THEN Departed(p)
                        ELSE IF p \in Arriving(q)
                             THEN Joined(p, q.level, VisibleFrom(q))
                             ELSE member[p]]
        /\ revoked' = IF q.op = "revoke" THEN revoked \cup {q.target} ELSE revoked
        /\ gone' = [p \in Principals |-> IF p \in Departing(q) THEN n
                                         ELSE IF p \in Arriving(q) THEN 0 ELSE gone[p]]
        /\ floor' = [p \in Principals |-> IF p \in Arriving(q) THEN n ELSE floor[p]]
        /\ raced' = {p \in raced \ Departing(q) :
                       [who |-> p, from |-> member[p].from] \notin q.grants}
        /\ \/ UNCHANGED held
           \/ held' = [held EXCEPT ![q.actor] = n]
        /\ Finish(r)
        /\ UNCHANGED <<exists, accounts>>

\* A gated transaction that the database refuses: ALREADY_MEMBER, a unique or
\* foreign key violation, STALE_EPOCH, WRAP_SET_MISMATCH, LINK_NOT_FOUND.
Refuses(r) ==
    LET q == req[r] IN
    /\ q.stage = "gated"
    /\ \/ q.op = "addFull"  /\ MayShare /\ ~RowLocked(q.target) /\ ~MayInsert(q)
       \/ q.op = "linkFull" /\ LockFree /\ q.seen # currentEpoch
       \/ /\ q.op \in RotatingOps
          /\ LockFree
          /\ ~RotationAccepted(q)
          /\ ~IsBare(q)
    /\ Finish(r)
    /\ UNCHANGED <<dbVars, held, historyVars>>

-----------------------------------------------------------------------------
(* One-statement handlers *)

Accept(u) ==
    /\ "accept" \in Handlers
    /\ exists
    /\ u \in accounts
    /\ member[u].active
    /\ ~RowLocked(u)
    /\ member' = [member EXCEPT ![u].accepted = TRUE]
    /\ UNCHANGED <<exists, currentEpoch, titleEpoch, wraps, revoked, accounts,
                   held, req, historyVars>>

\* A pending invitation is turned down: left_at is set, nothing rotates.
Decline(u) ==
    /\ "decline" \in Handlers
    /\ exists
    /\ u \in accounts
    /\ member[u].active
    /\ ~member[u].accepted
    /\ ~RowLocked(u)
    /\ member' = [member EXCEPT ![u] = Departed(u)]
    /\ raced' = raced \ {u}
    /\ UNCHANGED <<exists, currentEpoch, titleEpoch, wraps, revoked, accounts,
                   held, req, gone, floor>>

\* The account deletion saga of a user who does not own this conversation:
\* every membership is closed and the users row deleted, nothing rotates.
DeleteAccount(u) ==
    /\ "deleteAccount" \in Handlers
    /\ exists
    /\ u \in accounts \ {Owner}
    /\ ~RowLocked(u)
    /\ \A r \in Requests :
          ~(req[r].stage = "locked" /\ req[r].op = "addFresh" /\ req[r].actor = u)
    /\ accounts' = accounts \ {u}
    /\ member' = [member EXCEPT ![u] = IF member[u].active THEN Departed(u) ELSE @]
    /\ raced' = raced \ {u}
    /\ held' = [held EXCEPT ![u] = 0]
    /\ UNCHANGED <<exists, currentEpoch, titleEpoch, wraps, revoked, req,
                   gone, floor>>

\* The owner renames the conversation under the epoch its client last saw.
Rename ==
    /\ "rename" \in Handlers
    /\ exists
    /\ held[Owner] # 0
    /\ LockFree
    /\ titleEpoch' = held[Owner]
    /\ UNCHANGED <<exists, currentEpoch, wraps, member, revoked, accounts,
                   held, req, historyVars>>

\* The owner leaves, deletes the conversation or deletes the account: every row
\* of the conversation cascades.  A request still in flight can only fail, so
\* its failure is part of the step.
Delete ==
    /\ "delete" \in Handlers
    /\ exists
    /\ LockFree
    /\ exists' = FALSE
    /\ currentEpoch' = 0
    /\ titleEpoch' = 0
    /\ wraps' = {}
    /\ member' = [p \in Principals |-> NoMember]
    /\ revoked' = {}
    /\ gone' = [p \in Principals |-> 0]
    /\ floor' = [p \in Principals |-> 0]
    /\ raced' = {}
    /\ req' = [r \in Requests |-> IdleRequest]
    /\ UNCHANGED <<accounts, held>>

-----------------------------------------------------------------------------

Client ==
    \/ \E u \in Users : FetchKeys(u)
    \/ \E r \in Requests, op \in Ops, a \in Users, t \in Principals :
          \E level \in LevelsOffered(op) : Send(r, op, a, t, level)
    \/ \E u \in Users : Accept(u) \/ Decline(u) \/ DeleteAccount(u)
    \/ Rename
    \/ Delete

Server(r) ==
    \/ Gate(r) \/ GateRefuses(r)
    \/ AddFull(r) \/ LinkFull(r) \/ ChangePrivilege(r) \/ RevokeBare(r)
    \/ Begin(r) \/ Commit(r) \/ Refuses(r)

Next == Client \/ \E r \in Requests : Server(r) \/ Lost(r)

Spec == Init /\ [][Next]_vars

-----------------------------------------------------------------------------
(* Properties *)

\* Every variable has its type.
TypeOK ==
    /\ exists \in BOOLEAN
    /\ currentEpoch \in Nat
    /\ titleEpoch \in Nat
    /\ wraps \subseteq Wrap
    /\ member \in [Principals -> Member]
    /\ revoked \subseteq Links
    /\ accounts \subseteq Users
    /\ held \in [Users -> Nat]
    /\ req \in [Requests -> Request]
    /\ gone \in [Principals -> Nat]
    /\ floor \in [Principals -> Nat]
    /\ raced \subseteq Principals

\* Key availability: every active member has a wrap of the current epoch that
\* opens with the current epoch's key and carries the member's own visibility,
\* whatever rotations, invitations and departures overlap.  A member added with
\* full history behind the back of a rotation is left out until a rotation that
\* read its row grants it a wrap.
MembersHoldCurrentKey ==
    exists => \A p \in Active \ raced :
                 [epoch |-> currentEpoch, who |-> p, key |-> currentEpoch,
                  from |-> member[p].from] \in wraps

\* Forward secrecy: whatever a principal is served, at any time after a rotation
\* removed it and before it is added again, belongs to an epoch that was over
\* when that rotation committed.
ForwardSecrecy ==
    \A p \in Principals : gone[p] # 0 => \A e \in Served(p) : e < gone[p]

\* A member who joined without history is served no key of an earlier epoch,
\* as long as no wrap of an epoch that is over is left for it.
HistoryFloor ==
    \A p \in Active :
        (\A w \in RowsOf(p) : w.epoch = currentEpoch)
            => \A e \in Served(p) : e >= floor[p]

\* The owner is an active member with the owner's level for as long as the
\* conversation exists, can never decline it, and is never among those a race
\* left without a key.
OwnerStays ==
    exists => /\ member[Owner].active
              /\ member[Owner].accepted
              /\ member[Owner].level = OwnerLevel
              /\ Owner \notin raced

\* The member limit is checked before the transaction: concurrent additions can
\* pass it by one less than their number, never by more.
MemberLimitOvershoot == Cardinality(Active) <= MaxMembers + Cardinality(Requests) - 1

\* What those in the conversation may rely on: the behaviour is one of KeyAccess,
\* so a rotation takes no epoch from a member who stays and gives none to anybody
\* it shuts out, and nothing but a rotation or an addition lets anybody read more,
\* whatever requests overlap.
Access == INSTANCE KeyAccess WITH
    epoch    <- currentEpoch,
    members  <- Active \ raced,
    removed  <- {p \in Principals : gone[p] # 0},
    readable <- [p \in Principals |-> Served(p)]

AccessKept == Access!Spec

-----------------------------------------------------------------------------
(* What the documentation and the tests claim and the code does not do *)

\* "Upon epoch rotation, all remaining members can still see old messages": a
\* rotation takes the key from no member who stays.
CanOpenCurrent(p) == \E w \in wraps : w.epoch = currentEpoch /\ w.who = p /\ w.key = w.epoch

RotationKeepsMembers ==
    [][\A p \in Principals :
          (exists' /\ p \in Active /\ CanOpenCurrent(p) /\ member[p].row = member'[p].row
              /\ member'[p].active)
            => CanOpenCurrent(p)']_vars

\* "unauthorized ids never appear in `keys`" (routes/keys.ts): the batch
\* endpoint serves key chains of a conversation to its members only.
KeysForMembersOnly ==
    \A u \in accounts : RowsOf(u) # {} => member[u].active

\* "When a member is removed, they must lose the ability to decrypt future
\* messages": after the rotation that made a member leave, its client holds no
\* key of the epoch that rotation began.
LeaverLacksNextKey ==
    \A u \in Users : gone[u] # 0 => held[u] < gone[u]

\* "no-history auth user cannot derive previous epoch key via chain links"
NoHistoryBeforeJoining ==
    \A p \in Active : \A e \in Served(p) : e >= floor[p]

\* "new member can decrypt re-encrypted title"
TitleReadable ==
    exists => \A p \in Active \ raced : member[p].from <= titleEpoch
=============================================================================
