----------------------------- MODULE ChatTurns -----------------------------
(***************************************************************************)
(* The message tree of one conversation, its forks, and the chat turns     *)
(* that graft onto them.                                                   *)
(*                                                                         *)
(* A message names its parent, and nothing else keeps the tree together:   *)
(* parent_message_id has no foreign key, so a deleted parent leaves its    *)
(* children with a name that leads nowhere.  A fork is a named pointer to  *)
(* its last message (the tip), which a deletion of that message sets to    *)
(* NULL.  With no fork rows the conversation is linear: every message is   *)
(* shown, in the order of their sequence numbers.                          *)
(*                                                                         *)
(* A turn reads what it grafts onto (Open), runs its inference for as long *)
(* as that takes, and then saves itself in one READ COMMITTED transaction. *)
(* That transaction has two points here: the tree action, which validates  *)
(* the parent or locks the fork and picks the messages to delete (Apply),  *)
(* and the rest, which runs under the lock of the conversations row that   *)
(* hands out sequence numbers (Save).  An edit has one more before: it     *)
(* looks its target up and then waits for the lock (LoadTarget).  Creating *)
(* and deleting a fork are sequences of statements that each commit on     *)
(* their own.                                                              *)
(*                                                                         *)
(* A message is named by its sequence number: they are handed out once and *)
(* in the order of the commits.  Its id comes from the client, which is    *)
(* taken to choose one that was never used.                                *)
(***************************************************************************)
EXTENDS Naturals, FiniteSets

CONSTANTS
    Users,      \* members who may write
    Requests,   \* requests in flight at once
    ForkIds,    \* bound: the forks that are ever created
    NoFork,     \* a request that names no fork
    NoUser,     \* the sender of an answer, and who an idle worker serves
    Operations, \* the operations this instance exercises
    MaxSeq,     \* bound: messages ever saved; no request begins without room for its own
    MaxSlots,   \* bound: models of one turn
    MaxForks    \* MAX_FORKS_PER_CONVERSATION

ASSUME NamesAssumption == NoFork \notin ForkIds /\ NoUser \notin Users
ASSUME OperationsAssumption ==
    Operations \subseteq {"send", "note", "retry", "replace", "edit", "fork", "rename", "unfork"}
ASSUME BoundsAssumption ==
    /\ MaxSeq \in Nat
    /\ MaxSlots \in Nat \ {0}
    /\ MaxForks \in Nat

VARIABLES
    msgs,     \* the messages rows, by sequence number
    nextSeq,  \* conversations.next_sequence
    forks,    \* the conversation_forks rows
    created,  \* fork ids that were ever used
    req       \* the workers

dbVars == <<msgs, nextSeq, forks, created>>
vars   == <<dbVars, req>>

-----------------------------------------------------------------------------
(* Types; 0 is NULL. *)

Seqs  == 1..MaxSeq
Refs  == 0..MaxSeq

Message == [parent : Refs, role : {"user", "ai"}, sender : Users \cup {NoUser}, turn : Seqs]
Fork    == [tip : Refs, main : BOOLEAN]  \* main: it has the name Main

Regenerations == {"retry", "replace", "edit"}
Turns         == Regenerations \cup {"send", "note"}

Request == [stage   : {"idle", "open", "loaded", "applied", "read", "pruned", "dropped", "alone"},
            op      : Operations \cup {"none"},
            user    : Users \cup {NoUser},
            fork    : ForkIds \cup {NoFork},
            target  : Refs,         \* the anchor, or the message to fork from
            replace : Refs,         \* replaceAssistantId
            parent  : Refs,         \* the parent of the user message
            tip     : Refs,         \* the fork's tip as the gate read it
            first   : BOOLEAN,      \* createFork found no fork
            dels    : SUBSET Seqs]  \* messages the transaction deletes

IdleRequest == [stage |-> "idle", op |-> "none", user |-> NoUser, fork |-> NoFork,
                target |-> 0, replace |-> 0, parent |-> 0, tip |-> 0,
                first |-> FALSE, dels |-> {}]

-----------------------------------------------------------------------------
(* The tree *)

Rows  == DOMAIN msgs
Forks == DOMAIN forks

IsLatest(m) == \A n \in Rows : n <= m
Latest == IF \E m \in Rows : IsLatest(m) THEN CHOOSE m \in Rows : IsLatest(m) ELSE 0

\* The walk from a message to the root, or to the first parent that is gone.
Chain(m) ==
    LET walk[n \in Refs] ==
            IF n \notin Rows THEN {}
            ELSE {n} \cup (IF msgs[n].parent < n THEN walk[msgs[n].parent] ELSE {})
    IN  walk[m]

\* The walk that stops before the anchor, if it comes by the anchor.
Between(tip, anchor) ==
    IF anchor \in Chain(tip) THEN Chain(tip) \ Chain(anchor) ELSE Chain(tip)

ChildrenOf(m) == {n \in Rows : msgs[n].parent = m}

\* findExclusiveCandidates: those without a child outside the candidates.
Exclusive(candidates) == {m \in candidates \cap Rows : ChildrenOf(m) \subseteq candidates}

\* What the client shows of a fork: the walk from its tip, the answers of the
\* other models of the same turns, and user messages beside the walk with
\* nothing below them that is not on it.  A fork without a tip shows everything.
View(f) ==
    IF f \notin Forks \/ forks[f].tip = 0 THEN Rows
    ELSE LET walk == Chain(forks[f].tip)
             Beside(s, m) == /\ msgs[s].parent = msgs[m].parent
                             /\ IF msgs[s].role = "ai"
                                THEN msgs[s].turn = msgs[m].turn
                                ELSE ChildrenOf(s) \subseteq walk
         IN  {s \in Rows : s \in walk \/ \E m \in walk : Beside(s, m)}

OfOthers(u) == {m \in Rows : msgs[m].role = "user" /\ msgs[m].sender \notin {u, NoUser}}

-----------------------------------------------------------------------------
(* Locks held by open transactions *)

Applied == {r \in Requests : req[r].stage = "applied"}

\* SELECT ... FOR UPDATE of a regeneration's fork.
Locks(r, f) == /\ r \in Applied
               /\ req[r].op \in Regenerations
               /\ req[r].fork = f

\* The fork rows whose tip is set to NULL by a deletion.
Cascades(r, f) == /\ r \in Applied
                  /\ f \in Forks
                  /\ forks[f].tip \in req[r].dels

LockedBeside(r, f) == \E q \in Requests \ {r} : Locks(q, f)
HeldBeside(r, f)   == \E q \in Requests \ {r} : Locks(q, f) \/ Cascades(q, f)

\* Rows that an open transaction has deleted, and the same for a set of rows:
\* a second deletion of them, or a reference to them, waits for its end.
Doomed(r)      == UNION {req[q].dels : q \in Applied \ {r}}
MayDelete(r, ms) == /\ ms \cap Doomed(r) = {}
                    /\ \A f \in Forks : forks[f].tip \in ms => ~LockedBeside(r, f)

\* A fork may be named Main unless another one is.
MayBeMain(f) == \A g \in Forks \ {f} : ~forks[g].main

Tips(f) == IF f \in Forks THEN forks[f].tip ELSE 0

WithoutTips(fs, gone) ==
    [f \in DOMAIN fs |-> IF fs[f].tip \in gone THEN [fs[f] EXCEPT !.tip = 0] ELSE fs[f]]

Init ==
    /\ msgs    = << >>
    /\ nextSeq = 1
    /\ forks   = << >>
    /\ created = {}
    /\ req     = [r \in Requests |-> IdleRequest]

-----------------------------------------------------------------------------
(* A request begins: what the route reads before inference *)

MayBegin(r) == req[r].stage = "idle" /\ nextSeq <= MaxSeq

Begin(r, q) ==
    /\ MayBegin(r)
    /\ q.op \in {"send", "edit"} => nextSeq < MaxSeq
    /\ q.op \in Operations
    /\ req' = [req EXCEPT ![r] = q]
    /\ UNCHANGED dbVars

Stage(r, stage) == req' = [req EXCEPT ![r].stage = stage]
Done(r)         == req' = [req EXCEPT ![r] = IdleRequest]

\* resolveParentMessageId: a fork's tip, or the newest message.  The client may
\* still name a fork that is gone.
ParentFor(f) == IF f = NoFork THEN Latest ELSE Tips(f)

OpenSend(r, u, f) ==
    Begin(r, [IdleRequest EXCEPT !.stage = "open", !.op = "send", !.user = u,
                                 !.fork = f, !.parent = ParentFor(f)])

\* A user message without an answer never names a fork.
OpenNote(r, u) ==
    Begin(r, [IdleRequest EXCEPT !.stage = "open", !.op = "note", !.user = u,
                                 !.parent = ParentFor(NoFork)])

\* What the client lets u act on: not another user's message.  It also hides
\* what another user has written after, as far as it has seen: it may be behind,
\* so that is left to the gate.
Offered(u, f) == View(f) \ OfOthers(u)

\* canRegenerate: no message of another user between the tip and the target.
(* (The first form never refuses.) *)
GateOpen(u, f, target) == TRUE
Gate(u, f, target) ==
    /\ f \in Forks \cup {NoFork}
    /\ LET from == IF Tips(f) # 0 THEN Tips(f) ELSE Latest
       IN  Between(from, target) \cap OfOthers(u) = {}

\* A click on an answer asks for its parent; beside other answers to the same
\* message it replaces that one answer alone.
OpenRetry(r, u, f) ==
    /\ MayBegin(r)
    /\ \E m \in Offered(u, f) :
         LET target  == IF msgs[m].role = "user" THEN m ELSE msgs[m].parent
             answers == {a \in View(f) : msgs[a].role = "ai" /\ msgs[a].parent = target}
             one     == msgs[m].role = "ai" /\ Cardinality(answers) > 1
         IN  /\ Gate(u, f, target)
             /\ Begin(r, [IdleRequest EXCEPT !.stage = "open",
                             !.op = IF one THEN "replace" ELSE "retry",
                             !.user = u, !.fork = f, !.target = target,
                             !.replace = IF one THEN m ELSE 0, !.tip = Tips(f)])

OpenEdit(r, u, f) ==
    /\ MayBegin(r)
    /\ \E m \in Offered(u, f) :
         /\ msgs[m].role = "user"
         /\ Gate(u, f, m)
         /\ Begin(r, [IdleRequest EXCEPT !.stage = "open", !.op = "edit", !.user = u,
                                         !.fork = f, !.target = m, !.tip = Tips(f)])

-----------------------------------------------------------------------------
(* The tree action of the transaction *)

ParentIsValid(parent) == IF parent = 0 THEN Rows = {} ELSE parent \in Rows

ApplySend(r) ==
    /\ req[r].stage = "open"
    /\ req[r].op \in {"send", "note"}
    /\ ParentIsValid(req[r].parent)
    /\ Stage(r, "applied")
    /\ UNCHANGED dbVars

\* lockAndValidateForkTip; a fork that is gone is not locked.
LocksTip(r) ==
    LET q == req[r]
    IN  q.fork \in Forks => /\ ~HeldBeside(r, q.fork)
                            /\ forks[q.fork].tip = q.tip

\* deleteMessagesAfterAnchor; without a tip it deletes by sequence number.
After(q, anchor) ==
    IF q.tip = 0 THEN {m \in Rows : anchor \in Rows /\ m > anchor}
    ELSE IF q.tip = anchor THEN {}
    ELSE Exclusive(Between(q.tip, anchor))

\* What the transaction deletes: one answer, the messages after the anchor, or
\* those after the parent of the edited message (and it, if it is the root).
Deletes(q) ==
    CASE q.op = "replace" -> {q.replace} \cap Rows
      [] q.op = "retry"   -> After(q, q.target)
      [] q.op = "edit"    -> IF q.parent = 0 THEN After(q, q.target) \cup ({q.target} \cap Rows)
                             ELSE After(q, q.parent)

\* loadTargetParentId, before an edit waits for its fork; the target may be gone
\* by the time it has it.
LoadTarget(r) ==
    LET q == req[r]
    IN  /\ q.stage = "open"
        /\ q.op = "edit"
        /\ q.target \in Rows
        /\ req' = [req EXCEPT ![r].stage = "loaded", ![r].parent = msgs[q.target].parent]
        /\ UNCHANGED dbVars

ApplyRegeneration(r) ==
    LET q == req[r]
    IN  /\ q.op \in Regenerations
        /\ q.stage = IF q.op = "edit" THEN "loaded" ELSE "open"
        /\ LocksTip(r)
        /\ MayDelete(r, Deletes(q))
        /\ req' = [req EXCEPT ![r].stage = "applied", ![r].dels = Deletes(q)]
        /\ UNCHANGED dbVars

-----------------------------------------------------------------------------
(* The rest of the transaction, and its commit *)

WritesUser(q) == q.op \in {"send", "note", "edit"}

\* A note has no answers, and a replacement exactly one.
AnswerCounts(q) == IF q.op = "note" THEN {0}
                   ELSE IF q.op = "replace" THEN {1} ELSE 1..MaxSlots

LastSeq(q, answers) == IF WritesUser(q) THEN nextSeq + answers ELSE nextSeq + answers - 1

\* The rows a turn inserts: the user message, and the answers below it (or
\* below the anchor).  They share the batch, named by its first message.  (The
\* forms before skip a number, and swap the parents.)
InsertedBeyond(q, answers) ==
    [m \in (nextSeq + 1)..(nextSeq + answers) |->
        [parent |-> q.parent, role |-> "user", sender |-> q.user, turn |-> nextSeq]]
InsertedCrossed(q, answers) ==
    [m \in nextSeq..(nextSeq + answers) |->
        [parent |-> IF m = nextSeq THEN nextSeq + answers ELSE nextSeq,
         role |-> "ai", sender |-> NoUser, turn |-> nextSeq]]
Inserted(q, answers) ==
    [m \in nextSeq..LastSeq(q, answers) |->
        IF WritesUser(q) /\ m = nextSeq
        THEN [parent |-> q.parent, role |-> "user", sender |-> q.user, turn |-> nextSeq]
        ELSE [parent |-> IF WritesUser(q) THEN nextSeq ELSE q.target,
              role |-> "ai", sender |-> NoUser, turn |-> nextSeq]]

\* treeActionShouldAdvanceForkTip
Advances(q) == /\ q.fork # NoFork
               /\ q.op # "note"
               /\ q.op = "replace" => q.replace = q.tip

\* The tip that the update asks for: a send grafted onto it, and a regeneration
\* counts on its own deletion to have set it to NULL.
ExpectedTip(q) == IF q.op = "send" THEN q.parent ELSE 0

\* updateForkTip, and the form that does not compare.
TipUnchecked(r, fs) == ~HeldBeside(r, req[r].fork)
TipAsExpected(r, fs) == /\ ~HeldBeside(r, req[r].fork)
                        /\ fs[req[r].fork].tip = ExpectedTip(req[r])

Save(r) ==
    LET q     == req[r]
        after == WithoutTips(forks, q.dels)
        moves == Advances(q) /\ q.fork \in Forks
    IN  \E answers \in AnswerCounts(q) :
            LET new  == Inserted(q, answers)
                last == LastSeq(q, answers)
            IN  /\ q.stage = "applied"
                /\ last <= MaxSeq
                /\ moves => TipAsExpected(r, after)
                /\ msgs' = [m \in (Rows \ q.dels) \cup DOMAIN new |->
                               IF m \in DOMAIN new THEN new[m] ELSE msgs[m]]
                /\ nextSeq' = last + 1
                /\ forks' = IF moves THEN [after EXCEPT ![q.fork].tip = last] ELSE after
                /\ Done(r)
                /\ UNCHANGED created

\* A request ends with an error, or with its worker; its open transaction, if
\* it has one, is rolled back.  What createFork and deleteFork did stays done.
Drop(r) ==
    /\ req[r].stage # "idle"
    /\ Done(r)
    /\ UNCHANGED dbVars

-----------------------------------------------------------------------------
(* createFork *)

\* It reads the forks, and the newest message for Main if there are none.
OpenFork(r) ==
    \E m \in Rows :
        /\ msgs[m].role = "ai"
        /\ Cardinality(Forks) < MaxForks
        /\ Begin(r, [IdleRequest EXCEPT !.stage = "read", !.op = "fork",
                        !.target = m, !.first = (Forks = {}),
                        !.tip = IF Forks = {} THEN Latest ELSE 0])

\* A tip is a foreign key, and so must be there; Main is a unique name, which
\* the client may give as well.
InsertForks(r) ==
    LET q    == req[r]
        tips == {q.target} \cup (IF q.first THEN {q.tip} ELSE {})
    IN  /\ q.stage = "read"
        /\ q.op = "fork"
        /\ tips \subseteq Rows \ Doomed(r)
        /\ \E f \in ForkIds \ created, named \in BOOLEAN :
             \E main \in IF q.first THEN ForkIds \ (created \cup {f}) ELSE {NoFork} :
                LET new == {f} \cup (IF q.first THEN {main} ELSE {})
                IN  /\ named => ~q.first
                    /\ named \/ q.first => MayBeMain(f)
                    /\ forks' = [g \in Forks \cup new |->
                                    IF g = f THEN [tip |-> q.target, main |-> named]
                                    ELSE IF g = main THEN [tip |-> q.tip, main |-> TRUE]
                                    ELSE forks[g]]
                    /\ created' = created \cup new
        /\ Done(r)
        /\ UNCHANGED <<msgs, nextSeq>>

\* renameFork, one statement: to Main or from it.
RenameFork(f) ==
    /\ "rename" \in Operations
    /\ \A r \in Requests : ~Locks(r, f) /\ ~Cascades(r, f)
    /\ \E main \in BOOLEAN \ {forks[f].main} :
          /\ main => MayBeMain(f)
          /\ forks' = [forks EXCEPT ![f].main = main]
    /\ UNCHANGED <<msgs, nextSeq, created, req>>

-----------------------------------------------------------------------------
(* deleteFork: four statements that commit on their own *)

\* The messages on the way to the fork's tip and to no other.
OwnChain(f) == {m \in Rows : \A g \in Forks : m \in Chain(forks[g].tip) <=> g = f}

OpenUnfork(r, f) ==
    /\ f \in Forks
    /\ Begin(r, [IdleRequest EXCEPT !.stage = "read", !.op = "unfork",
                    !.fork = f, !.dels = OwnChain(f)])

Prune(r) ==
    LET gone == req[r].dels \cap Rows
    IN  /\ req[r].stage = "read"
        /\ req[r].op = "unfork"
        /\ MayDelete(r, gone)
        /\ msgs'  = [m \in Rows \ gone |-> msgs[m]]
        /\ forks' = WithoutTips(forks, gone)
        /\ Stage(r, "pruned")
        /\ UNCHANGED <<nextSeq, created>>

DropFork(r) ==
    /\ req[r].stage = "pruned"
    /\ ~HeldBeside(r, req[r].fork)
    /\ forks' = [f \in Forks \ {req[r].fork} |-> forks[f]]
    /\ Stage(r, "dropped")
    /\ UNCHANGED <<msgs, nextSeq, created>>

\* With exactly one fork left the conversation is to become linear again.
CountForks(r) ==
    /\ req[r].stage = "dropped"
    /\ IF Cardinality(Forks) = 1 THEN Stage(r, "alone") ELSE Done(r)
    /\ UNCHANGED dbVars

DropAllForks(r) ==
    /\ req[r].stage = "alone"
    /\ \A f \in Forks : ~HeldBeside(r, f)
    /\ forks' = << >>
    /\ Done(r)
    /\ UNCHANGED <<msgs, nextSeq, created>>

-----------------------------------------------------------------------------
Next ==
    \/ \E f \in Forks : RenameFork(f)
    \/ \E r \in Requests :
        \/ \E u \in Users :
            \/ \E f \in created \cup {NoFork} : OpenSend(r, u, f)
            \/ OpenNote(r, u)
            \/ \E f \in Forks \cup {NoFork} : OpenRetry(r, u, f) \/ OpenEdit(r, u, f)
        \/ OpenFork(r)
        \/ \E f \in Forks : OpenUnfork(r, f)
        \/ ApplySend(r)
        \/ LoadTarget(r)
        \/ ApplyRegeneration(r)
        \/ Save(r)
        \/ Drop(r)
        \/ InsertForks(r)
        \/ Prune(r)
        \/ DropFork(r)
        \/ CountForks(r)
        \/ DropAllForks(r)

Spec == Init /\ [][Next]_vars

-----------------------------------------------------------------------------
(* Properties *)

(* Every variable has its type.                                               *)
TypeOK ==
    /\ Rows \subseteq Seqs
    /\ msgs \in [Rows -> Message]
    /\ nextSeq \in 1..(MaxSeq + 1)
    /\ Forks \subseteq created
    /\ created \subseteq ForkIds
    /\ forks \in [Forks -> Fork]
    /\ req \in [Requests -> Request]

(* A message is younger than the parent it names, so every walk to the root   *)
(* ends: collectAncestorChain of deleteFork has no other protection against   *)
(* a cycle, and reads one row for each step.                                  *)
ChainsDescend == \A m \in Rows : msgs[m].parent < m

Follows(f, m) == (f \in Forks /\ m \in Rows) => m \in Chain(forks[f].tip)

(* A fork's tip moves only to a message below it, unless the same step        *)
(* deletes it or the fork: of two turns that grafted onto one tip, whatever   *)
(* the order in which they read, validate and save, one is refused, and no    *)
(* turn that was saved to a fork drops out of it.                             *)
TurnsStayOnFork ==
    [][\A f \in Forks, m \in Rows : forks[f].tip = m => Follows(f, m)']_vars

(* A retry or an edit that names the tip it saw of a live fork never deletes  *)
(* a message that another user wrote, although the messages are chosen only   *)
(* after inference and the gate looked before it.                             *)
RegenerationSparesOthers ==
    \A r \in Applied :
        (req[r].op \in Regenerations /\ req[r].tip # 0) =>
            req[r].dels \cap OfOthers(req[r].user) = {}

-----------------------------------------------------------------------------
(* What the comments and documents say of it, and the code does not do *)

(* "Cannot regenerate -- another user has replied after this message"         *)
(* (error-messages.ts): no retry or edit deletes another user's message, in a *)
(* conversation without forks either.                                         *)
OthersSpared ==
    \A r \in Applied :
        req[r].op \in Regenerations => req[r].dels \cap OfOthers(req[r].user) = {}

(* "checks for shared messages ..., and deletes only non-shared candidates"   *)
(* (message-deletion.ts): a retry or an edit on one fork leaves the way to    *)
(* every other fork's tip as it was.                                          *)
BranchesKept ==
    \A r \in Applied : \A f \in Forks :
        (req[r].op \in Regenerations /\ req[r].tip # 0 /\ f # req[r].fork) =>
            Chain(forks[f].tip) \cap req[r].dels = {}

(* "by the time updateForkTip runs inside saveChatTurn, the FK cascade has    *)
(* already nulled the tip in our transaction's view" (tree-action.ts): a      *)
(* retry or an edit that holds its fork's lock finds the tip it expects.      *)
LockedTipIsNulled ==
    \A r \in Applied :
        (req[r].op \in {"retry", "edit"} /\ req[r].fork \in Forks) =>
            WithoutTips(forks, req[r].dels)[req[r].fork].tip = ExpectedTip(req[r])

(* "Deletes messages after an anchor point" (message-deletion.ts): a retry    *)
(* deletes nothing that is older than its anchor, an edit nothing older than  *)
(* the edited message.                                                        *)
DeletesOnlyAfter ==
    \A r \in Applied :
        req[r].op \in {"retry", "edit"} => \A m \in req[r].dels : m >= req[r].target

=============================================================================
