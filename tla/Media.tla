------------------------------- MODULE Media -------------------------------
(***************************************************************************)
(* Generated images, audio and video: encrypted, put into the object       *)
(* store, referenced by rows of the database, and collected.               *)
(*                                                                         *)
(* A media turn reads the current epoch, wraps a content key to it, puts   *)
(* one object for each model into the store, and only then saves its       *)
(* messages in a transaction, which may fail.  Nothing ties the store to   *)
(* the database: deleting messages, a conversation or an account drops     *)
(* rows only, so objects are orphaned from both ends.  A daily collector   *)
(* lists the store page by page, looks every object older than a cutoff up *)
(* in the database and deletes what no row references.  Account deletion   *)
(* captures its keys and deletes some of them itself.                      *)
(*                                                                         *)
(* The cutoff is 24 hours and no turn lasts that long: this assumption     *)
(* about time is the guard of Age.  A collector's run reads the clock once *)
(* and lasts seconds, so objects cross the cutoff between runs.            *)
(***************************************************************************)
EXTENDS Integers, FiniteSets

CONSTANTS
    Conversations,
    Users,
    Owner,         \* conversations.user_id
    Turns,         \* media turns in flight at once
    LastKey,       \* storage keys, in the order the store lists them
    MaxModels,     \* successful models of a turn, an object each
    MaxEpoch,      \* bound: no rotation beyond
    PageSize,      \* batchSize
    PagesPerRun,   \* pages MAX_GC_RUNTIME_MS leaves time for, however slow
    MaxDeletes,    \* maxR2Deletes of an account deletion
    MaxFaults      \* bound: collector runs and deletes that fail

ASSUME OwnerAssumption == Owner \in [Conversations -> Users]
ASSUME SizesAssumption ==
    /\ LastKey \in Nat /\ MaxModels \in Nat /\ MaxEpoch \in Nat \ {0}
    /\ PageSize \in Nat \ {0} /\ PagesPerRun \in Nat \ {0}
    /\ MaxDeletes \in Nat /\ MaxFaults \in Nat

VARIABLES
    (* the database *)
    alive,   \* conversations
    epoch,   \* conversations.current_epoch
    row,     \* content_items with their message, by storage key
    (* the object store *)
    object,
    (* processes *)
    turn,    \* media turns
    gc,      \* the collector
    erasure, \* account deletions
    (* cap *)
    faults

dbVars == <<alive, epoch, row>>
vars   == <<dbVars, object, turn, gc, erasure, faults>>

Keys == 1..LastKey
None == "none"

(* Keys are random and never used twice; "new" is within the cutoff. *)
ObjectState == {"unused", "new", "old", "deleted"}
Stored      == {k \in Keys : object[k] \in {"new", "old"}}

(* wrapped: the epoch the content key is wrapped to; number: epoch_number *)
Row   == [conv : Conversations \cup {None}, wrapped : 0..MaxEpoch, number : 0..MaxEpoch]
NoRow == [conv |-> None, wrapped |-> 0, number |-> 0]
Rows  == {k \in Keys : row[k] # NoRow}

Turn     == [conv : Conversations \cup {None}, epoch : 0..MaxEpoch,
             todo : 0..MaxModels, keys : SUBSET Keys]
IdleTurn == [conv |-> None, epoch |-> 0, todo |-> 0, keys |-> {}]
InFlight == UNION {turn[w].keys : w \in Turns}

(* pages: that the budget still covers for certain *)
Collector == [at : {"idle", "list", "find", "delete"}, cursor : 0..LastKey,
              pages : 0..PagesPerRun, more : BOOLEAN, keys : SUBSET Keys]
Resting   == [at |-> "idle", cursor |-> 0, pages |-> 0, more |-> FALSE, keys |-> {}]

Erasure == [at : {"active", "captured", "erased"}, keys : SUBSET Keys]
OwnedBy(u) == {c \in Conversations : Owner[c] = u}

Init ==
    /\ alive = Conversations
    /\ epoch = [c \in Conversations |-> 1]
    /\ row = [k \in Keys |-> NoRow]
    /\ object = [k \in Keys |-> "unused"]
    /\ turn = [w \in Turns |-> IdleTurn]
    /\ gc = Resting
    /\ erasure = [u \in Users |-> [at |-> "active", keys |-> {}]]
    /\ faults = 0

-----------------------------------------------------------------------------
(* A media turn. *)

(* The models answered: the epoch and its public key are read, outside any *)
(* transaction.                                                            *)
ReadEpoch(w, c, models) ==
    /\ turn[w] = IdleTurn
    /\ c \in alive
    /\ turn' = [turn EXCEPT ![w] =
                  [conv |-> c, epoch |-> epoch[c], todo |-> models, keys |-> {}]]
    /\ UNCHANGED <<dbVars, object, gc, erasure, faults>>

(* Mutant of Put: an item more than there are models. *)
PutBeyond(w, k) ==
    /\ turn[w] # IdleTurn
    /\ object[k] = "unused"
    /\ object' = [object EXCEPT ![k] = "new"]
    /\ turn' = [turn EXCEPT ![w] = [turn[w] EXCEPT !.todo = @ - 1, !.keys = @ \cup {k}]]
    /\ UNCHANGED <<dbVars, gc, erasure, faults>>

(* encryptAndStoreMedia for the next model: a fresh key, wrapped to the    *)
(* epoch that was read, and the PUT.                                       *)
Put(w, k) ==
    /\ turn[w].todo > 0
    /\ object[k] = "unused"
    /\ object' = [object EXCEPT ![k] = "new"]
    /\ turn' = [turn EXCEPT ![w] = [turn[w] EXCEPT !.todo = @ - 1, !.keys = @ \cup {k}]]
    /\ UNCHANGED <<dbVars, gc, erasure, faults>>

(* The row persistMediaAssistant inserts: its content key was wrapped      *)
(* before, its epoch number is the one of the transaction.                 *)
SavedRow(t) == [conv |-> t.conv, wrapped |-> t.epoch, number |-> epoch[t.conv]]

(* saveChatTurn, all of it or nothing. *)
SaveTurn(w) ==
    /\ turn[w].keys # {} /\ turn[w].todo = 0
    /\ turn[w].conv \in alive
    /\ row' = [k \in Keys |-> IF k \in turn[w].keys THEN SavedRow(turn[w]) ELSE row[k]]
    /\ turn' = [turn EXCEPT ![w] = IdleTurn]
    /\ UNCHANGED <<alive, epoch, object, gc, erasure, faults>>

(* A rejected type, a failing PUT (whose object may have arrived all the   *)
(* same: Put, then this), a save that rolls back, a worker that dies: the  *)
(* objects already put stay.                                               *)
FailTurn(w) ==
    /\ turn[w] # IdleTurn
    /\ turn' = [turn EXCEPT ![w] = IdleTurn]
    /\ UNCHANGED <<dbVars, object, gc, erasure, faults>>

-----------------------------------------------------------------------------
(* What happens to the conversation meanwhile. *)

Rotate(c) ==
    /\ c \in alive
    /\ epoch[c] < MaxEpoch
    /\ epoch' = [epoch EXCEPT ![c] = @ + 1]
    /\ UNCHANGED <<alive, row, object, turn, gc, erasure, faults>>

(* A retry, an edit or a fork deletion deletes the message. *)
DeleteMessage(k) ==
    /\ k \in Rows
    /\ row' = [row EXCEPT ![k] = NoRow]
    /\ UNCHANGED <<alive, epoch, object, turn, gc, erasure, faults>>

(* The rows that are left when conversations go, with their messages and   *)
(* content items.                                                          *)
RowsWithout(gone) == [k \in Keys |-> IF row[k].conv \in gone THEN NoRow ELSE row[k]]

DeleteConversation(c) ==
    /\ c \in alive
    /\ alive' = alive \ {c}
    /\ row' = RowsWithout({c})
    /\ UNCHANGED <<epoch, object, turn, gc, erasure, faults>>

-----------------------------------------------------------------------------
(* Account deletion. *)

(* runSaga's select of the storage keys; nothing of it locks the           *)
(* conversations.                                                          *)
Capture(u) ==
    /\ erasure[u].at = "active"
    /\ erasure' = [erasure EXCEPT ![u] =
                     [at |-> "captured", keys |-> {k \in Rows : row[k].conv \in OwnedBy(u)}]]
    /\ UNCHANGED <<dbVars, object, turn, gc, faults>>

(* The rest of the transaction, whose delete of the user cascades.  Of the *)
(* captured keys no more than the cap go on to deleteStorageObjects.       *)
Cascade(u) ==
    /\ erasure[u].at = "captured"
    /\ alive' = alive \ OwnedBy(u)
    /\ row' = RowsWithout(OwnedBy(u))
    /\ \E target \in SUBSET erasure[u].keys :
         /\ Cardinality(target) <= MaxDeletes
         /\ target = erasure[u].keys \/ Cardinality(target) = MaxDeletes
         /\ erasure' = [erasure EXCEPT ![u] = [at |-> "erased", keys |-> target]]
    /\ UNCHANGED <<epoch, object, turn, gc, faults>>

(* The transaction fails, and the account is as it was. *)
RollBack(u) ==
    /\ erasure[u].at = "captured"
    /\ erasure' = [erasure EXCEPT ![u] = [at |-> "active", keys |-> {}]]
    /\ UNCHANGED <<dbVars, object, turn, gc, faults>>

(* One of the deletes that run at once; one that fails, or never runs      *)
(* because the worker died, is left to the collector.                      *)
EraseObject(u, k) ==
    /\ erasure[u].at = "erased" /\ k \in erasure[u].keys
    /\ \/ object' = [object EXCEPT ![k] = "deleted"]
       \/ UNCHANGED object
    /\ erasure' = [erasure EXCEPT ![u] = [erasure[u] EXCEPT !.keys = @ \ {k}]]
    /\ UNCHANGED <<dbVars, turn, gc, faults>>

-----------------------------------------------------------------------------
(* The collector. *)

(* An upload passes the cutoff; by then its turn is long over. *)
Age(k) ==
    /\ gc.at = "idle"
    /\ object[k] = "new" /\ k \notin InFlight
    /\ object' = [object EXCEPT ![k] = "old"]
    /\ UNCHANGED <<dbVars, turn, gc, erasure, faults>>

GcStart ==
    /\ gc.at = "idle"
    /\ gc' = [Resting EXCEPT !.at = "list", !.pages = PagesPerRun]
    /\ UNCHANGED <<dbVars, object, turn, erasure, faults>>

(* Mutant of Listed: the page starts one object too late. *)
ListedPast(cursor) == {k \in Stored : k > cursor + 1}

(* What the store lists after the cursor, and the page it returns. *)
Listed(cursor) == {k \in Stored : k > cursor}
Page(cursor)   == {k \in Listed(cursor) :
                     Cardinality({j \in Listed(cursor) : j < k}) < PageSize}

(* Mutant of Eligible: no cutoff. *)
EligibleAtOnce(page) == page

(* The objects of a page that are older than the cutoff. *)
Eligible(page) == {k \in page : object[k] = "old"}

GcList ==
    /\ gc.at = "list"
    /\ \E last \in Page(gc.cursor) \cup {gc.cursor} :
         /\ \A k \in Page(gc.cursor) : k <= last
         /\ gc' = [at |-> "find", keys |-> Eligible(Page(gc.cursor)),
                   pages |-> IF gc.pages = 0 THEN 0 ELSE gc.pages - 1,
                   cursor |-> last,
                   more |-> Listed(gc.cursor) # Page(gc.cursor)]
    /\ UNCHANGED <<dbVars, object, turn, erasure, faults>>

(* The soft runtime budget is spent. *)
GcBail ==
    /\ gc.at = "list" /\ gc.pages = 0
    /\ gc' = Resting
    /\ UNCHANGED <<dbVars, object, turn, erasure, faults>>

(* findOrphans: the keys that no row has now. *)
Orphans(keys) == keys \ Rows

GcFind ==
    /\ gc.at = "find"
    /\ gc' = [gc EXCEPT !.at = "delete", !.keys = Orphans(gc.keys)]
    /\ UNCHANGED <<dbVars, object, turn, erasure, faults>>

(* deleteOrphans: in any order; an object that cannot be deleted is logged *)
(* and the others go on.                                                   *)
GcDelete(k) ==
    /\ gc.at = "delete" /\ k \in gc.keys
    /\ \/ object' = [object EXCEPT ![k] = "deleted"] /\ UNCHANGED faults
       \/ faults < MaxFaults /\ faults' = faults + 1 /\ UNCHANGED object
    /\ gc' = [gc EXCEPT !.keys = @ \ {k}]
    /\ UNCHANGED <<dbVars, turn, erasure>>

(* The page is done: on to the next, or the end of the run. *)
GcNext ==
    /\ gc.at = "delete" /\ gc.keys = {}
    /\ gc' = IF gc.more THEN [gc EXCEPT !.at = "list"] ELSE Resting
    /\ UNCHANGED <<dbVars, object, turn, erasure, faults>>

(* A listing or a query fails, or the worker is stopped. *)
GcAbort ==
    /\ gc.at # "idle"
    /\ faults < MaxFaults /\ faults' = faults + 1
    /\ gc' = Resting
    /\ UNCHANGED <<dbVars, object, turn, erasure>>

-----------------------------------------------------------------------------
MediaTurn ==
    \E w \in Turns :
        \/ \E c \in Conversations, models \in 1..MaxModels : ReadEpoch(w, c, models)
        \/ \E k \in Keys : Put(w, k)
        \/ SaveTurn(w)
        \/ FailTurn(w)

Conversation ==
    \/ \E c \in Conversations : Rotate(c) \/ DeleteConversation(c)
    \/ \E k \in Keys : DeleteMessage(k)

DeleteUser ==
    \E u \in Users : \/ Capture(u)
                     \/ Cascade(u)
                     \/ RollBack(u)
                     \/ \E k \in Keys : EraseObject(u, k)

Gc == GcStart \/ GcList \/ GcBail \/ GcFind \/ (\E k \in Keys : GcDelete(k)) \/ GcNext

Next ==
    \/ MediaTurn
    \/ Conversation
    \/ DeleteUser
    \/ \E k \in Keys : Age(k)
    \/ Gc
    \/ GcAbort

Spec == Init /\ [][Next]_vars

(* The cron trigger starts a run every day and a run goes on unless it     *)
(* fails; no worker runs forever, so a turn ends one way or the other;     *)
(* objects get older.  Nothing makes a deletion finish.                    *)
FairSpec ==
    /\ Spec
    /\ WF_vars(Gc)
    /\ \A w \in Turns : WF_vars(SaveTurn(w) \/ FailTurn(w))
    /\ \A k \in Keys : SF_vars(Age(k))

-----------------------------------------------------------------------------
(* Every variable has its type.                                            *)
TypeOK ==
    /\ alive \subseteq Conversations
    /\ epoch \in [Conversations -> 1..MaxEpoch]
    /\ row \in [Keys -> Row]
    /\ object \in [Keys -> ObjectState]
    /\ turn \in [Turns -> Turn]
    /\ gc \in Collector
    /\ erasure \in [Users -> Erasure]
    /\ faults \in 0..MaxFaults

(* Whatever the collector, account deletions and turns in flight do to     *)
(* each other, the object of a row is in the store: no message is left     *)
(* whose image is gone (findOrphans and the cutoff of runR2Gc, the capture *)
(* of runSaga before its cascade).                                         *)
NoDanglingRow == Rows \subseteq Stored

(* An object that no row and no turn in flight refers to. *)
Orphaned(k) == k \in Stored \ (Rows \cup InFlight)

(* The pages a run is certain to list get as far as this object. *)
Reached(k) == Cardinality({j \in Stored : j < k}) < PageSize * PagesPerRun

(* An orphan that a run can get to is collected in the end, however turns  *)
(* fail, account deletions stop at their cap and deletes fail (runR2Gc).   *)
OrphansCollected == \A k \in Keys : []<>~(Orphaned(k) /\ Reached(k))

(* What the runtime budget of runR2Gc promises: the next run picks up the  *)
(* rest.  Every run starts from the first page.                            *)
RestCollected == \A k \in Keys : []<>~Orphaned(k)

(* The content key of a media message is wrapped to the epoch its row      *)
(* names, where clients look the key up (persistMediaAssistant).           *)
MediaReadable == \A k \in Rows : row[k].wrapped = row[k].number

=============================================================================
