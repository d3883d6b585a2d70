# HushBox, verified in TLA+

HushBox is an end-to-end encrypted group chat with AI models behind it: Hono
handlers on Cloudflare Workers (`src/apps/api`), a Postgres database
(`src/packages/db`), Redis for sessions, limits and budget reservations, an object
store for media, a Durable Object per conversation for the live view
(`src/packages/realtime`), and a React client that holds every key
(`src/apps/web`, `src/packages/crypto`). Handlers run on any number of workers at
once and share nothing but those stores. What is hard in it is what several of
them do to the same rows between their reads and their writes, and that is what
this project models.

Contents: [inventory](#the-system) of the system, the [plan](#plan), the
[modules](#modules) with their [runs](#runs), what is [proved](#proofs), and what
is [left out](#what-the-models-leave-out).

## The system

For each part: its state, its operations, what is hard about it, and the
properties that make it correct.

### 1. Membership, links and epoch keys — `EpochMembership`

*State.* `conversations` (current epoch, title and its epoch), `epochs`,
`epoch_members` (one wrap of an epoch's key per public key, with the
`visibleFromEpoch` of its reader), `conversation_members`, `shared_links`, `users`;
in the client, the epoch key cache.
*Operations.* Add a user with or without history, remove, leave, change a
privilege, accept, decline, create and revoke a link, rename, delete; fetch the
key chain; the rotation (`submitRotation`) that five of these run inside their
transaction; the deletion of an account.
*Interactions.* The client prepares a rotation from member keys it fetched earlier,
the middleware and the handler's gates read outside the transaction, the
transaction takes the lock of the conversations row with its first `UPDATE` or with
`SELECT ... FOR UPDATE`. Handlers that insert a member with full history take
neither.
*Hard.* Every one of those reads can be stale when it is used.
*Correct when* every active member can open the current epoch, nobody removed can
open a later one, a member without history sees none, the owner cannot be lost,
and the limit of members holds up to the overlap of requests.

### 2. Payments — `Payments`, `CreditOnce`

*State.* `payments` (pending, awaiting_webhook, completed, failed), the purchased
wallet; process calls and webhook deliveries in flight; the provider's decision,
keyed by the payment id; the form in the browser.
*Operations.* Create, process (read, charge, conditional update), expire, webhook
(claim, else look, else retry fifteen times, else 500), poll, give up, submit again.
*Interactions.* The form creates and processes; the process endpoint calls the
provider; the provider calls the webhook route; both routes write the same row.
*Hard.* The webhook overtakes the update that would let it match; two process calls
with different outcomes; a worker lost between charge and update; redelivery.
*Correct when* a payment credits the wallet once and only after its charge, a status
shown as final stays, a webhook answered 200 has had its effect, and a payment that
waits for its webhook is credited in the end.

### 3. Reservations, charging and the free allowance — `Charging`

*State.* Two wallets per account (purchased, free), what a conversation and each
member has spent; Redis counters of reservations with an expiry (payer, conversation,
member of a conversation); the turns in flight with everything they read.
*Operations.* Read wallets, counters and budgets at once; renew the daily
allowance; admit or refuse; reserve on one counter after another and compare; charge
the true cost; release.
*Interactions.* Wallets and budgets live in Postgres, reservations in Redis, and each
is read at another moment. A group turn is paid by the owner of the conversation.
*Hard.* Three increments are not one; a counter may expire under a turn that is
running, and its late release is then taken from others; a worker may die holding any
number of them; a charge between read and comparison makes the comparison stale.
*Correct when* counters say what the running turns reserved, no turn is allowed what
its limits did not leave it, spending exceeds a budget by no more than what admission
could not see, and what nobody releases expires.

### 4. Chat turns, message tree and forks — `ChatTurns`

*State.* `messages` (sequence, parent, sender), `conversations.next_sequence`,
`conversation_forks` (tip, name).
*Operations.* Send, note without an answer, retry of an answer or of a whole turn,
edit; create, rename and delete a fork.
*Interactions.* A turn reads its parent, its fork's tip and its gate before the
inference, which may take minutes; the transaction at the end validates the parent or
locks the fork, deletes what is replaced, inserts, and moves the tip if it is what the
turn expects.
*Hard.* Whatever a turn read may have been deleted or continued meanwhile; `deleteFork`
and `createFork` have no transaction; parents are not foreign keys.
*Correct when* parents precede their children, a fork's tip moves only downwards,
nobody's retry deletes what another user wrote on a fork, and forks do not lose their
branches to each other. (Without forks a retry can delete what another user has just
written: `OthersSpared`, among the refuted statements.)

### 5. Media — `Media`

*State.* Objects in the store, `content_items` with the epoch their key is wrapped to,
the epoch number of their message.
*Operations.* Read the epoch, wrap, upload and save a turn's media; delete messages,
conversations and accounts; the daily collector: list a page, look it up, delete.
*Hard.* Nothing ties the store to the database. Uploads precede their rows, deletions
drop rows only, the account deletion deletes some objects itself, and the collector
runs beside all of them with a budget of time.
*Correct when* no row names a missing object, objects without rows are collected, and
the key of a message opens under the epoch its row names.

### 6. Realtime — `Realtime`

*State.* The sockets registered with a conversation's room, broadcasts under way; in
each tab the socket, its pause before the next attempt, the network's state, the
conversation as loaded, a fetch under way, previews of what others' turns stream.
*Operations.* Commit and broadcast; connect, lose, close, pause, reconnect; refetch on
events and when the socket becomes ready; show and hide previews.
*Hard.* A broadcast is fire-and-forget after the commit and finds only the sockets that
are open; a fetch may be older than the event that asks for the next; three mechanisms
may start a connection.
*Correct when* a tab has one living socket at most, shows what was announced once
nothing is left for it to do, and gets there in the end.

### 7. The parts not modelled

Authentication (OPAQUE, TOTP, step-up; single Redis keys with an expiry each, whose
promises are the cryptography's), rate limits and trial use (independent counters),
the inference gateway and its streaming (external calls; the models above take from it
when a turn begins, streams, fails and saves), message shares (one insert, one read),
e-mail, push, the roadmap with its Linear source, the marketing site, the user
interface, schema and tooling. They are pure functions, input and output, or counters
that interact with nothing else; PROJECT.json gives the reason for each. The
cryptography is taken as ideal: a wrap opens for the holder of the private key it was
made for, a chain link or a content key with the key of its epoch, and nothing else
opens any of them.

## Plan

In the order of what matters most to a user of the program. All six are done; what each
leaves is named.

1. `Privileges`, `EpochMembership`, the abstract `KeyAccess` it implements, and their proofs.
   Left: changing a link's level.
2. `Payments`, the abstract `CreditOnce` it implements, and their proofs. Left: the
   ledger rows written with a credit.
3. `Charging` and its proofs. Left: several charges of one turn, budgets that are
   changed meanwhile, trial and guest counters.
4. `ChatTurns` and its proofs. Left: by how much overlapping creations pass the limit of
   forks, which takes more fork ids than TLC can afford beside the rest.
5. `Media` and its proofs. It has the rotations of item 1 as one step, `Rotate`.
6. `Realtime` and its proofs. Left: presence, typing, the queries of members and keys.

Worth adding next: the retry loop of `executeWithRotation` against a server that
rotates, with liveness.

## Modules

| module | models | from |
|---|---|---|
| `Privileges` | the order of levels and the two rules that compare an actor's with a target's | `packages/shared/src/utils/privileges.ts` |
| `EpochMembership` | one conversation's members, links, epochs and wraps, its clients and its requests | `apps/api/src/services/{keys,links,conversations}`, `routes/{members,links,keys}.ts`, `apps/web/src/lib/{rotation,epoch-key-cache}.ts` |
| `Payments` | the deposits of one user: form, process calls, provider, webhook deliveries | `routes/{billing,webhooks}.ts`, `services/billing/transaction-writer.ts`, `services/helcim/helcim.ts`, `components/billing/payment-form.tsx` |
| `KeyAccess` | what those in a conversation may rely on: the epoch, the members, who was shut out and who reads which epochs; no requests, locks or wraps | |
| `CreditOnce` | what a user may rely on: charges, credits and the wallet, nothing else | |
| `Charging` | wallets, budgets, reservations and the turns between them, in one conversation | `lib/{billing-reservation,speculative-balance,redis-registry,billing-resolution}.ts`, `services/billing/{balance,budgets,transaction-writer}.ts`, `packages/shared` |
| `ChatTurns` | the message tree of one conversation, its forks, and the requests that change them | `services/chat/{tree-action,message-persistence,message-deletion,message-helpers,regeneration-guard}.ts`, `services/forks/forks.ts`, `routes/chat.ts`, the web client's tree hooks |
| `Media` | objects, their rows, media turns, deletions and the collector | `lib/media-pipeline.ts`, `services/gc/r2-gc.ts`, `services/storage`, `services/account-deletion` |
| `Realtime` | the room of one conversation and its clients' sockets, queries and previews | `packages/realtime`, `lib/broadcast.ts`, `apps/web/src/lib/ws-client.ts`, `hooks/use-realtime-sync.ts`, `hooks/use-remote-streaming.ts` |
| `MC...` | for `EpochMembership`, `Charging`, `ChatTurns`, `Media`, `Realtime`: the values, scenarios and symmetry of the instances TLC checks | |
| `...Proofs` | theorems with their proofs: `EpochMembershipProofs`, `MembershipBoundsProofs`, `PaymentsProofs`, `ChargingProofs`, `ChatTurnsProofs`, `MediaProofs`, `RealtimeProofs` | |
| `Induction` | induction over finite sets and numbers, and sums, for `ChargingProofs` and `ChatTurnsProofs` | |

The six components meet in few places, and each model has the others' steps that matter
to it as steps of its own: `Media` rotates epochs and deletes messages, conversations
and accounts; `Charging` has turns that fail or are saved and deposits; `Realtime` has
turns and commits; `EpochMembership` and `Payments` lose accounts.

### State of `EpochMembership`

| variable | code |
|---|---|
| `exists`, `currentEpoch`, `titleEpoch` | the row of `conversations` |
| `wraps` | `epoch_members`: epoch, reader's public key, the epoch whose key is inside, `visible_from_epoch` |
| `member` | the last `conversation_members` row of each principal; `row` numbers a user's successive rows, `active` is `left_at IS NULL` |
| `revoked` | links with `revoked_at` |
| `accounts` | `users` |
| `held` | the epoch a client takes for current and has the key of |
| `req` | requests in flight with what each has read so far |
| `gone`, `floor`, `raced` | history the properties speak of; no action reads it |

A *principal* is a public key: an account's or the one derived from a link's secret.
The inner `key` of a wrap is what makes a wrong wrap visible: a full-history wrap is
stored under the epoch its gate read but contains the key its client held.

### Steps

A request is `idle`, `sent`, `gated` or `locked`; the points between are those at
which other requests can act.

- `Send`: the client reads the members' keys (`fetchMemberKeys`) and builds the body:
  the epoch it holds, the keys it wraps for, the row it names.
- `Gate` / `GateRefuses`: `requirePrivilege` and the handler's own reads, outside any
  transaction. They remember the epoch (for the wrap's foreign key) and the row.
- `AddFull`, `LinkFull`, `ChangePrivilege`, `RevokeBare`: transactions and statements
  that do not rotate.
- `Begin`: a rotating transaction has written its own rows, passed the conditional
  `UPDATE` of `current_epoch` and validated the wraps. It holds the row lock of the
  conversation and those of the rows it changed, and its effects are invisible.
- `Commit`: its remaining statements and the commit.
- `Refuses`, `Lost`: every refusal (already a member, stale epoch, wrap set mismatch,
  link not found, constraint violations); a worker that dies or a connection that is
  lost at any point, rolling the transaction back.
- `FetchKeys`, `Accept`, `Decline`, `DeleteAccount`, `Rename`, `Delete`: one statement or
  one read each.

Postgres runs READ COMMITTED. The locks are those the statements take: `UPDATE` of
`conversations` takes `FOR NO KEY UPDATE`, which blocks the other rotations, `createLink`
(`FOR UPDATE`), renames and deletion, but passes the `FOR KEY SHARE` of a foreign key
check, so that an insertion of a member proceeds beside a rotation (`LockFree`,
`MayShare`). An open transaction also holds the member rows it has changed
(`RowLocked`).

### Properties

| property | says | hazard |
|---|---|---|
| `TypeOK` | every variable has its type | |
| `MembersHoldCurrentKey` | each active member has a wrap of the current epoch, of that epoch's key, with the member's own visibility, unless it overtook a rotation and none has granted it a key since | stale wrap sets and stale visibility, links made before a rotation, deletion of an account in mid-request |
| `ForwardSecrecy` | whoever a rotation removed is served only epochs that were over by then | wraps left by declines and races, re-invitation, revoked links |
| `HistoryFloor` | who joined without history is served nothing earlier, unless a wrap of an epoch that is over is left for them | lowest visibility among several wraps, visibility replaced in mid-rotation |
| `OwnerStays` | the owner is active, accepted, at the owner's level and never without a key | levels read before they are used, row ids of members who came back |
| `MemberLimitOvershoot` | requests in flight can pass the limit by one less than their number | count before insert, in two handlers |
| `AccessKept` | the behaviour is one of `KeyAccess`: a rotation takes no epoch from a member who stays and gives none to anybody it shuts out, and nothing but a rotation or an addition lets anybody read more | wrap sets and visibilities that are older than the rotation they are sent with |

The refinement maps `members` to the active members without the `raced` ones, `removed` to
the principals who are `gone`, and `readable` to `Served`: the epochs whose keys a reader can
derive from what the key chain endpoint returns. The endpoint leaves out rows and links below
the lowest visibility among the reader's wraps, so a reader is served from there up to the
highest epoch one of its wraps opens.

`raced` is the exception `MembersHoldCurrentKey` makes and the code forces (the run
`rotation_race` shows why): members inserted with full history while a rotation was
open, or with a wrap of a key the conversation had moved past. A rotation that grants
such a member a wrap takes it out of the set; leaving does too. So `MembersHoldCurrentKey`
says nothing of an addition that overtakes a rotation, or that a rotation overtakes, until
it has been repaired: that race is `RotationKeepsMembers`'s, and it is lost.
`ForwardSecrecy` is about rotations in the same way. A declined invitation and a deleted
account leave their wraps without one; for the invitation, see `KeysForMembersOnly`.
`HistoryFloor` leaves out who has a wrap of an epoch that is over, where
`NoHistoryBeforeJoining` fails, and `OwnerStays` is about the owner alone: a stale level
between two other members is not a violation of anything stated here.

### State and steps of `Payments`

| variable | code |
|---|---|
| `status`, `balance`, `account` | `payments.status`, the purchased wallet counted in deposits, the `users` row |
| `call` | process calls: `read` (row read, younger than 30 minutes), `expired` (older), `approved`, `declined` |
| `hook` | webhook deliveries: about to `claim`, about to `check`, with the attempts made |
| `charge`, `acked` | the provider: its decision for a payment's key, the payments whose webhook was answered 200 |
| `late` | payments older than `PAYMENT_EXPIRATION_MS` |
| `form` | the browser: `ready`, `waiting` (tokenizing and processing), `polling`, `error`, `success`, and the payment id it keeps |

`ReadPayment`, `CallProvider` and `Record` or `MarkFailed` are one process call; `Claim`
and `Check` alternate in one delivery, `Claim` being the transaction of
`processWebhookCredit`. `LoseCall` and `LoseHook` end a worker between any two of these;
`Answer` lets a 200 get lost. The updates that carry `WHERE status = ...` look at
the row as it is when they run. A call may be repeated by a client that still knows
the id. The transaction id a row is matched by is written by `Record` together with
`awaiting_webhook`, so "a row with this id in awaiting_webhook" is a condition on the
status alone. The amount is the same for all payments; the model counts deposits.

The provider is external and modelled from `helcim.ts` and its types: one decision per
`idempotency-key`, repeated calls answered alike. A provider that answered the
second call of a key differently would add ways to violate `ChargedIsCredited` and none
to violate the others: a declined call can only mark a pending row failed. The CI branch of the webhook
route, which answers 200 whatever it found, is not modelled.

| property | says | hazard |
|---|---|---|
| `CreditedOnce` | the behaviour is one of `CreditOnce`: the wallet grows once per payment, after its charge, and for good | redelivery, concurrent deliveries, early webhooks |
| `FinalStatusStays` | nothing leaves `completed` or `failed` | slow and repeated process calls, expiry |
| `AckedMeansCredited` | a webhook answered 200 belongs to a credited payment | retries that run out, accounts deleted in between |
| `RecordedIsCredited` | a payment in `awaiting_webhook` is credited in the end unless the account goes | early, lost and repeated deliveries |

### State and steps of `Charging`

| variable | code |
|---|---|
| `purchased`, `free` | the two wallets of an account |
| `renewals` | the day's renewal rows in the ledger |
| `spent` | `conversation_spending` and `member_budgets.spent` |
| `reserved` | the counters in Redis; 0 is no key |
| `turn` | a request: what it has read of wallets, counters and budgets, what it reserves at worst, the counters it is in |
| `begun`, `expiries` | caps |

`ReadWallets`, `ReadCounters`, `ReadBudgets` are the parallel reads of `resolve.ts` in any
order, `Renew` the free allowance's renewal among them. `Admit` is `decideFundingSource`
with the tier's cushion, `Refuse` any denial. `Reserve` is one `redisIncrByFloat`; with the
last the guard of `billing-reservation.ts` decides between streaming and giving back. `Save`
takes the cost from the first wallet that holds all of it and counts it against the
budgets, or fails with the transaction (`unpaid`); `Fail` and `Crash` are the other ends.
`Release` takes back one counter after another; `Expire` is a counter's TTL, which takes
away what dead workers left and, at most `MaxExpiries` times, what living ones hold.

| property | says | hazard |
|---|---|---|
| `CountersMatch` | a counter holds exactly what the turns in it reserved until a TTL passes under a living turn, and never more | failures between three increments, late releases |
| `NoTurnOverdraws` | a running turn's worst case is within what each limit left it when it read it, and the cushion | the check between increments, expiry under a turn |
| `FreshTurnsFit` | running turns whose reads are still true fit into one limit together | parallel admission |
| `OvershootBound` | a budget is exceeded by no more than the cushion and one turn of every other request | charges between read and comparison |
| `LeaksExpire` | in the end every counter is gone | crashes |

### State and steps of `ChatTurns`

| variable | code |
|---|---|
| `msgs` | `messages` by sequence number: parent, role, sender, batch |
| `nextSeq` | `conversations.next_sequence` |
| `forks`, `created` | `conversation_forks` with their tips and whether the name is Main; ids ever used |
| `req` | requests: what they read before inference or between statements, and what their open transaction deletes |

A turn has three points: `OpenSend`, `OpenNote`, `OpenRetry`, `OpenEdit` read before
inference (parent, tip, the gate `canRegenerate`); `ApplySend` and `ApplyRegeneration` are the
tree action of the transaction, which validates the parent or locks the fork, compares its
tip and picks the messages to delete (an edit reads its target's parent before it waits for
that lock, which is `LoadTarget`); `Save` is the rest, under the lock of the row that
hands out sequence numbers. What a transaction deletes is locked from the second point
on (`Doomed`), a fork's row by the regeneration that names it or by a deletion that sets
its tip to NULL (`HeldBeside`). `OpenFork`/`InsertForks` are `createFork`; `OpenUnfork`, `Prune`,
`DropFork`, `CountForks`, `DropAllForks` are the statements of `deleteFork`; `RenameFork` is one
statement. `Drop` ends a request at any point.

| property | says | hazard |
|---|---|---|
| `ChainsDescend` | a parent is older than its child | stale parents and anchors; walks have no other protection against cycles |
| `TurnsStayOnFork` | a tip moves only to a message below it, unless the message or the fork goes | two turns on one tip; a retry between read and save |
| `RegenerationSparesOthers` | a retry or an edit that names the tip it saw of a live fork deletes nothing another user wrote | on a fork, the gate looks before inference, the deletion after |

`RegenerationSparesOthers` holds because on a fork the gate and the deletion walk the same
chain, from a tip that is compared again under lock. In a conversation without forks there
is no tip to compare, and everything after the anchor is deleted by its sequence number:
`OthersSpared` states the same without the condition, and is refuted.

### State and steps of `Media`

| variable | code |
|---|---|
| `alive`, `epoch` | conversations and their current epoch |
| `row` | `content_items` with their message: conversation, the epoch the content key is wrapped to, the message's epoch number |
| `object` | the store: unused key, younger or older than the cutoff, deleted |
| `turn` | media turns: the epoch they read, models still to upload, keys uploaded |
| `gc` | the collector's run: cursor, page, what is to be looked up or deleted, pages the budget still covers |
| `erasure` | account deletions: captured keys, then keys being deleted |

`ReadEpoch`, `Put` for each model, `SaveTurn` or `FailTurn` are a media turn; `Rotate`,
`DeleteMessage`, `DeleteConversation` happen meanwhile; `Capture`, `Cascade` or `RollBack`, and
`EraseObject` are the account deletion; `GcStart`, `GcList`, `GcFind`, `GcDelete`, `GcNext`,
`GcBail` and `GcAbort` the collector. `Age` moves an object past the cutoff of 24 hours,
between runs and when no turn has it in flight.

| property | says | hazard |
|---|---|---|
| `NoDanglingRow` | the object of every row is in the store | collector and account deletion beside uploads without rows |
| `OrphansCollected` | an orphan within reach of the budget is collected in the end | failed turns, capped deletions, failing deletes and runs |

### State and steps of `Realtime`

| variable | code |
|---|---|
| `commits`, `begun`, `turn` | the conversation's history; a version is named by its number of commits |
| `tasks`, `announced` | broadcasts under way, and versions whose broadcast reached the room |
| `mounted`, `offline`, `sock`, `ready`, `timer`, `inbox` | a tab's page, network store, socket, `onReady`, pause, events on the way |
| `view`, `asked`, `got` | what the query has loaded, a fetch not yet answered, an answer not yet arrived |
| `phantoms` | previews of others' turns |
| `reply` | the answer to a tab's own change |
| `spare`, `blind` | history: sockets forgotten while alive; an event swallowed by a fetch older than it |

`Send`, `Redo`, `Stream`, `Save`, `FailTurn`, `Note` and `ChangeForks` are what the API does for
a tab and what it tells the room of it; `Broadcast` and `LoseBroadcast` are the room.
`Connect`, `Accept`, `Break`, `Closed`, `TimerFires`, `NetworkLost` and `NetworkRestored` are
`ConversationWebSocket`; `Receive` is one event at `useRealtimeSync` and `useRemoteStreaming`;
`Ask`, `ReadConversation`, `Arrive` and `FailFetch` are the query, whose rule for a second
fetch (drop the first, unless nothing is loaded yet) is the query library's.

| property | says | hazard |
|---|---|---|
| `OneSocket` | a tab never starts a connection beside a living socket | pause, network events and late closes |
| `NothingMissed` | a ready tab with nothing on the way shows every announced commit it listens to | events sent while it was disconnected |
| `WatchedConverges` | a tab that stays on the page with a network gets there | the same, and lost timers |

## Runs

| run | instance | shows |
|---|---|---|
| `members` | owner, two users, two links; 3 epochs; limit of 2 members; two requests; three scenarios | `TypeOK`, `MembersHoldCurrentKey`, `ForwardSecrecy`, `HistoryFloor`, `OwnerStays`, `MemberLimitOvershoot`, `AccessKept` |
| `rotation_race` | owner, two users, 2 epochs | the violation of `RotationKeepsMembers` |
| `payments` | two payments, two calls, one delivery at a time, one retry; fairness | `TypeOK`, `CreditedOnce`, `FinalStatusStays`, `AckedMeansCredited`, `RecordedIsCredited` |
| `lost_charge` | one payment, two calls; fairness | the violation of `ChargedIsCredited` |
| `chat_turns` | two users, two requests, 4 messages, 3 forks of which 2 at once, up to 2 models | `TypeOK`, `ChainsDescend`, `TurnsStayOnFork`, `RegenerationSparesOthers` |
| `fork_branch` | the same, 2 forks | the violation of `BranchesKept` |
| `charging` | owner and a member, two workers, costs 2 and 3, two turns; fairness | `TypeOK`, `CountersMatch`, `NoTurnOverdraws`, `FreshTurnsFit`, `OvershootBound`, `LeaksExpire` |
| `unpaid_turn` | the same | the violation of `AdmittedTurnsPaid` |
| `media` | one conversation, two turns, two keys, pages of one, one fault; fairness | `TypeOK`, `NoDanglingRow`, `OrphansCollected` |
| `media_epoch` | the same | the violation of `MediaReadable` |
| `realtime` | two tabs of two users, two messages, three commits; four scenarios; fairness | `TypeOK`, `OneSocket`, `NothingMissed`, `WatchedConverges` |
| `phantoms` | the same | the violation of `ReplacedStayHidden` |

`CHECK_DEADLOCK FALSE` is stated where the system may stop: a conversation can be
deleted, a deposit declined for a deleted account, and requests stop when a bound is
reached. `media` checks for deadlock: its collector always has a next run.

*Bounds.* Two requests in flight are the smallest number that races; a third adds
interleavings of pairs already covered.

- `members`: three epochs are enough for a member to be added in one, overtaken in the
  next and granted or removed in the third. All handlers at once are too many states; the
  run is the union of three scenarios, each with the handlers that disturb each other most
  (invitations, departures; links with accounts and the title; levels). `MaxRows` bounds the
  memberships of one user, `MaxMembers` stands for `MAX_CONVERSATION_MEMBERS` (100) and is
  reached and passed. Users, links and requests are interchangeable; what is checked under
  that symmetry are invariants and `AccessKept`, a condition on the first state and on each
  step that no permutation of them changes.
- `payments`: one retry is enough for a delivery to outlast a process call or not;
  `MaxRetries` is 15 in the code. Deliveries that overlap each other are covered by the
  theorems, which bound nothing.
- `chat_turns`: four messages are two turns and a third begun beside them, or one turn with
  two models and its retry; three fork ids are Main, one more, and one that is added
  after a deletion was cut short. `MaxSeq` keeps requests from beginning without room for
  their messages, not from ending. Its symmetry does not affect `TurnsStayOnFork`, which is a
  property of steps and names no user, request or fork.
- `charging`: two turns pass a limit that each of them respects; amounts are such that
  the cushion, a refusal, the free wallet and an unpaid turn all occur. `MaxExpiries` = 1:
  one TTL under a living turn is what `CountersMatch` excepts.
- `media`: two keys and pages of one object make two pages; `PagesPerRun` = 1 leaves the second
  page to luck; `MaxDeletes` = 1 caps an account deletion below what it captured.
- `realtime`: in `reader` one tab goes through every fault of its connection while the other
  user writes, in `author` it writes itself, in `turns` and `viewed` connections hold and
  there are retries. One drop, one loss of the network and one failed fetch meet each other
  at every point.

*Fairness.* For `EpochMembership` and `ChatTurns` none is assumed and no liveness is claimed:
a client may stop at any point, a request may be lost, and nothing in the server tries again.

- `Payments`: the provider delivers a webhook again until one is answered 200 (strong
  fairness of `Deliver`, because the route may be busy in between), not every delivery of a
  payment dies before its claim (strong fairness of `Claim`), and a worker that is not lost
  goes on (weak fairness of `Check`, `CallProvider`, `Record` and `MarkFailed`). The answer 500
  of the webhook route relies on just that redelivery. Nothing is assumed of the user, the
  clock or the loss of calls.
- `Charging`: a request goes on until it ends or dies (weak fairness of `Work`), and a TTL passes
  for a counter that no living turn is in. A TTL under a living turn is never required.
- `Media`: the cron trigger starts a run every day and it goes on unless it fails (weak fairness
  of `Gc`), a turn ends one way or the other, objects get older (strong fairness of `Age`, which
  waits for the collector to be idle). Nothing makes an account deletion finish, and a message
  need not be deleted.
- `Realtime`: the platform's: an event that arrived is handled, a timer fires, an attempt to
  connect ends, a broken socket is closed in the end (the code has no heartbeat), a fetch is
  answered. Nothing is assumed of broadcasts, users or the network.

### What the violations show

Each states what a document, a comment or a test says of the program, and TLC finds a
run of the code that contradicts it (PROJECT.json "findings" quotes the lines).

- **`RotationKeepsMembers`** — a user added with full history while a rotation is open
  keeps the membership and loses the only wrap: the rotation's validation did not see the
  row, its deletion of the old epoch's wraps does. The member cannot read anything
  until the next rotation.
- **`ChargedIsCredited`** — a call lost between the charge and its record leaves a
  pending row without a transaction id: no webhook matches it and nothing else looks for it.
  The same happens when a second call finds the payment expired while the first is at
  the provider.
- **`BranchesKept`** — a message counts as shared only if it has another child. A retry at the
  tip of one fork therefore deletes an answer that is also the tip of another, whose tip
  becomes NULL: that fork then shows the whole conversation.
- **`AdmittedTurnsPaid`** — admission grants a paid account a cushion below zero, but the charge
  takes a cost only from a wallet that holds all of it. A turn admitted on the cushion runs,
  fails in its last transaction and loses its answer.
- **`MediaReadable`** — the content key is wrapped with the epoch key read before the upload, the
  message gets the epoch number current when it is saved. A rotation in between leaves a
  message whose epoch's key does not open its media.
- **`ReplacedStayHidden`** — a viewer's preview of an answer is hidden only while the answer itself
  is loaded. When its author retries or edits it away, the preview is shown again.

### Refuted statements without a run of their own

These are stated in the modules too, and TLC refutes them. To reproduce one, name it in
place of the property of the configuration given, as an invariant unless said otherwise.

| statement | configuration | what happens |
|---|---|---|
| `KeysForMembersOnly` | EpochRotationRace.cfg | a declined invitation leaves its wrap, and the key chain endpoints look wraps up by public key alone |
| `LeaverLacksNextKey` | EpochRotationRace.cfg | the member who leaves makes the next epoch's key and its client caches it; the server serves the leaver none of it (`ForwardSecrecy`) |
| `TitleReadable` | EpochRotationRace.cfg with `Links = {l1}` | a rename encrypted before a rotation overwrites the title the rotation re-encrypted |
| `NoHistoryBeforeJoining` | EpochRotationRace.cfg with `Users = {owner, ann}`, `Links = {l1}`, `MaxEpoch = 4`, `MaxRows = 2` | a wrap stored under an epoch that was over by then survives, and its visibility is the lowest when its holder is added again |
| `OneChargePerDeposit` | PaymentsLost.cfg with `PaymentIds = {p1, p2}` | a deposit submitted again after a lost answer is another payment under another key |
| `OthersSpared` | ChatTurnsBranch.cfg | without forks a retry deletes by sequence number: what another member has sent during the inference, after the gate looked, or what lies beside the walk the gate took, goes with the rest |
| `DeletesOnlyAfter` | ChatTurnsBranch.cfg | without a common ancestor, or after the anchor was deleted, the walk from the tip goes past it |
| `LockedTipIsNulled` | ChatTurnsBranch.cfg | when nothing is left to delete, or the tip has a child outside, the tip is not NULL and the update of the tip fails the turn |
| `NoOvershoot` | ChargingUnpaid.cfg | a charge committed after the read is missing from both sides of the comparison |
| `OneRenewalADay` | ChargingUnpaid.cfg with `MaxTurns = 3` | the renewal looks at the balance again, not at whether the day's row exists; a charge in between makes room for a second row |
| `RestCollected` | Media.cfg, as `PROPERTY` in place of `OrphansCollected` | every run starts from the first page, so what lies past the budget stays if the pages before it fill up again |
| `AllShown` | RealtimePhantoms.cfg | nobody listens to what becomes of forks, and a tab ignores its own user's notes from another tab |
| `NeverBlind` | RealtimePhantoms.cfg | a first fetch that was already answered swallows the refetch an event asks for |

## Proofs

All theorems hold for every value of the constants under the named assumptions of their
module, none of which bounds anything: names are apart, bounds and amounts are natural
numbers, there is a limit of members, and there are finitely many users, links, requests,
workers and costs.

| module | theorem | establishes |
|---|---|---|
| `EpochMembershipProofs` | `InvariantHolds`, `TypeCorrect` | `IInv`, `TypeOK` |
| | `KeysAvailable` | `MembersHoldCurrentKey` |
| | `RemovedLoseAccess` | `ForwardSecrecy` |
| | `OwnerIsSafe` | `OwnerStays` |
| `MembershipBoundsProofs` | `HistoryStaysHidden` | `HistoryFloor` |
| | `ImplementsKeyAccess` | `AccessKept`, the refinement of `KeyAccess` |
| | `LimitHolds` | `MemberLimitOvershoot` |
| `PaymentsProofs` | `InvariantHolds`, `TypeCorrect` | `IInv`, `TypeOK` |
| | `AnswersAreTrue` | `AckedMeansCredited` |
| | `FinalStatusIsFinal` | `FinalStatusStays` |
| | `ImplementsCreditOnce` | `CreditedOnce`, the refinement of `CreditOnce` |
| `ChargingProofs` | `TypeCorrect` | `TypeOK` |
| | `NoTurnEverOverdraws` | `NoTurnOverdraws` |
| | `CountersAlwaysMatch` | `CountersMatch` |
| | `FreshTurnsAlwaysFit` | `FreshTurnsFit` |
| | `OvershootIsBounded` | `OvershootBound` |
| | `AloneWithinBudget` | with a single worker, `NoOvershoot`, which two refute |
| `ChatTurnsProofs` | `TypeCorrect` | `TypeOK` |
| | `ChainsAlwaysDescend` | `ChainsDescend` |
| | `TurnsAlwaysStayOnFork` | `TurnsStayOnFork` |
| | `RegenerationAlwaysSparesOthers` | `RegenerationSparesOthers` |
| `MediaProofs` | `TypeCorrect` | `TypeOK` |
| | `RowsNeverDangle` | `NoDanglingRow` |
| `RealtimeProofs` | `InvariantHolds`, `TypeCorrect` | `IInv`, `TypeOK` |
| | `OneSocketEach` | `OneSocket` |
| | `NothingIsMissed` | `NothingMissed` |

Every proof has one lemma per action (or group of like actions), conjunct-wise steps below
it, and a lemma that joins them. What follows is why each property needs a stronger one.

*`EpochMembership`.* None of the properties is inductive. What can break them is decided two
steps earlier, when a rotation validates its wraps, so `IInv` says what a request still
guarantees at each of its stages:

- `RequestsOK`: a request in flight names real principals, no row or epoch yet to come,
  and, once past the gates, a removal or change of level whose target is not the owner.
  Link creations in flight have links of their own.
- `StoreOK`: wraps, clients and rows lag behind the conversation and never lead it; an
  active member is not `gone`; only active members are `raced`.
- `LocksOK`: one rotation is open at a time; it is at the current epoch; each active
  member it does not remove has exactly its own visibility among the grants or is
  `raced`; nobody it grants is leaving or gone. This is what `Commit` turns into
  `MembersHoldCurrentKey`, and what every action that runs beside a rotation must keep
  (`LocksStable`).
- `SecrecyOK`: wraps left for a principal who is gone are of epochs before that. With it
  `ForwardSecrecy` follows, since chain links lead only down from an opened wrap.

`HistoryFloor` adds `HInv`: a reader has one wrap of an epoch at most and was a member once
(`WrapsOK`); a validated rotation grants one visibility to each, no lower than the reader's
floor whatever becomes of the row before the commit (`GrantsOK`); rows and wraps of the current
epoch keep to the floor (`FloorsOK`), and neither begins after the epoch it belongs to
(`FromsOK`). A reader whose wraps are all current then has one, whose visibility is the lowest.

`AccessKept` follows from the same invariants: every action but `Commit`, the additions, the
departures without rotation and the deletion leaves all four abstract variables alone
(`QuietAccess`). In a commit, the wrap of the old epoch that is deleted and the new one that
replaces it begin at the same epoch for a member who stays, because validation compared the
grant with the member's row (`LocksOK`) and the old wrap with it (`MembersHoldCurrentKey`). So
what the member is served grows by the new epoch and by nothing else; who is granted no wrap
only loses one.

`MemberLimitOvershoot` counts the members together with the requests that are past the gate
and may still insert one (`Counted`): a gate that passes finds room for one more member beside
at most all requests, and afterwards a request turns into a member or ends.

*`Payments`.* The refinement maps the sets of payments with an approved charge and with status
completed to `charged` and `credited`. That a webhook only credits what was charged is decided
three steps before, so `IInv` carries the charge along: `CallsOK` from the provider's answer,
`RowsCharged` from the record of it, `HooksOK` from the delivery, each of them kept because a
charge is never withdrawn.

*`Charging`.* A turn goes through its counters one by one, so `Sound` says of each turn that it
fits the limits whose counters it is already in, as long as none has refused it; that counters
are never negative is what the comparison needs of the rest.

`CountersMatch` compares a counter with the sum of the reservations in it. An increment adds
one element to the sum, a release takes one out, an expiry empties it, and no step changes the
amount of a turn that is in a counter. `FreshTurnsFit` is not inductive, since a turn may
stop being fresh between its check and the next. `FitTogether` says of *every* set of turns
that passed their checks on a limit that one of them has room for the sum of all: the one that
was checked last, whose comparison saw the others' reservations. `OvershootBound` would have to
know what is still to be charged. `SpendingFits` says of every set of turns that may be charged
to a budget: either the dearest cost for each still fits into the bound, or one of them
has read so much of the spending that its own check leaves room for the rest. A charge takes
one turn out of the set and puts its cost into the spending, which keeps one or the other.
`AloneWithinBudget` shows that the other workers are the whole reason for the overshoot.

*`ChatTurns`.* A request names its parent long before it inserts below it. `Younger`: every
message, tip and name in a request is older than the next sequence number.

The properties about walks rest on one equation, `ChainStep`: the chain of a message is the
message and the chain of its parent. A save below a message extends its chain and no other; a
deletion of messages shortens chains and redirects none, because no remaining message gets
another parent. `TurnsStayOnFork` is then a property of each action: a plain turn inserts below a
tip it has compared under lock, and a regeneration moves a tip only when its own deletions have
set it to NULL. `RegenerationSparesOthers` needs `Spares`: what the gate found in the chain
between tip and anchor (no other user's message) stays true until the tree action, since that
chain can only shrink and new messages have numbers that are not in it, and what the tree
action picked stays true until the save. An edit deletes from the parent it has read
before it waited. If its target is still there, that is its parent still; if not, the walk
does not come by the target, and the gate's promise covers the whole of it (`EditDeletes`).

*`Induction`.* The library's induction theorems take an operator as a parameter, which the
provers cannot instantiate. They are not needed: the counterexamples to a claim about
subsets of a finite set, or about numbers, form a set, and a set that is not empty has a minimal
member (`MinimalSubset`, `LeastNatural`), whose smaller ones satisfy the claim. In this way a
function that is chosen by its own recursive equation is shown to exist, and so to satisfy it:
`SumEquation` for the sums of `Charging`, `ChainStep` for the walks of `ChatTurns`.

*`Media`.* A row appears and an object disappears in different processes. `FlightSafe`: what a turn
has uploaded is young, without a row, and no other turn's. `GcSafe`: what the collector looks up
is old, and what it is about to delete has no row, which it cannot get any more.
`ErasureSafe`: a captured key has no row, or one that the cascade deletes first.

*`Realtime`.* `NothingMissed` follows from `NothingForgotten`: while a tab is registered and was not
swallowed, each announced commit it listens to is shown, in an answer, being asked for, or
about to be asked for because of an event in its inbox. `TasksTell` and `AnswersAreNewer` are
what that needs of broadcasts and fetches; `Sockets` says which of the page, the pause and the
network may start the next connection, and that never two of them may.

Every invariant and every action property of a passing run is stated by a theorem. Model-checked
only: `RecordedIsCredited`, `LeaksExpire`, `OrphansCollected` and `WatchedConverges`, since liveness
under fairness, and the ENABLED in it, is beyond the prover; and the violations, which need a
run and not a proof.

## What the models leave out

*`EpochMembership`*
- The gates of one request are one step, although the middleware's read and the
  handler's are two statements; `getKeyChain`'s three reads are one. A skew between the
  latter can only make a client fail to open the epoch named, which `held = 0` covers.
- A request's `Begin` merges the caller's writes, the lock and the validation: nothing
  of it is visible before the commit, and its reads happen under the lock.
- The client's retry after a stale epoch; a user may send again at will.
- Mute, pin, names of links, changes of a link's level, the idempotent re-creation of
  a link under its own key, and a second conversation.
- `Delete` ends the requests in flight in the same step: all rows they need cascade, so
  each can only fail.
- Message contents; a principal is *served* an epoch when it can derive its key from what
  the server returns.

*`Payments`*
- The ledger row written with each credit, card details, the signature of webhooks, and the
  mock provider of development.

*`Charging`*
- One charge for each turn; the several charges of one turn are one cost. A cost is at most
  the worst case reserved. Budgets do not change. Amounts are small integers.
- The sender of a group turn that the owner does not pay goes on as a turn of its own kind
  (`Begin` without `group`). Guests are members who have no other way to pay; trial counters are
  not modelled.
- Nothing bounds what a group turn costs before the guard, as in the code; the wallet and
  the date of the last renewal are read in one step.

*`ChatTurns`*
- The reads and the deletion of a tree action are one step: nothing of it is visible before
  the commit, and what it deletes is locked. `deleteFork`'s reads are one step as well, taken
  before its first statement.
- Message ids come from the client. The models name a message by its sequence number, so an
  id is taken to be one that was never used: a client that sends the id of a deleted message
  again is left out. `ChainsDescend` rests on it, since a parent is named by its id.
- Accounts are not deleted. The deletion sets the sender of a message to NULL, which the gate
  passes over; it would make the gate laxer and `RegenerationSparesOthers` weaker, alike.
- What a client offers is computed from the present tree without what other users have
  written; a client that is behind offers what it has seen, so nothing but ownership is
  taken from the offer.
- Fork ids are fresh; a name that is taken makes `createFork` and `renameFork` fail, which is
  `Drop` or no step. Contents, models and prices are not modelled.

*`Media`*
- The store lists by key, and a fresh key may fall anywhere. A turn does not last 24 hours.
  An object crosses the cutoff between runs of the collector, which reads the clock once.
- One content item for each model; download URLs, byte formats and the mail and the events of
  account deletion are not modelled. A failing upload whose object arrived all the same is a
  `Put` followed by `FailTurn`.

*`Realtime`*
- One message stands for an answer and the question sent with it. A media turn's events are
  a turn's. Forks carry no tips.
- A socket that is still connecting when its page closes is left to its open handler, which
  closes it. It delivers nothing and is not followed, so `OneSocket` is about the sockets of
  one `ConversationWebSocket`.
- A query's data is dropped at any time nobody shows it (`gcTime`), not after 30 minutes; it
  is noticed when the page is opened (`Forgotten`).
- Presence, typing, the suppression of push notifications, and the queries of members, keys
  and budgets; the check of membership when a socket is opened.
- Accepting a socket and opening it are one step, as are `ready` and the refetch it causes;
  the length of pauses is not modelled.

*Not modelled at all*
- Authentication and sessions: exchanges of single Redis keys with an expiry each, whose
  promises rest on cryptography that a state machine takes as ideal.
- Rate limits and trial use, message shares, e-mail, push, roadmap, gateway, user interface,
  schema: see [7](#7-the-parts-not-modelled).
