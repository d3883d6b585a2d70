------------------------------ MODULE Realtime ------------------------------
(***************************************************************************)
(* How the members of one group conversation see what the others write.    *)
(*                                                                         *)
(* The API commits a change and then, without waiting, asks the room of    *)
(* the conversation to tell every socket that is registered at that        *)
(* moment.  The room keeps nothing: an event that finds no socket is gone. *)
(* A client holds one socket, opens a new one after a pause or when the    *)
(* network is back, and takes most events as a reason to ask for the       *)
(* conversation again; so it does whenever its socket becomes ready.       *)
(* While a turn runs, the room also passes on its text, which clients show *)
(* until (and unless) the message itself is in what they have loaded.      *)
(*                                                                         *)
(* A version of the conversation is named by its number of commits.        *)
(***************************************************************************)
EXTENDS Integers, Sequences

CONSTANTS
    Clients,     \* browser tabs that may show the conversation
    Users,
    UserOf,      \* whose tab it is
    MaxMessages, \* bound: messages ever begun
    MaxCommits,  \* bound: commits, the conversation's creation included
    MaxDrops,    \* bound: connections lost or refused
    MaxFlaps,    \* bound: times that the network goes away
    MaxFailures  \* bound: fetches that fail for good

ASSUME UsersAssumption == UserOf \in [Clients -> Users]
ASSUME BoundsAssumption ==
    /\ MaxMessages \in Nat /\ MaxCommits \in Nat \ {0}
    /\ MaxDrops \in Nat /\ MaxFlaps \in Nat /\ MaxFailures \in Nat

VARIABLES
    (* the API and its database *)
    commits,   \* what each commit was and left behind
    begun,     \* messages begun so far
    turn,      \* a client's turn in the API
    reply,     \* the API has yet to answer the client's last change
    tasks,     \* broadcasts under way
    announced, \* history: versions whose broadcast has reached the room
    (* the connection of a client *)
    mounted,   \* the conversation is on the screen
    offline,   \* the network store says so
    sock,      \* its socket; open is registered with the room
    ready,
    timer,     \* the pause before the next attempt
    spare,     \* history: sockets that it replaced while they were alive
    inbox,     \* on the way to it
    (* what a client shows *)
    view,      \* the version it has loaded; 0 is nothing
    asked,     \* a fetch that the API has not answered yet
    got,       \* the version in an answer that has not arrived; 0 is none
    blind,     \* history: an event was swallowed by a fetch older than it
    phantoms,  \* messages it was told of by their text
    (* caps *)
    drops, flaps, failures

apiVars   == <<commits, begun, turn, reply, tasks, announced>>
connVars  == <<mounted, offline, sock, ready, timer, spare, inbox>>
queryVars == <<view, asked, got, blind>>
capVars   == <<drops, flaps, failures>>
vars      == <<apiVars, connVars, queryVars, phantoms, capVars>>

-----------------------------------------------------------------------------

Messages == 1..MaxMessages
Versions == 1..MaxCommits
Kinds    == {"create", "turn", "note", "fork"}

CommitRow == [kind : Kinds, by : Users, stored : SUBSET Messages]

\* A turn that replaces an old answer, or (old = 0) none.
IdleTurn == [stage |-> "idle", msg |-> 0, old |-> 0]
Turn     == {IdleTurn} \cup [stage : {"begun", "streamed"}, msg : Messages, old : 0..MaxMessages]

\* version is 0 for what is told before it is committed, msg for what concerns
\* no one message.
Event ==
    [type : {"new", "stream", "complete", "note"}, from : Users,
     msg : Messages, version : 0..MaxCommits]
    \cup [type : {"fork"}, from : Users, msg : {0}, version : 0..MaxCommits]
Ready == [type : {"ready"}]

version == Len(commits)
Stored  == commits[version].stored

Init ==
    /\ \E u \in Users : commits = <<[kind |-> "create", by |-> u, stored |-> {}]>>
    /\ begun = 0
    /\ turn = [c \in Clients |-> IdleTurn]
    /\ reply = [c \in Clients |-> FALSE]
    /\ tasks = {}
    /\ announced = {}
    /\ mounted = [c \in Clients |-> FALSE]
    /\ offline = [c \in Clients |-> FALSE]
    /\ sock = [c \in Clients |-> "none"]
    /\ ready = [c \in Clients |-> FALSE]
    /\ timer = [c \in Clients |-> FALSE]
    /\ spare = [c \in Clients |-> 0]
    /\ inbox = [c \in Clients |-> << >>]
    /\ view = [c \in Clients |-> 0]
    /\ asked = [c \in Clients |-> FALSE]
    /\ got = [c \in Clients |-> 0]
    /\ blind = [c \in Clients |-> FALSE]
    /\ phantoms = [c \in Clients |-> {}]
    /\ drops = 0
    /\ flaps = 0
    /\ failures = 0

-----------------------------------------------------------------------------
(* The API: changes, and what it tells the room of them *)

Tell(type, c, m, v) == [type |-> type, from |-> UserOf[c], msg |-> m, version |-> v]

\* A new message: its text goes out before the model answers.
Send(c) ==
    /\ mounted[c]
    /\ turn[c].stage = "idle"
    /\ begun < MaxMessages
    /\ begun' = begun + 1
    /\ turn' = [turn EXCEPT ![c] = [stage |-> "begun", msg |-> begun', old |-> 0]]
    /\ tasks' = tasks \cup {Tell("new", c, begun', 0)}
    /\ UNCHANGED <<commits, reply, announced, connVars, queryVars, phantoms, capVars>>

\* A retry or an edit of what the client shows.  Nothing goes out yet.
Redo(c) ==
    /\ mounted[c]
    /\ view[c] # 0
    /\ turn[c].stage = "idle"
    /\ begun < MaxMessages
    /\ \E m \in commits[view[c]].stored :
          turn' = [turn EXCEPT ![c] = [stage |-> "begun", msg |-> begun + 1, old |-> m]]
    /\ begun' = begun + 1
    /\ UNCHANGED <<commits, reply, tasks, announced, connVars, queryVars, phantoms, capVars>>

\* withBroadcast: the answer's text.
Stream(c) ==
    /\ turn[c].stage = "begun"
    /\ turn' = [turn EXCEPT ![c] = [stage |-> "streamed", msg |-> turn[c].msg, old |-> turn[c].old]]
    /\ tasks' = tasks \cup {Tell("stream", c, turn[c].msg, 0)}
    /\ UNCHANGED <<commits, begun, reply, announced, connVars, queryVars, phantoms, capVars>>

Commit(c, kind, type, m, stored) ==
    /\ version < MaxCommits
    /\ commits' = Append(commits, [kind |-> kind, by |-> UserOf[c], stored |-> stored])
    /\ tasks' = tasks \cup {Tell(type, c, m, version + 1)}
    /\ reply' = [reply EXCEPT ![c] = TRUE]

Save(c) ==
    /\ turn[c].stage # "idle"
    /\ Commit(c, "turn", "complete", turn[c].msg, (Stored \ {turn[c].old}) \cup {turn[c].msg})
    /\ turn' = [turn EXCEPT ![c] = IdleTurn]
    /\ UNCHANGED <<begun, announced, connVars, queryVars, phantoms, capVars>>

\* Every model failed, or the transaction did.
FailTurn(c) ==
    /\ turn[c].stage # "idle"
    /\ turn' = [turn EXCEPT ![c] = IdleTurn]
    /\ UNCHANGED <<commits, begun, reply, tasks, announced, connVars, queryVars, phantoms, capVars>>

\* A message for the members alone.
Note(c) ==
    /\ mounted[c]
    /\ turn[c].stage = "idle"
    /\ begun < MaxMessages
    /\ begun' = begun + 1
    /\ Commit(c, "note", "note", begun', Stored \cup {begun'})
    /\ UNCHANGED <<turn, announced, connVars, queryVars, phantoms, capVars>>

\* A fork is created or renamed, or deleted with a message that was its own.
ChangeForks(c) ==
    /\ mounted[c]
    /\ \E gone \in {{}} \cup {{m} : m \in Stored} :
          Commit(c, "fork", "fork", 0, Stored \ gone)
    /\ UNCHANGED <<begun, turn, announced, connVars, queryVars, phantoms, capVars>>

\* handleBroadcast.
Broadcast(e) ==
    /\ e \in tasks
    /\ tasks' = tasks \ {e}
    /\ announced' = announced \cup ({e.version} \ {0})
    /\ inbox' = [c \in Clients |-> IF sock[c] = "open" THEN Append(inbox[c], e) ELSE inbox[c]]
    /\ UNCHANGED <<commits, begun, turn, reply, mounted, offline, sock, ready, timer, spare,
                   queryVars, phantoms, capVars>>

\* broadcastFireAndForget: the room did not answer, or the worker is gone.
LoseBroadcast(e) ==
    /\ e \in tasks
    /\ tasks' = tasks \ {e}
    /\ UNCHANGED <<commits, begun, turn, reply, announced, connVars, queryVars, phantoms, capVars>>

-----------------------------------------------------------------------------
(* The query of the conversation *)

\* invalidateQueries: a fetch under way is dropped for a new one, unless it is
\* the first; then the caller waits for it like everyone else.
Ask(c) ==
    IF view[c] = 0 /\ (asked[c] \/ got[c] # 0)
    THEN /\ blind' = [blind EXCEPT ![c] = @ \/ got[c] # 0]
         /\ UNCHANGED <<view, asked, got>>
    ELSE /\ asked' = [asked EXCEPT ![c] = TRUE]
         /\ got' = [got EXCEPT ![c] = 0]
         /\ blind' = [blind EXCEPT ![c] = FALSE]
         /\ UNCHANGED view

\* The API reads the conversation for its answer.
ReadConversation(c) ==
    /\ asked[c]
    /\ asked' = [asked EXCEPT ![c] = FALSE]
    /\ got' = [got EXCEPT ![c] = version]
    /\ UNCHANGED <<apiVars, connVars, view, blind, phantoms, capVars>>

Arrive(c) ==
    /\ got[c] # 0
    /\ view' = [view EXCEPT ![c] = got[c]]
    /\ got' = [got EXCEPT ![c] = 0]
    /\ UNCHANGED <<apiVars, connVars, asked, blind, phantoms, capVars>>

\* The fetch has failed, and its retries.
FailFetch(c) ==
    /\ asked[c] \/ got[c] # 0
    /\ failures < MaxFailures
    /\ failures' = failures + 1
    /\ asked' = [asked EXCEPT ![c] = FALSE]
    /\ got' = [got EXCEPT ![c] = 0]
    /\ blind' = [blind EXCEPT ![c] = TRUE]
    /\ UNCHANGED <<apiVars, connVars, view, phantoms, drops, flaps>>

\* The answer to the client's own change.
Reply(c) ==
    /\ reply[c]
    /\ reply' = [reply EXCEPT ![c] = FALSE]
    /\ IF mounted[c] THEN Ask(c) ELSE UNCHANGED queryVars
    /\ UNCHANGED <<commits, begun, turn, tasks, announced, connVars, phantoms, capVars>>

LoseReply(c) ==
    /\ reply[c]
    /\ reply' = [reply EXCEPT ![c] = FALSE]
    /\ UNCHANGED <<commits, begun, turn, tasks, announced, connVars, queryVars, phantoms, capVars>>

-----------------------------------------------------------------------------
(* ConversationWebSocket *)

\* createConnection: whatever socket it had is no longer its own.
Connect(c) ==
    /\ sock' = [sock EXCEPT ![c] = "connecting"]
    /\ spare' = [spare EXCEPT ![c] = IF sock[c] = "none" THEN @ ELSE @ + 1]
    /\ inbox' = [inbox EXCEPT ![c] = << >>]

\* The query's data was dropped while nobody showed it (gcTime).
Forgotten(c) ==
    /\ ~asked[c] /\ got[c] = 0
    /\ view' = [view EXCEPT ![c] = 0]
    /\ asked' = [asked EXCEPT ![c] = TRUE]
    /\ blind' = [blind EXCEPT ![c] = FALSE]
    /\ UNCHANGED got

\* The page is opened, with the query's data gone, good or too old.
Mount(c) ==
    /\ ~mounted[c]
    /\ mounted' = [mounted EXCEPT ![c] = TRUE]
    /\ phantoms' = [phantoms EXCEPT ![c] = {}]
    /\ IF offline[c] THEN UNCHANGED <<sock, spare, inbox>> ELSE Connect(c)
    /\ \/ view[c] # 0 /\ UNCHANGED queryVars
       \/ Ask(c) \/ Forgotten(c)
    /\ UNCHANGED <<apiVars, offline, ready, timer, capVars>>

\* disconnect.  A socket that is still connecting is left to its open handler,
\* which closes it: it delivers nothing any more, and is not followed here.
Unmount(c) ==
    /\ mounted[c]
    /\ mounted' = [mounted EXCEPT ![c] = FALSE]
    /\ sock' = [sock EXCEPT ![c] = "none"]
    /\ ready' = [ready EXCEPT ![c] = FALSE]
    /\ timer' = [timer EXCEPT ![c] = FALSE]
    /\ inbox' = [inbox EXCEPT ![c] = << >>]
    /\ UNCHANGED <<apiVars, offline, spare, queryVars, phantoms, capVars>>

\* handleWebSocketUpgrade: the socket is registered, then told so.
Accept(c) ==
    /\ sock[c] = "connecting"
    /\ sock' = [sock EXCEPT ![c] = "open"]
    /\ inbox' = [inbox EXCEPT ![c] = << [type |-> "ready"] >>]
    /\ UNCHANGED <<apiVars, mounted, offline, ready, timer, spare, queryVars, phantoms, capVars>>

\* The connection is lost, for the room at once, for the client when it closes.
Break(c) ==
    /\ sock[c] \in {"connecting", "open"}
    /\ drops < MaxDrops
    /\ drops' = drops + 1
    /\ sock' = [sock EXCEPT ![c] = "broken"]
    /\ UNCHANGED <<apiVars, mounted, offline, ready, timer, spare, inbox, queryVars, phantoms,
                   flaps, failures>>

\* The close handler and scheduleReconnect.
Closed(c) ==
    /\ sock[c] = "broken"
    /\ sock' = [sock EXCEPT ![c] = "none"]
    /\ ready' = [ready EXCEPT ![c] = FALSE]
    /\ inbox' = [inbox EXCEPT ![c] = << >>]
    /\ timer' = [timer EXCEPT ![c] = ~offline[c]]
    /\ UNCHANGED <<apiVars, mounted, offline, spare, queryVars, phantoms, capVars>>

TimerFires(c) ==
    /\ timer[c]
    /\ timer' = [timer EXCEPT ![c] = FALSE]
    /\ Connect(c)
    /\ UNCHANGED <<apiVars, mounted, offline, ready, queryVars, phantoms, capVars>>

\* (The pause goes on.)
NetworkLostInPause(c) ==
    /\ ~offline[c]
    /\ flaps < MaxFlaps
    /\ flaps' = flaps + 1
    /\ offline' = [offline EXCEPT ![c] = TRUE]
    /\ UNCHANGED <<apiVars, mounted, sock, ready, timer, spare, inbox, queryVars, phantoms,
                   drops, failures>>

\* onNetworkLost.
NetworkLost(c) ==
    /\ ~offline[c]
    /\ flaps < MaxFlaps
    /\ flaps' = flaps + 1
    /\ offline' = [offline EXCEPT ![c] = TRUE]
    /\ timer' = [timer EXCEPT ![c] = FALSE]
    /\ UNCHANGED <<apiVars, mounted, sock, ready, spare, inbox, queryVars, phantoms,
                   drops, failures>>

\* (The client waits for its pause, which the loss of the network ended.)
NetworkRestoredOnly(c) ==
    /\ offline[c]
    /\ offline' = [offline EXCEPT ![c] = FALSE]
    /\ UNCHANGED <<apiVars, mounted, sock, ready, timer, spare, inbox, queryVars, phantoms, capVars>>

\* onNetworkRestored.
NetworkRestored(c) ==
    /\ offline[c]
    /\ offline' = [offline EXCEPT ![c] = FALSE]
    /\ IF mounted[c] /\ sock[c] = "none" THEN Connect(c) ELSE UNCHANGED <<sock, spare, inbox>>
    /\ UNCHANGED <<apiVars, mounted, ready, timer, queryVars, phantoms, capVars>>

-----------------------------------------------------------------------------
(* useRealtimeSync and useRemoteStreaming *)

\* (No refetch when the socket becomes ready.)
AsksNotWhenReady(c, e) ==
    \/ e.type = "complete"
    \/ e.type \in {"new", "note"} /\ e.from # UserOf[c]

\* Events that make a client ask for the conversation: those of others, and
\* the end of any turn.  No client listens to what becomes of forks.
Asks(c, e) ==
    \/ e.type \in {"ready", "complete"}
    \/ e.type \in {"new", "note"} /\ e.from # UserOf[c]

\* (Whatever others do is shown.)
PreviewsAll(c, e) == e.type # "ready" /\ e.from # UserOf[c]

\* Events whose text it shows.
Previews(c, e) == e.type \in {"new", "stream"} /\ e.from # UserOf[c]

Receive(c) ==
    /\ inbox[c] # << >>
    /\ LET e == Head(inbox[c])
       IN  /\ ready' = IF e.type = "ready" THEN [ready EXCEPT ![c] = TRUE] ELSE ready
           /\ phantoms' = IF Previews(c, e) THEN [phantoms EXCEPT ![c] = @ \cup {e.msg}]
                          ELSE phantoms
           /\ IF Asks(c, e) THEN Ask(c) ELSE UNCHANGED queryVars
    /\ inbox' = [inbox EXCEPT ![c] = Tail(@)]
    /\ UNCHANGED <<apiVars, mounted, offline, sock, timer, spare, capVars>>

-----------------------------------------------------------------------------
Next ==
    \/ \E c \in Clients :
        \/ Send(c) \/ Redo(c) \/ Stream(c) \/ Save(c) \/ FailTurn(c)
        \/ Note(c) \/ ChangeForks(c)
        \/ Reply(c) \/ LoseReply(c)
        \/ ReadConversation(c) \/ Arrive(c) \/ FailFetch(c)
        \/ Mount(c) \/ Unmount(c)
        \/ Accept(c) \/ Break(c) \/ Closed(c) \/ TimerFires(c)
        \/ NetworkLost(c) \/ NetworkRestored(c)
        \/ Receive(c)
    \/ \E e \in tasks : Broadcast(e) \/ LoseBroadcast(e)

Spec == Init /\ [][Next]_vars

\* A client handles what it is sent, its pause ends, a connection attempt ends,
\* a broken socket is closed in the end, and a fetch is answered.
Fairness(c) ==
    /\ WF_vars(Receive(c))
    /\ WF_vars(TimerFires(c))
    /\ WF_vars(Accept(c))
    /\ WF_vars(Closed(c))
    /\ WF_vars(ReadConversation(c))
    /\ WF_vars(Arrive(c))

FairSpec == Spec /\ \A c \in Clients : Fairness(c)

-----------------------------------------------------------------------------
(* Properties *)

\* Every variable has its type.
TypeOK ==
    /\ commits \in Seq(CommitRow) /\ version \in Versions
    /\ begun \in 0..MaxMessages
    /\ turn \in [Clients -> Turn]
    /\ reply \in [Clients -> BOOLEAN]
    /\ tasks \subseteq Event
    /\ announced \subseteq 1..version
    /\ mounted \in [Clients -> BOOLEAN]
    /\ offline \in [Clients -> BOOLEAN]
    /\ sock \in [Clients -> {"none", "connecting", "open", "broken"}]
    /\ ready \in [Clients -> BOOLEAN]
    /\ timer \in [Clients -> BOOLEAN]
    /\ spare \in [Clients -> Nat]
    /\ inbox \in [Clients -> Seq(Event \cup Ready)]
    /\ view \in [Clients -> 0..version]
    /\ asked \in [Clients -> BOOLEAN]
    /\ got \in [Clients -> 0..version]
    /\ blind \in [Clients -> BOOLEAN]
    /\ phantoms \in [Clients -> SUBSET Messages]
    /\ drops \in 0..MaxDrops
    /\ flaps \in 0..MaxFlaps
    /\ failures \in 0..MaxFailures

\* A client never opens a second socket beside a living one: between the close
\* handler, the pause, the loss of the network and its return, only one of them
\* starts the next connection.
OneSocket == \A c \in Clients : spare[c] = 0

\* Commits that a client is told of in a way it listens to.
Heard(c, v) ==
    \/ commits[v].kind = "turn"
    \/ commits[v].kind = "note" /\ commits[v].by # UserOf[c]

Shows(c, v) == view[c] >= v

\* Nothing is left for the client to do: it is registered and ready, and no
\* event and no answer is under way to it.
Quiet(c) ==
    /\ sock[c] = "open"
    /\ ready[c]
    /\ inbox[c] = << >>
    /\ ~asked[c]
    /\ got[c] = 0

\* A client with nothing left to do shows every commit that was ever broadcast,
\* whether or not it was connected then: what it missed was committed before it
\* became ready, and is in what it asked for.  A first fetch that was answered
\* before the event, or a fetch that failed, is the exception.
NothingMissed ==
    \A c \in Clients : (Quiet(c) /\ ~blind[c]) =>
        \A v \in announced : Heard(c, v) => Shows(c, v)

\* A client that stays on the page with a network comes to show all of it.
Converges(c) ==
    <>[](mounted[c] /\ ~offline[c]) =>
        <>[](ready[c] /\ (blind[c] \/ \A v \in announced : Heard(c, v) => Shows(c, v)))

-----------------------------------------------------------------------------
(* What the comments and documents say of it, and the code does not do *)

\* "Regenerate / edit don't broadcast `message:new` [...] Group viewers learn
\* about it via `message:complete`" (stream-pipeline.ts): once every broadcast
\* has been handled, a client that shows the newest version no longer shows an
\* answer that a retry or an edit has replaced.
ReplacedStayHidden ==
    \A c \in Clients : (Quiet(c) /\ tasks = {} /\ view[c] = version) =>
        \A v \in 2..version : commits[v].kind = "turn" =>
            phantoms[c] \cap (commits[v - 1].stored \ commits[v].stored) = {}

\* "All messages (from AI and users) must update in real time for all members":
\* with nothing left to do, here and in the room, a client shows every commit.
AllShown ==
    \A c \in Clients : (Quiet(c) /\ ~blind[c]) => \A v \in announced : Shows(c, v)

\* "Catch-up refetch on every WS-ready transition" (use-realtime-sync.ts).
NeverBlind ==
    \A c \in Clients : (Quiet(c) /\ failures = 0) =>
        \A v \in announced : Heard(c, v) => Shows(c, v)
=============================================================================
