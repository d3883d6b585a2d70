--------------------------- MODULE RealtimeProofs ---------------------------
(***************************************************************************)
(* Proofs about Realtime: types, one socket per client, and that a client  *)
(* with nothing left to do has missed nothing.                             *)
(***************************************************************************)
EXTENDS Realtime, TLAPS

\* What is told of a commit says which commit, in the way that is listened to.
TasksTell ==
    \A e \in tasks : e.version # 0 =>
        /\ e.version <= version
        /\ commits[e.version].kind = "turn" => e.type = "complete"
        /\ commits[e.version].kind = "note" =>
              e.type = "note" /\ e.from = commits[e.version].by

\* Who starts the next connection: the pause only while there is no socket and
\* there is a network, the network's return only without a pause, and opening
\* the page only when there is neither.
Sockets ==
    \A c \in Clients :
        /\ spare[c] = 0
        /\ ~mounted[c] => sock[c] = "none" /\ ~timer[c]
        /\ timer[c] => sock[c] = "none" /\ ~offline[c]

\* An answer under way is no older than what is shown.
AnswersAreNewer == \A c \in Clients : got[c] = 0 \/ view[c] <= got[c]

Pending(c) == \E i \in DOMAIN inbox[c] : Asks(c, inbox[c][i])

\* Why nothing is missed: while a client is registered, whatever was announced
\* is shown, in an answer, or still to be asked for.
Covered(c) ==
    (sock[c] = "open" /\ ~blind[c]) =>
        \A v \in announced : Heard(c, v) =>
            asked[c] \/ got[c] >= v \/ view[c] >= v \/ Pending(c)

NothingForgotten == \A c \in Clients : Covered(c)

IInv == TypeOK /\ TasksTell /\ Sockets /\ AnswersAreNewer /\ NothingForgotten

-----------------------------------------------------------------------------
LEMMA InitIInv == Init => IInv
<1> SUFFICES ASSUME Init PROVE IInv
  OBVIOUS
<1> USE DEF Init
<1>1. PICK u \in Users : commits = <<[kind |-> "create", by |-> u, stored |-> {}]>>
  OBVIOUS
<1>2. /\ commits \in Seq(CommitRow) /\ version = 1 /\ version \in Versions
  BY <1>1, BoundsAssumption DEF CommitRow, Kinds, version, Versions
<1>3. TypeOK
  BY <1>2, BoundsAssumption DEF TypeOK, Turn, Event, Ready
<1>4. TasksTell /\ Sockets /\ AnswersAreNewer /\ NothingForgotten
  BY DEF TasksTell, Sockets, AnswersAreNewer, NothingForgotten, Covered
<1> QED BY <1>3, <1>4 DEF IInv

-----------------------------------------------------------------------------
(* Types *)

LEMMA CommitTypes ==
    ASSUME TypeOK, NEW c \in Clients, NEW kind \in Kinds,
           NEW type \in {"complete", "note", "fork"}, NEW m,
           IF type = "fork" THEN m = 0 ELSE m \in Messages,
           NEW stored \in SUBSET Messages, Commit(c, kind, type, m, stored)
    PROVE  /\ commits' \in Seq(CommitRow)
           /\ version' = version + 1 /\ version' \in Versions
           /\ \A v \in 1..version : commits'[v] = commits[v]
           /\ commits'[version + 1] = [kind |-> kind, by |-> UserOf[c], stored |-> stored]
           /\ tasks' = tasks \cup {Tell(type, c, m, version + 1)}
           /\ tasks' \subseteq Event
           /\ reply' \in [Clients -> BOOLEAN]
           /\ announced \subseteq 1..version'
           /\ view \in [Clients -> 0..version']
           /\ got \in [Clients -> 0..version']
<1> DEFINE row == [kind |-> kind, by |-> UserOf[c], stored |-> stored]
<1>1. row \in CommitRow
  BY UsersAssumption DEF CommitRow
<1> HIDE DEF row
<1>2. /\ commits \in Seq(CommitRow) /\ commits' = Append(commits, row)
      /\ version \in Nat /\ version < MaxCommits
  BY DEF TypeOK, Commit, row, Versions, version
<1>3. /\ commits' \in Seq(CommitRow) /\ Len(commits') = version + 1
      /\ \A v \in 1..version : commits'[v] = commits[v]
      /\ commits'[version + 1] = row
  BY <1>1, <1>2 DEF version
<1>4. version' = version + 1 /\ version' \in Versions
  BY <1>2, <1>3, BoundsAssumption DEF version, Versions
<1>5. Tell(type, c, m, version + 1) \in Event
  BY <1>2, UsersAssumption, BoundsAssumption DEF Tell, Event
<1>6. /\ tasks' = tasks \cup {Tell(type, c, m, version + 1)}
      /\ reply' = [reply EXCEPT ![c] = TRUE]
  BY DEF Commit
<1>7. tasks' \subseteq Event /\ reply' \in [Clients -> BOOLEAN]
  BY <1>5, <1>6 DEF TypeOK
<1>8. /\ announced \subseteq 1..version'
      /\ view \in [Clients -> 0..version'] /\ got \in [Clients -> 0..version']
  <2>1. /\ announced \subseteq 1..version
        /\ view \in [Clients -> 0..version] /\ got \in [Clients -> 0..version]
    BY DEF TypeOK
  <2> QED BY <1>2, <1>4, <2>1
<1> QED
  BY <1>3, <1>4, <1>6, <1>7, <1>8 DEF row

LEMMA AskTypes ==
    ASSUME TypeOK, NEW c \in Clients, Ask(c)
    PROVE  /\ view' = view
           /\ asked' \in [Clients -> BOOLEAN]
           /\ got' \in [Clients -> 0..version]
           /\ blind' \in [Clients -> BOOLEAN]
<1>1. /\ asked \in [Clients -> BOOLEAN] /\ got \in [Clients -> 0..version]
      /\ blind \in [Clients -> BOOLEAN] /\ version \in Nat
  BY DEF TypeOK, Versions
<1>2. CASE view[c] = 0 /\ (asked[c] \/ got[c] # 0)
  <2>1. /\ view' = view /\ asked' = asked /\ got' = got
        /\ blind' = [blind EXCEPT ![c] = blind[c] \/ got[c] # 0]
    BY <1>2 DEF Ask
  <2> QED BY <1>1, <2>1
<1>3. CASE ~(view[c] = 0 /\ (asked[c] \/ got[c] # 0))
  <2>1. /\ view' = view /\ asked' = [asked EXCEPT ![c] = TRUE]
        /\ got' = [got EXCEPT ![c] = 0] /\ blind' = [blind EXCEPT ![c] = FALSE]
    BY <1>3 DEF Ask
  <2> QED BY <1>1, <2>1
<1> QED BY <1>2, <1>3

LEMMA ConnectTypes ==
    ASSUME TypeOK, NEW c \in Clients, Connect(c)
    PROVE  /\ sock' \in [Clients -> {"none", "connecting", "open", "broken"}]
           /\ spare' \in [Clients -> Nat]
           /\ inbox' \in [Clients -> Seq(Event \cup Ready)]
  BY DEF TypeOK, Connect

LEMMA CommitsAreTyped ==
    ASSUME TypeOK, NEW v \in 1..version
    PROVE  commits[v] \in CommitRow /\ commits[v].stored \subseteq Messages
<1>1. commits \in Seq(CommitRow) /\ v \in 1..Len(commits)
  BY DEF TypeOK, version
<1>2. commits[v] \in CommitRow
  BY <1>1
<1> QED BY <1>2 DEF CommitRow

LEMMA StoredMessages == TypeOK => Stored \subseteq Messages
<1>1. TypeOK => version \in 1..version
  BY BoundsAssumption DEF TypeOK, Versions
<1> QED BY <1>1, CommitsAreTyped DEF Stored

LEMMA ChangesAreTyped ==
    ASSUME TypeOK, NEW c \in Clients,
           Send(c) \/ Redo(c) \/ Stream(c) \/ FailTurn(c) \/ Save(c) \/ Note(c) \/ ChangeForks(c)
    PROVE  TypeOK'
<1>1. CASE Send(c)
  <2>1. begun' \in 0..MaxMessages
    BY <1>1, BoundsAssumption DEF Send, TypeOK
  <2>4. begun' \in Messages
    BY <1>1, BoundsAssumption DEF Send, TypeOK, Messages
  <2>2. Tell("new", c, begun', 0) \in Event
    BY <2>4, UsersAssumption, BoundsAssumption DEF Tell, Event
  <2>3. [stage |-> "begun", msg |-> begun', old |-> 0] \in Turn
    BY <1>1, <2>1, BoundsAssumption DEF Send, Turn, TypeOK, Messages
  <2> QED BY <1>1, <2>1, <2>2, <2>3 DEF Send, TypeOK, version, connVars, queryVars, capVars
<1>2. CASE Redo(c)
  <2>1. begun + 1 \in 0..MaxMessages
    BY <1>2, BoundsAssumption DEF Redo, TypeOK
  <2>2. PICK m \in commits[view[c]].stored :
            turn' = [turn EXCEPT ![c] = [stage |-> "begun", msg |-> begun + 1, old |-> m]]
    BY <1>2 DEF Redo
  <2>3. view[c] \in 1..Len(commits)
    BY <1>2 DEF Redo, TypeOK, version, Versions
  <2>4. m \in 0..MaxMessages
    BY <2>2, <2>3, CommitsAreTyped DEF version, Messages
  <2>5. [stage |-> "begun", msg |-> begun + 1, old |-> m] \in Turn
    BY <2>1, <2>4, BoundsAssumption DEF Turn, TypeOK, Messages
  <2> QED BY <1>2, <2>1, <2>2, <2>5 DEF Redo, TypeOK, version, connVars, queryVars, capVars
<1>3. CASE Stream(c)
  <2>1. turn[c] \in Turn
    BY DEF TypeOK
  <2>2. turn[c].msg \in Messages /\ turn[c].msg \in 0..MaxMessages /\ turn[c].old \in 0..MaxMessages
    BY <1>3, <2>1, BoundsAssumption DEF Stream, Turn, IdleTurn, Messages
  <2>3. Tell("stream", c, turn[c].msg, 0) \in Event
    BY <2>2, UsersAssumption, BoundsAssumption DEF Tell, Event
  <2>4. [stage |-> "streamed", msg |-> turn[c].msg, old |-> turn[c].old] \in Turn
    BY <2>2 DEF Turn
  <2> QED BY <1>3, <2>3, <2>4 DEF Stream, TypeOK, version, connVars, queryVars, capVars
<1>4. CASE FailTurn(c)
  <2>1. IdleTurn \in Turn
    BY BoundsAssumption DEF IdleTurn, Turn
  <2> QED BY <1>4, <2>1 DEF FailTurn, TypeOK, version, connVars, queryVars, capVars
<1>5. CASE Save(c)
  <2>1. turn[c] \in Turn
    BY DEF TypeOK
  <2>2. IdleTurn \in Turn
    BY BoundsAssumption DEF IdleTurn, Turn
  <2>4. turn[c].msg \in Messages
    BY <1>5, <2>1 DEF Save, Turn, IdleTurn
  <2>5. (Stored \ {turn[c].old}) \cup {turn[c].msg} \in SUBSET Messages
    BY <2>4, StoredMessages
  <2>6. /\ Commit(c, "turn", "complete", turn[c].msg, (Stored \ {turn[c].old}) \cup {turn[c].msg})
        /\ turn' = [turn EXCEPT ![c] = IdleTurn]
        /\ UNCHANGED <<begun, announced, connVars, queryVars, phantoms, capVars>>
    BY <1>5 DEF Save
  <2> DEFINE rest == (Stored \ {turn[c].old}) \cup {turn[c].msg}
             mine == turn[c].msg
  <2> HIDE DEF rest, mine
  <2>7. /\ commits' \in Seq(CommitRow) /\ version' \in Versions /\ tasks' \subseteq Event
        /\ reply' \in [Clients -> BOOLEAN] /\ announced \subseteq 1..version'
        /\ view \in [Clients -> 0..version'] /\ got \in [Clients -> 0..version']
    <3>1. /\ mine \in Messages /\ rest \in SUBSET Messages
          /\ Commit(c, "turn", "complete", mine, rest)
      BY <2>4, <2>5, <2>6 DEF rest, mine
    <3>2. "turn" \in Kinds
      BY DEF Kinds
    <3> QED BY <3>1, <3>2, CommitTypes
  <2> QED
    BY <2>2, <2>6, <2>7 DEF TypeOK, connVars, queryVars, capVars
<1>6. CASE Note(c)
  <2>1. begun' \in Messages /\ begun' \in 0..MaxMessages
    BY <1>6, BoundsAssumption DEF Note, TypeOK, Messages
  <2>2. Stored \cup {begun'} \in SUBSET Messages
    BY <2>1, StoredMessages
  <2> QED
    BY <1>6, <2>1, <2>2, CommitTypes
    DEF Note, TypeOK, version, connVars, queryVars, capVars, Kinds
<1>7. CASE ChangeForks(c)
  <2>1. PICK gone \in {{}} \cup {{m} : m \in Stored} : Commit(c, "fork", "fork", 0, Stored \ gone)
    BY <1>7 DEF ChangeForks
  <2>2. Stored \ gone \in SUBSET Messages
    BY StoredMessages
  <2>3. UNCHANGED <<begun, turn, announced, connVars, queryVars, phantoms, capVars>>
    BY <1>7 DEF ChangeForks
  <2> QED
    BY <2>1, <2>2, <2>3, CommitTypes
    DEF TypeOK, connVars, queryVars, capVars, Kinds
<1> QED BY <1>1, <1>2, <1>3, <1>4, <1>5, <1>6, <1>7

LEMMA QueriesAreTyped ==
    ASSUME TypeOK, NEW c \in Clients,
           Reply(c) \/ LoseReply(c) \/ ReadConversation(c) \/ Arrive(c) \/ FailFetch(c)
    PROVE  TypeOK'
<1>1. CASE Reply(c)
  <2>1. CASE mounted[c]
    BY <1>1, <2>1, AskTypes DEF Reply, TypeOK, version, connVars, capVars
  <2>2. CASE ~mounted[c]
    BY <1>1, <2>2 DEF Reply, TypeOK, version, connVars, queryVars, capVars
  <2> QED BY <2>1, <2>2
<1>2. CASE LoseReply(c)
  BY <1>2 DEF LoseReply, TypeOK, version, connVars, queryVars, capVars
<1>3. CASE ReadConversation(c)
  <2>1. version \in 0..version
    BY DEF TypeOK, Versions
  <2> QED BY <1>3, <2>1 DEF ReadConversation, TypeOK, version, apiVars, connVars, capVars
<1>4. CASE Arrive(c)
  <2>1. view' \in [Clients -> 0..version] /\ got' \in [Clients -> 0..version]
    <3>1. view \in [Clients -> 0..version] /\ got \in [Clients -> 0..version] /\ version \in Nat
      BY DEF TypeOK, Versions
    <3>2. view' = [view EXCEPT ![c] = got[c]] /\ got' = [got EXCEPT ![c] = 0]
      BY <1>4 DEF Arrive
    <3> QED BY <3>1, <3>2
  <2> QED BY <1>4, <2>1 DEF Arrive, TypeOK, version, apiVars, connVars, capVars
<1>5. CASE FailFetch(c)
  BY <1>5, BoundsAssumption DEF FailFetch, TypeOK, version, Versions, apiVars, connVars
<1> QED BY <1>1, <1>2, <1>3, <1>4, <1>5

LEMMA ConnectionsAreTyped ==
    ASSUME TypeOK, NEW c \in Clients,
           Mount(c) \/ Unmount(c) \/ Accept(c) \/ Break(c) \/ Closed(c) \/ TimerFires(c)
              \/ NetworkLost(c) \/ NetworkRestored(c)
    PROVE  TypeOK'
<1>1. CASE Mount(c)
  <2>1. /\ sock' \in [Clients -> {"none", "connecting", "open", "broken"}]
        /\ spare' \in [Clients -> Nat]
        /\ inbox' \in [Clients -> Seq(Event \cup Ready)]
    BY <1>1, ConnectTypes DEF Mount, TypeOK
  <2>2. /\ view' \in [Clients -> 0..version]
        /\ asked' \in [Clients -> BOOLEAN]
        /\ got' \in [Clients -> 0..version]
        /\ blind' \in [Clients -> BOOLEAN]
    <3>1. CASE Ask(c) BY <3>1, AskTypes DEF TypeOK
    <3>2. CASE Forgotten(c) BY <3>2 DEF Forgotten, TypeOK, version, Versions
    <3>3. CASE UNCHANGED queryVars BY <3>3 DEF TypeOK, queryVars
    <3> QED BY <1>1, <3>1, <3>2, <3>3 DEF Mount
  <2> QED BY <1>1, <2>1, <2>2 DEF Mount, TypeOK, version, apiVars, capVars
<1>2. CASE Unmount(c)
  <2>1. /\ sock' \in [Clients -> {"none", "connecting", "open", "broken"}]
        /\ inbox' \in [Clients -> Seq(Event \cup Ready)]
    <3>1. /\ sock \in [Clients -> {"none", "connecting", "open", "broken"}]
          /\ inbox \in [Clients -> Seq(Event \cup Ready)]
      BY DEF TypeOK
    <3>2. sock' = [sock EXCEPT ![c] = "none"] /\ inbox' = [inbox EXCEPT ![c] = << >>]
      BY <1>2 DEF Unmount
    <3> QED BY <3>1, <3>2
  <2>2. /\ mounted' \in [Clients -> BOOLEAN] /\ ready' \in [Clients -> BOOLEAN]
        /\ timer' \in [Clients -> BOOLEAN]
    BY <1>2 DEF Unmount, TypeOK
  <2> QED BY <1>2, <2>1, <2>2 DEF Unmount, TypeOK, version, apiVars, queryVars, capVars
<1>3. CASE Accept(c)
  <2>1. << [type |-> "ready"] >> \in Seq(Event \cup Ready)
    BY DEF Ready
  <2> QED BY <1>3, <2>1 DEF Accept, TypeOK, version, apiVars, queryVars, capVars
<1>4. CASE Break(c)
  BY <1>4, BoundsAssumption DEF Break, TypeOK, version, apiVars, queryVars
<1>5. CASE Closed(c)
  <2>1. /\ sock' \in [Clients -> {"none", "connecting", "open", "broken"}]
        /\ inbox' \in [Clients -> Seq(Event \cup Ready)]
    <3>1. /\ sock \in [Clients -> {"none", "connecting", "open", "broken"}]
          /\ inbox \in [Clients -> Seq(Event \cup Ready)]
      BY DEF TypeOK
    <3>2. sock' = [sock EXCEPT ![c] = "none"] /\ inbox' = [inbox EXCEPT ![c] = << >>]
      BY <1>5 DEF Closed
    <3> QED BY <3>1, <3>2
  <2>2. ready' \in [Clients -> BOOLEAN] /\ timer' \in [Clients -> BOOLEAN]
    BY <1>5 DEF Closed, TypeOK
  <2> QED BY <1>5, <2>1, <2>2 DEF Closed, TypeOK, version, apiVars, queryVars, capVars
<1>6. CASE TimerFires(c)
  BY <1>6, ConnectTypes DEF TimerFires, TypeOK, version, apiVars, queryVars, capVars
<1>7. CASE NetworkLost(c)
  BY <1>7, BoundsAssumption DEF NetworkLost, TypeOK, version, apiVars, queryVars
<1>8. CASE NetworkRestored(c)
  BY <1>8, ConnectTypes DEF NetworkRestored, TypeOK, version, apiVars, queryVars, capVars
<1> QED BY <1>1, <1>2, <1>3, <1>4, <1>5, <1>6, <1>7, <1>8

LEMMA ReceiveIsTyped ==
    ASSUME TypeOK, NEW c \in Clients, Receive(c)
    PROVE  TypeOK'
<1> DEFINE e == Head(inbox[c])
<1>1. inbox[c] \in Seq(Event \cup Ready) /\ inbox[c] # << >>
  BY DEF TypeOK, Receive
<1>2. e \in Event \cup Ready /\ Tail(inbox[c]) \in Seq(Event \cup Ready)
  BY <1>1
<1>3. Previews(c, e) => e.msg \in Messages
  BY <1>2 DEF Previews, Event, Ready
<1>4. /\ ready' = IF e.type = "ready" THEN [ready EXCEPT ![c] = TRUE] ELSE ready
      /\ phantoms' = IF Previews(c, e) THEN [phantoms EXCEPT ![c] = @ \cup {e.msg}]
                     ELSE phantoms
      /\ IF Asks(c, e) THEN Ask(c) ELSE UNCHANGED queryVars
      /\ inbox' = [inbox EXCEPT ![c] = Tail(inbox[c])]
      /\ UNCHANGED <<apiVars, mounted, offline, sock, timer, spare, capVars>>
  BY DEF Receive
<1> HIDE DEF e
<1>5. phantoms' \in [Clients -> SUBSET Messages] /\ ready' \in [Clients -> BOOLEAN]
  BY <1>3, <1>4 DEF TypeOK
<1>6. inbox' \in [Clients -> Seq(Event \cup Ready)]
  BY <1>2, <1>4 DEF TypeOK
<1>7. /\ view' = view
      /\ asked' \in [Clients -> BOOLEAN]
      /\ got' \in [Clients -> 0..version]
      /\ blind' \in [Clients -> BOOLEAN]
  BY <1>4, AskTypes DEF TypeOK, queryVars
<1> QED BY <1>4, <1>5, <1>6, <1>7 DEF TypeOK, version, apiVars, capVars

LEMMA RoomIsTyped ==
    ASSUME IInv, NEW e \in tasks, Broadcast(e) \/ LoseBroadcast(e)
    PROVE  TypeOK'
<1> USE DEF IInv
<1>1. CASE Broadcast(e)
  <2>1. e \in Event
    BY DEF TypeOK
  <2>2. e.version # 0 => e.version \in 1..version
    BY <2>1, BoundsAssumption DEF TasksTell, Event, TypeOK, Versions
  <2>3. announced' \subseteq 1..version
    BY <1>1, <2>2 DEF Broadcast, TypeOK
  <2>4. inbox' \in [Clients -> Seq(Event \cup Ready)]
    BY <1>1, <2>1 DEF Broadcast, TypeOK
  <2> QED BY <1>1, <2>3, <2>4 DEF Broadcast, TypeOK, version, queryVars, capVars
<1>2. CASE LoseBroadcast(e)
  BY <1>2 DEF LoseBroadcast, TypeOK, version, connVars, queryVars, capVars
<1> QED BY <1>1, <1>2

-----------------------------------------------------------------------------
(* What is told, the sockets and the answers *)

\* A commit is told of as itself, and what was to be told stays true.
LEMMA CommitsTell ==
    ASSUME IInv, NEW c \in Clients, NEW kind, NEW type, NEW m, NEW stored,
           Commit(c, kind, type, m, stored),
           /\ commits \in Seq(CommitRow) /\ version' = version + 1
           /\ \A v \in 1..version : commits'[v] = commits[v]
           /\ commits'[version + 1] = [kind |-> kind, by |-> UserOf[c], stored |-> stored],
           kind = "turn" => type = "complete", kind = "note" => type = "note"
    PROVE  TasksTell'
<1> SUFFICES ASSUME NEW e \in tasks', e.version # 0
             PROVE  /\ e.version <= version'
                    /\ commits'[e.version].kind = "turn" => e.type = "complete"
                    /\ commits'[e.version].kind = "note" =>
                          e.type = "note" /\ e.from = commits'[e.version].by
  BY DEF TasksTell
<1>0. version \in Nat
  BY DEF IInv, TypeOK, Versions
<1>1. CASE e \in tasks
  <2>1. e.version \in 1..version
    BY <1>1, <1>0, BoundsAssumption DEF IInv, TypeOK, Event, TasksTell
  <2> QED BY <1>0, <1>1, <2>1 DEF IInv, TasksTell
<1>2. CASE e = Tell(type, c, m, version + 1)
  <2>1. e.version = version + 1 /\ e.type = type /\ e.from = UserOf[c]
    BY <1>2 DEF Tell
  <2> QED BY <2>1, <1>0
<1> QED BY <1>1, <1>2 DEF Commit

LEMMA ChangesTell ==
    ASSUME IInv, NEW c \in Clients,
           Send(c) \/ Redo(c) \/ Stream(c) \/ FailTurn(c) \/ Save(c) \/ Note(c) \/ ChangeForks(c)
    PROVE  TasksTell'
<1> USE DEF IInv
<1>1. CASE Send(c)
  BY <1>1 DEF Send, TasksTell, Tell, version
<1>2. CASE Redo(c) \/ FailTurn(c)
  BY <1>2 DEF Redo, FailTurn, TasksTell, version
<1>3. CASE Stream(c)
  BY <1>3 DEF Stream, TasksTell, Tell, version
<1>4. CASE Save(c) \/ Note(c) \/ ChangeForks(c)
  <2>1. PICK kind, type, m, stored :
            /\ Commit(c, kind, type, m, stored)
            /\ kind = "turn" => type = "complete"
            /\ kind = "note" => type = "note"
    <3>1. CASE Save(c)
      BY <3>1 DEF Save
    <3>2. CASE Note(c)
      BY <3>2 DEF Note
    <3>3. CASE ChangeForks(c)
      BY <3>3 DEF ChangeForks
    <3> QED BY <1>4, <3>1, <3>2, <3>3
  <2> DEFINE row == [kind |-> kind, by |-> UserOf[c], stored |-> stored]
  <2>2. commits' = Append(commits, row) /\ commits \in Seq(CommitRow) /\ version \in Nat
    BY <2>1 DEF Commit, TypeOK, Versions
  <2> HIDE DEF row
  <2>3. /\ version' = version + 1
        /\ \A v \in 1..version : commits'[v] = commits[v]
        /\ commits'[version + 1] = row
    BY <2>2 DEF version
  <2> QED BY <2>1, <2>2, <2>3, CommitsTell DEF row
<1> QED BY <1>1, <1>2, <1>3, <1>4

LEMMA OthersTell ==
    ASSUME IInv, UNCHANGED commits, tasks' \subseteq tasks
    PROVE  TasksTell'
  BY DEF IInv, TasksTell, version

LEMMA ConnectionsAreSingle ==
    ASSUME IInv, NEW c \in Clients,
           Mount(c) \/ Unmount(c) \/ Accept(c) \/ Break(c) \/ Closed(c) \/ TimerFires(c)
              \/ NetworkLost(c) \/ NetworkRestored(c)
    PROVE  Sockets'
<1> USE DEF IInv
<1>1. TypeOK /\ Sockets
  OBVIOUS
<1>2. CASE Mount(c)
  BY <1>1, <1>2 DEF Mount, Connect, Sockets, TypeOK
<1>3. CASE Unmount(c)
  BY <1>1, <1>3 DEF Unmount, Sockets, TypeOK
<1>4. CASE Accept(c)
  BY <1>1, <1>4 DEF Accept, Sockets, TypeOK
<1>5. CASE Break(c)
  BY <1>1, <1>5 DEF Break, Sockets, TypeOK
<1>6. CASE Closed(c)
  BY <1>1, <1>6 DEF Closed, Sockets, TypeOK
<1>7. CASE TimerFires(c)
  BY <1>1, <1>7 DEF TimerFires, Connect, Sockets, TypeOK
<1>8. CASE NetworkLost(c)
  BY <1>1, <1>8 DEF NetworkLost, Sockets, TypeOK
<1>9. CASE NetworkRestored(c)
  BY <1>1, <1>9 DEF NetworkRestored, Connect, Sockets, TypeOK
<1> QED BY <1>2, <1>3, <1>4, <1>5, <1>6, <1>7, <1>8, <1>9

LEMMA AskNewer ==
    ASSUME IInv, NEW c \in Clients, Ask(c) \/ Forgotten(c)
    PROVE  AnswersAreNewer'
  BY DEF IInv, TypeOK, Ask, Forgotten, AnswersAreNewer

LEMMA QueriesNewer ==
    ASSUME IInv, NEW c \in Clients, ReadConversation(c) \/ Arrive(c) \/ FailFetch(c)
    PROVE  AnswersAreNewer'
<1> USE DEF IInv
<1>1. CASE ReadConversation(c)
  BY <1>1 DEF ReadConversation, TypeOK, Versions, AnswersAreNewer
<1>2. CASE Arrive(c)
  BY <1>2 DEF Arrive, TypeOK, AnswersAreNewer
<1>3. CASE FailFetch(c)
  BY <1>3 DEF FailFetch, TypeOK, AnswersAreNewer
<1> QED BY <1>1, <1>2, <1>3

-----------------------------------------------------------------------------
(* Nothing is forgotten *)

LEMMA KeptCovered ==
    ASSUME IInv, NEW d \in Clients, UNCHANGED announced,
           sock'[d] = sock[d], blind'[d] = blind[d], asked'[d] = asked[d],
           got'[d] = got[d], view'[d] = view[d], inbox'[d] = inbox[d],
           \A v \in 1..version : commits'[v] = commits[v]
    PROVE  Covered(d)'
<1>1. announced \subseteq 1..version /\ Covered(d)
  BY DEF IInv, TypeOK, NothingForgotten
<1>2. Pending(d)' <=> Pending(d)
  BY DEF Pending, Asks
<1> QED BY <1>1, <1>2 DEF Covered, Heard

\* Whoever has asked is to be told everything, or knows that it was not.
LEMMA AskCovers ==
    ASSUME IInv, NEW c \in Clients, Ask(c) \/ Forgotten(c)
    PROVE  /\ asked'[c] \/ blind'[c]
           /\ \A d \in Clients \ {c} : /\ asked'[d] = asked[d] /\ got'[d] = got[d]
                                       /\ view'[d] = view[d] /\ blind'[d] = blind[d]
<1>1. /\ asked \in [Clients -> BOOLEAN] /\ got \in [Clients -> 0..version]
      /\ blind \in [Clients -> BOOLEAN]
  BY DEF IInv, TypeOK
<1>2. CASE Ask(c) /\ view[c] = 0 /\ (asked[c] \/ got[c] # 0)
  <2>1. /\ view' = view /\ asked' = asked /\ got' = got
        /\ blind' = [blind EXCEPT ![c] = blind[c] \/ got[c] # 0]
    BY <1>2 DEF Ask
  <2> QED BY <1>1, <1>2, <2>1
<1>3. CASE Ask(c) /\ ~(view[c] = 0 /\ (asked[c] \/ got[c] # 0))
  <2>1. /\ view' = view /\ asked' = [asked EXCEPT ![c] = TRUE]
        /\ got' = [got EXCEPT ![c] = 0] /\ blind' = [blind EXCEPT ![c] = FALSE]
    BY <1>3 DEF Ask
  <2> QED BY <1>1, <2>1
<1>4. CASE Forgotten(c) BY <1>1, <1>4 DEF Forgotten
<1> QED BY <1>2, <1>3, <1>4

LEMMA ChangesForgetNothing ==
    ASSUME IInv, NEW c \in Clients,
           Send(c) \/ Redo(c) \/ Stream(c) \/ FailTurn(c) \/ Save(c) \/ Note(c) \/ ChangeForks(c)
    PROVE  NothingForgotten' /\ AnswersAreNewer' /\ Sockets'
<1>1. UNCHANGED <<announced, connVars, queryVars>>
  BY DEF Send, Redo, Stream, FailTurn, Save, Note, ChangeForks
<1>2. \A v \in 1..version : commits'[v] = commits[v]
  <2>1. UNCHANGED commits \/ \E row : commits' = Append(commits, row)
    BY DEF Send, Redo, Stream, FailTurn, Save, Note, ChangeForks, Commit
  <2> QED BY <2>1 DEF IInv, TypeOK, version
<1>3. NothingForgotten'
  BY <1>1, <1>2, KeptCovered DEF NothingForgotten, connVars, queryVars
<1> QED BY <1>1, <1>3 DEF IInv, AnswersAreNewer, Sockets, connVars, queryVars

LEMMA QueriesForgetNothing ==
    ASSUME IInv, NEW c \in Clients, ReadConversation(c) \/ Arrive(c) \/ FailFetch(c)
    PROVE  NothingForgotten'
<1> SUFFICES ASSUME NEW d \in Clients PROVE Covered(d)'
  BY DEF NothingForgotten
<1>0. /\ TypeOK /\ AnswersAreNewer /\ Covered(d)
      /\ announced \subseteq 1..version /\ version \in Nat
      /\ view \in [Clients -> 0..version] /\ got \in [Clients -> 0..version]
      /\ asked \in [Clients -> BOOLEAN] /\ blind \in [Clients -> BOOLEAN]
  <2>1. TypeOK /\ AnswersAreNewer /\ Covered(d)
    BY DEF IInv, NothingForgotten
  <2>2. version \in Versions
    BY <2>1 DEF TypeOK
  <2>3. /\ announced \subseteq 1..version
        /\ view \in [Clients -> 0..version] /\ got \in [Clients -> 0..version]
        /\ asked \in [Clients -> BOOLEAN] /\ blind \in [Clients -> BOOLEAN]
    BY <2>1 DEF TypeOK
  <2> QED BY <2>1, <2>2, <2>3, BoundsAssumption DEF Versions
<1>1. UNCHANGED <<announced, commits, sock, inbox>>
  BY DEF ReadConversation, Arrive, FailFetch, apiVars, connVars
<1>2. CASE d # c
  BY <1>0, <1>1, <1>2, KeptCovered DEF ReadConversation, Arrive, FailFetch
<1>3. CASE d = c
  <2>1. (Pending(c)' <=> Pending(c)) /\ \A v : Heard(c, v)' <=> Heard(c, v)
    BY <1>1 DEF Pending, Asks, Heard
  <2>2. CASE ReadConversation(c)
    BY <1>0, <1>1, <1>3, <2>1, <2>2 DEF ReadConversation, Covered
  <2>3. CASE Arrive(c)
    BY <1>0, <1>1, <1>3, <2>1, <2>3 DEF Arrive, Covered, AnswersAreNewer
  <2>4. CASE FailFetch(c)
    BY <1>0, <1>1, <1>3, <2>4 DEF FailFetch, Covered
  <2> QED BY <2>2, <2>3, <2>4
<1> QED BY <1>2, <1>3

LEMMA RepliesForgetNothing ==
    ASSUME IInv, NEW c \in Clients, Reply(c) \/ LoseReply(c)
    PROVE  NothingForgotten' /\ AnswersAreNewer' /\ Sockets'
<1>1. /\ UNCHANGED <<announced, commits, connVars>>
      /\ Ask(c) \/ UNCHANGED queryVars
  BY DEF Reply, LoseReply
<1>2. ASSUME NEW d \in Clients PROVE Covered(d)'
  <2>1. CASE Ask(c) /\ d = c
    BY <2>1, AskCovers DEF Covered
  <2>2. CASE d # c \/ UNCHANGED queryVars
    BY <1>1, <2>2, AskCovers, KeptCovered DEF connVars, queryVars
  <2> QED BY <1>1, <2>1, <2>2
<1>3. AnswersAreNewer'
  BY <1>1, AskNewer DEF IInv, AnswersAreNewer, queryVars
<1> QED BY <1>1, <1>2, <1>3 DEF NothingForgotten, IInv, Sockets, connVars

LEMMA ConnectionsForgetNothing ==
    ASSUME IInv, NEW c \in Clients,
           Mount(c) \/ Unmount(c) \/ Accept(c) \/ Break(c) \/ Closed(c) \/ TimerFires(c)
              \/ NetworkLost(c) \/ NetworkRestored(c)
    PROVE  NothingForgotten' /\ AnswersAreNewer'
<1>0. UNCHANGED <<announced, commits>> /\ (Ask(c) \/ Forgotten(c) \/ UNCHANGED queryVars)
  BY DEF Mount, Unmount, Accept, Break, Closed, TimerFires, NetworkLost, NetworkRestored,
         apiVars, queryVars
<1>1. /\ sock \in [Clients -> {"none", "connecting", "open", "broken"}]
      /\ inbox \in [Clients -> Seq(Event \cup Ready)]
      /\ Sockets
  BY DEF IInv, TypeOK
<1>2. \A d \in Clients \ {c} : sock'[d] = sock[d] /\ inbox'[d] = inbox[d]
  BY <1>1 DEF Mount, Unmount, Accept, Break, Closed, TimerFires, NetworkLost, NetworkRestored,
              Connect
<1>3. \/ sock'[c] # "open"
      \/ sock'[c] = sock[c] /\ inbox'[c] = inbox[c]
      \/ inbox'[c] = << [type |-> "ready"] >>
  BY <1>1 DEF Mount, Unmount, Accept, Break, Closed, TimerFires, NetworkLost, NetworkRestored,
              Connect
<1>4. ASSUME NEW d \in Clients PROVE Covered(d)'
  <2>1. CASE d # c
    BY <1>0, <1>2, <2>1, AskCovers, KeptCovered DEF queryVars
  <2>2. CASE d = c /\ sock'[c] # "open"
    BY <2>2 DEF Covered
  <2>3. CASE d = c /\ sock'[c] = sock[c] /\ inbox'[c] = inbox[c]
    <3>1. CASE Ask(c) \/ Forgotten(c)
      BY <2>3, <3>1, AskCovers DEF Covered
    <3>2. CASE UNCHANGED queryVars
      BY <1>0, <2>3, <3>2, KeptCovered DEF queryVars
    <3> QED BY <1>0, <3>1, <3>2
  <2>4. CASE d = c /\ inbox'[c] = << [type |-> "ready"] >>
    <3>1. 1 \in DOMAIN inbox'[c] /\ inbox'[c][1].type = "ready"
      BY <2>4
    <3>2. Pending(c)'
      BY <3>1 DEF Pending, Asks
    <3> QED BY <2>4, <3>2 DEF Covered
  <2> QED BY <1>3, <2>1, <2>2, <2>3, <2>4
<1>5. AnswersAreNewer'
  BY <1>0, AskNewer DEF IInv, AnswersAreNewer, queryVars
<1> QED BY <1>4, <1>5 DEF NothingForgotten

LEMMA ReceiveForgetsNothing ==
    ASSUME IInv, NEW c \in Clients, Receive(c)
    PROVE  NothingForgotten' /\ AnswersAreNewer' /\ Sockets'
<1> DEFINE e == Head(inbox[c])
<1>1. /\ inbox[c] # << >> /\ inbox \in [Clients -> Seq(Event \cup Ready)]
      /\ inbox' = [inbox EXCEPT ![c] = Tail(inbox[c])]
      /\ IF Asks(c, e) THEN Ask(c) ELSE UNCHANGED queryVars
      /\ UNCHANGED <<announced, commits, mounted, offline, sock, timer, spare>>
  BY DEF Receive, IInv, TypeOK, apiVars
<1>2. e = inbox[c][1] /\ inbox'[c] = Tail(inbox[c]) /\ inbox[c] \in Seq(Event \cup Ready)
  BY <1>1
<1> HIDE DEF e
<1>3. ASSUME NEW d \in Clients PROVE Covered(d)'
  <2>1. CASE d # c
    <3>1. inbox'[d] = inbox[d]
      BY <1>1, <2>1
    <3>2. /\ asked'[d] = asked[d] /\ got'[d] = got[d]
          /\ view'[d] = view[d] /\ blind'[d] = blind[d]
      BY <1>1, <2>1, AskCovers DEF queryVars
    <3> QED BY <1>1, <3>1, <3>2, KeptCovered
  <2>2. CASE d = c /\ Asks(c, e)
    BY <1>1, <2>2, AskCovers DEF Covered
  <2>3. CASE d = c /\ ~Asks(c, e)
    <3>1. ASSUME Pending(c) PROVE Pending(c)'
      <4>1. PICK i \in DOMAIN inbox[c] : Asks(c, inbox[c][i])
        BY <3>1 DEF Pending
      <4>2. i # 1
        BY <1>2, <2>3, <4>1
      <4>3. i - 1 \in DOMAIN inbox'[c] /\ inbox'[c][i - 1] = inbox[c][i]
        BY <1>1, <1>2, <4>1, <4>2
      <4> QED BY <4>1, <4>3 DEF Pending, Asks
    <3>2. Covered(c) /\ UNCHANGED queryVars
      BY <1>1, <2>3 DEF IInv, NothingForgotten
    <3> QED BY <1>1, <2>3, <3>1, <3>2 DEF Covered, Heard, queryVars
  <2> QED BY <2>1, <2>2, <2>3
<1>4. AnswersAreNewer'
  BY <1>1, AskNewer DEF IInv, AnswersAreNewer, queryVars
<1> QED BY <1>1, <1>3, <1>4 DEF NothingForgotten, IInv, Sockets

LEMMA RoomForgetsNothing ==
    ASSUME IInv, NEW e \in tasks, Broadcast(e) \/ LoseBroadcast(e)
    PROVE  NothingForgotten' /\ AnswersAreNewer' /\ Sockets'
<1>1. UNCHANGED <<commits, mounted, sock, timer, offline, spare, queryVars>>
  BY DEF Broadcast, LoseBroadcast, connVars
<1>2. CASE LoseBroadcast(e)
  <2>1. UNCHANGED <<announced, commits, connVars, queryVars, phantoms>>
    BY <1>2 DEF LoseBroadcast
  <2>2. ASSUME NEW d \in Clients PROVE Covered(d)'
    BY <2>1, KeptCovered DEF connVars, queryVars
  <2> QED BY <2>1, <2>2 DEF NothingForgotten, IInv, AnswersAreNewer, Sockets, connVars, queryVars
<1>3. CASE Broadcast(e)
  <2>0. AnswersAreNewer' /\ Sockets'
    BY <1>1 DEF IInv, AnswersAreNewer, Sockets, queryVars
  <2> SUFFICES ASSUME NEW d \in Clients, sock[d] = "open", ~blind[d],
                      NEW v \in announced', Heard(d, v)
               PROVE  asked[d] \/ got[d] >= v \/ view[d] >= v \/ Pending(d)'
    BY <1>1, <2>0 DEF NothingForgotten, Covered, Heard, queryVars
  <2>1. inbox[d] \in Seq(Event \cup Ready) /\ inbox'[d] = Append(inbox[d], e)
    BY <1>3 DEF IInv, TypeOK, Broadcast
  <2>2. CASE v \in announced
    <3>1. ASSUME Pending(d) PROVE Pending(d)'
      <4>1. PICK i \in DOMAIN inbox[d] : Asks(d, inbox[d][i])
        BY <3>1 DEF Pending
      <4>2. i \in DOMAIN inbox'[d] /\ inbox'[d][i] = inbox[d][i]
        BY <2>1, <4>1
      <4> QED BY <4>1, <4>2 DEF Pending, Asks
    <3>2. Covered(d)
      BY DEF IInv, NothingForgotten
    <3> QED BY <2>2, <3>1, <3>2 DEF Covered
  <2>3. CASE v = e.version /\ v # 0
    <3>1. Asks(d, e)
      BY <2>3 DEF IInv, TasksTell, Heard, Asks
    <3>2. Len(inbox[d]) + 1 \in DOMAIN inbox'[d] /\ inbox'[d][Len(inbox[d]) + 1] = e
      BY <2>1
    <3> QED BY <3>1, <3>2 DEF Pending, Asks
  <2> QED BY <1>3, <2>2, <2>3 DEF Broadcast
<1> QED BY <1>2, <1>3

-----------------------------------------------------------------------------
(* The theorems *)

LEMMA NextIInv == IInv /\ [Next]_vars => IInv'
<1> SUFFICES ASSUME IInv, [Next]_vars PROVE IInv'
  OBVIOUS
<1>1. ASSUME NEW c \in Clients,
             Send(c) \/ Redo(c) \/ Stream(c) \/ Save(c) \/ FailTurn(c) \/ Note(c) \/ ChangeForks(c)
      PROVE  IInv'
  BY <1>1, ChangesAreTyped, ChangesTell, ChangesForgetNothing DEF IInv
<1>2. ASSUME NEW c \in Clients, Reply(c) \/ LoseReply(c)
      PROVE  IInv'
  <2>1. UNCHANGED <<commits, tasks>>
    BY <1>2 DEF Reply, LoseReply
  <2> QED BY <1>2, <2>1, QueriesAreTyped, OthersTell, RepliesForgetNothing DEF IInv
<1>3. ASSUME NEW c \in Clients, ReadConversation(c) \/ Arrive(c) \/ FailFetch(c)
      PROVE  IInv'
  <2>1. UNCHANGED <<commits, tasks, connVars>>
    BY <1>3 DEF ReadConversation, Arrive, FailFetch, apiVars
  <2>2. Sockets'
    BY <2>1 DEF IInv, Sockets, connVars
  <2> QED
    BY <1>3, <2>1, <2>2, QueriesAreTyped, OthersTell, QueriesForgetNothing, QueriesNewer DEF IInv
<1>4. ASSUME NEW c \in Clients,
             Mount(c) \/ Unmount(c) \/ Accept(c) \/ Break(c) \/ Closed(c) \/ TimerFires(c)
                \/ NetworkLost(c) \/ NetworkRestored(c)
      PROVE  IInv'
  <2>1. UNCHANGED <<commits, tasks>>
    BY <1>4 DEF Mount, Unmount, Accept, Break, Closed, TimerFires, NetworkLost, NetworkRestored,
                apiVars
  <2> QED
    BY <1>4, <2>1, ConnectionsAreTyped, OthersTell, ConnectionsAreSingle, ConnectionsForgetNothing
    DEF IInv
<1>5. ASSUME NEW c \in Clients, Receive(c)
      PROVE  IInv'
  <2>1. UNCHANGED <<commits, tasks>>
    BY <1>5 DEF Receive, apiVars
  <2> QED BY <1>5, <2>1, ReceiveIsTyped, OthersTell, ReceiveForgetsNothing DEF IInv
<1>6. ASSUME NEW e \in tasks, Broadcast(e) \/ LoseBroadcast(e)
      PROVE  IInv'
  <2>1. UNCHANGED commits /\ tasks' \subseteq tasks
    BY <1>6 DEF Broadcast, LoseBroadcast
  <2> QED BY <1>6, <2>1, RoomIsTyped, OthersTell, RoomForgetsNothing DEF IInv
<1>7. CASE UNCHANGED vars
  <2>1. TypeOK'
    BY <1>7 DEF vars, apiVars, connVars, queryVars, capVars, IInv, TypeOK, version
  <2>2. TasksTell' /\ Sockets' /\ AnswersAreNewer'
    BY <1>7 DEF vars, apiVars, connVars, queryVars, IInv, TasksTell, Sockets, AnswersAreNewer,
                version
  <2>3. NothingForgotten'
    BY <1>7, KeptCovered DEF vars, apiVars, connVars, queryVars, NothingForgotten
  <2> QED BY <2>1, <2>2, <2>3 DEF IInv
<1> QED BY <1>1, <1>2, <1>3, <1>4, <1>5, <1>6, <1>7 DEF Next

\* The inductive invariant holds in every state that the API, the room and the
\* clients reach.
THEOREM InvariantHolds == Spec => []IInv
  BY InitIInv, NextIInv, PTL DEF Spec

\* Every variable of the API, the room and the clients keeps its type.
THEOREM TypeCorrect == Spec => []TypeOK
  BY InvariantHolds, PTL DEF IInv

\* ConversationWebSocket never opens a second socket beside a living one, for
\* any number of clients, losses and returns of the network.
THEOREM OneSocketEach == Spec => []OneSocket
<1>1. IInv => OneSocket
  BY DEF IInv, Sockets, OneSocket
<1> QED BY <1>1, InvariantHolds, PTL

\* A client that is connected and has nothing left to handle shows every commit
\* it listens to that was ever broadcast, for any number of members, lost
\* connections and commits: the refetch on ready makes up for lost events.
THEOREM NothingIsMissed == Spec => []NothingMissed
<1>1. IInv => NothingMissed
  <2> SUFFICES ASSUME IInv, NEW c \in Clients, Quiet(c), ~blind[c],
                      NEW v \in announced, Heard(c, v)
               PROVE  Shows(c, v)
    BY DEF NothingMissed
  <2>1. Covered(c) /\ v \in 1..version
    BY DEF IInv, NothingForgotten, TypeOK
  <2>2. ~Pending(c) /\ ~asked[c] /\ got[c] = 0 /\ sock[c] = "open"
    BY DEF Quiet, Pending
  <2> QED BY <2>1, <2>2 DEF Covered, Shows
<1> QED BY <1>1, InvariantHolds, PTL
=============================================================================
