----------------------------- MODULE MCRealtime -----------------------------
(***************************************************************************)
(* Small instances of Realtime for TLC.  In "reader" ann's tab comes, goes *)
(* and loses its connection while bob changes the conversation from a tab  *)
(* whose own view does not matter; in "author" ann's tab does both.  In    *)
(* "turns" and "viewed" connections are never lost, and there are several  *)
(* turns and retries, ann's own or bob's.                                  *)
(***************************************************************************)
EXTENDS Realtime, TLC

CONSTANTS t1, t2, ann, bob

OneTabEach == (t1 :> ann) @@ (t2 :> bob)

VARIABLE scenario

Changes(c) ==
    Send(c) \/ Redo(c) \/ Stream(c) \/ Save(c) \/ FailTurn(c) \/ Note(c) \/ ChangeForks(c)

Connection(c) ==
    \/ Mount(c) \/ Unmount(c)
    \/ Accept(c) \/ Break(c) \/ Closed(c) \/ TimerFires(c)
    \/ NetworkLost(c) \/ NetworkRestored(c)

Loading(c) == ReadConversation(c) \/ Arrive(c) \/ FailFetch(c) \/ Receive(c)

Room == \E e \in tasks : Broadcast(e) \/ LoseBroadcast(e)

\* One message and one change at most, and every fault of the connection.
Short == begun' <= 1 /\ version' <= 2

ReaderNext ==
    /\ \/ Connection(t1) \/ Loading(t1)
       \/ Mount(t2)
       \/ Changes(t2)
       \/ Room
    /\ Short

AuthorNext ==
    /\ \/ Connection(t1) \/ Loading(t1)
       \/ Changes(t1)
       \/ Reply(t1) \/ LoseReply(t1)
       \/ Room
    /\ Short

\* Several changes, and connections that are never lost.
TurnsNext(writer) ==
    \/ Mount(t1) \/ Accept(t1) \/ Receive(t1)
    \/ Mount(writer)
    \/ Send(writer) \/ Redo(writer) \/ Save(writer) \/ Reply(writer)
    \/ writer = t1 /\ ChangeForks(writer)
    \/ \E c \in {t1, writer} : ReadConversation(c) \/ Arrive(c)
    \/ \E e \in tasks : Broadcast(e)

MCNext ==
    /\ \/ scenario = "reader" /\ ReaderNext
       \/ scenario = "author" /\ AuthorNext
       \/ scenario = "turns" /\ TurnsNext(t1)
       \/ scenario = "viewed" /\ TurnsNext(t2)
    /\ UNCHANGED scenario

MCInit == Init /\ commits[1].by = ann /\ scenario \in {"reader", "author", "turns", "viewed"}

\* The fairness of FairSpec, for the tab that is watched.
Scenarios == MCInit /\ [][MCNext]_<<vars, scenario>> /\ Fairness(t1)

\* A tab that stays on the page and keeps its network is connected in the end
\* and shows every commit that was broadcast and that it listens to, whatever
\* connections and events were lost before (ws-client.ts, use-realtime-sync.ts).
\* The tab of the other member is only a source of changes.
WatchedConverges == Converges(t1)
=============================================================================
