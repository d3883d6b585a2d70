----------------------------- MODULE KeyAccess -----------------------------
(***************************************************************************)
(* What those in a conversation may rely on about its keys, whatever       *)
(* happens between their clients, the handlers and the database: there are *)
(* no requests, no locks and no wraps here.                                *)
(***************************************************************************)
EXTENDS Naturals

CONSTANT Principals

VARIABLES
    epoch,     \* the current epoch; 0 when the conversation is gone
    members,   \* those who are promised its key
    removed,   \* those a rotation shut out and nobody has added since
    readable   \* the epochs whose keys each principal is served

accessVars == <<epoch, members, removed, readable>>

Init ==
    /\ epoch = 1
    /\ removed = {}
    /\ \E creator \in Principals :
          /\ members = {creator}
          /\ readable = [p \in Principals |-> IF p = creator THEN {1} ELSE {}]

Histories == [Principals -> SUBSET (1..epoch)]

\* An epoch begins.  Who was a member either stays, and reads the new epoch beside
\* all that it could read before, or is shut out; whoever is not granted the new
\* key reads no more than before.
Rotate(granted) ==
    /\ epoch # 0
    /\ epoch' = epoch + 1
    /\ readable' \in Histories'
    /\ members' \subseteq granted
    /\ members \subseteq members' \cup removed'
    /\ removed \subseteq removed' \cup granted
    /\ removed' \cap granted = {}
    /\ \A p \in members \cap members' : readable'[p] = readable[p] \cup {epoch'}
    /\ \A p \in granted : epoch' \in readable'[p]
    /\ \A p \in Principals \ granted : readable'[p] \subseteq readable[p]

\* Somebody is added with the whole history.  A member reads it from now on; who
\* overtakes a rotation is promised nothing before the next one.
Add(p) ==
    /\ p \notin members
    /\ epoch' = epoch
    /\ readable' \in Histories'
    /\ removed' = removed \ {p}
    /\ \/ members' = members
       \/ members' = members \cup {p} /\ readable'[p] = 1..epoch
    /\ readable[p] \subseteq readable'[p]
    /\ \A other \in Principals \ {p} : readable'[other] = readable[other]

\* Somebody goes and nothing rotates: what it could read stays as it was.
Leave(p) ==
    /\ members' = members \ {p}
    /\ UNCHANGED <<epoch, removed, readable>>

Delete ==
    /\ epoch' = 0
    /\ members' = {}
    /\ removed' = {}
    /\ readable' = [p \in Principals |-> {}]

Next ==
    \/ \E p \in Principals : Leave(p) \/ Add(p)
    \/ Delete
    \/ \E granted \in SUBSET Principals : Rotate(granted)

Spec == Init /\ [][Next]_accessVars
=============================================================================
