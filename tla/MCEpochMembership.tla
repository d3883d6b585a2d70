------------------------- MODULE MCEpochMembership -------------------------
(***************************************************************************)
(* Small instances of EpochMembership for TLC.  All handlers at once are   *)
(* too many states, so the instance is the union of three scenarios, each  *)
(* with the requests that disturb each other most; which one is played is  *)
(* chosen at the start.  With a limit of two members, three become members *)
(* only by a race that passes it.                                          *)
(***************************************************************************)
EXTENDS EpochMembership, TLC

VARIABLE scenario

AllHandlers == {"addFull", "addFresh", "remove", "leave", "linkFull", "linkFresh", "revoke",
                "privilege", "accept", "decline", "deleteAccount", "rename", "delete"}
ReadOnly     == {Read}
ReadAndAdmin == {Read, Admin}

(* Accounts other than the owner, links and requests are interchangeable. *)
Interchangeable ==
    {us @@ ls @@ rs : us \in Permutations(Users \ {Owner}), ls \in Permutations(Links),
                      rs \in Permutations(Requests)}

Sends(ops, levels, Chosen(_)) ==
    \E r \in {i \in Requests : req[i].stage = "idle"}, a \in accounts \cap Active, op \in ops :
        \E t \in {p \in Principals : Chosen(p) /\ Offered(op, a, p)} :
            \E level \in levels \cap LevelsOffered(op) : Send(r, op, a, t, level)

Serves == \/ \E u \in Users : FetchKeys(u)
          \/ \E r \in Requests : Server(r) \/ Lost(r)

(* Accounts: invitations taken back, turned down or committed too late. *)
MembersNext ==
    \/ Sends({"addFull", "addFresh", "remove", "leave"}, {Read}, LAMBDA p : p \in Users)
    \/ \E u \in Users : Decline(u)
    \/ Serves

(* An account that was invited, or is no more. *)
Known(u) ==
    u \notin accounts \/ member[u].row > 0 \/ \E r \in Requests : req[r].target = u

(* Links beside one account, the first that is invited; the title, and the *)
(* end of the account and of the conversation.                             *)
LinksNext ==
    \/ Sends(Ops \ {"addFresh", "privilege"}, {Read},
             LAMBDA p : p \in Users \ {Owner} => \A u \in Users \ {Owner, p} : ~Known(u))
    \/ \E u \in Users : Known(u) /\ DeleteAccount(u)
    \/ Rename
    \/ Delete
    \/ Serves

(* Levels granted and lost while their holders act, over two epochs. *)
LevelsNext ==
    \/ Sends({"addFull", "privilege"}, {Read, Admin}, LAMBDA p : p \in Users)
    \/ currentEpoch = 1 /\ Sends({"remove"}, {Read}, LAMBDA p : p \in Users)
    \/ \E u \in Users : Accept(u) \/ DeleteAccount(u)
    \/ Serves

MCNext ==
    /\ UNCHANGED scenario
    /\ \/ scenario = "members" /\ MembersNext
       \/ scenario = "links" /\ LinksNext
       \/ scenario = "levels" /\ LevelsNext

MCInit == Init /\ scenario \in {"members", "links", "levels"}

Scenarios == MCInit /\ [][MCNext]_<<vars, scenario>>
=============================================================================
