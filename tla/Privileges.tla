----------------------------- MODULE Privileges -----------------------------
(***************************************************************************)
(* The membership privilege lattice of a conversation                      *)
(* (packages/shared/src/utils/privileges.ts): read < write < admin < owner *)
(* and the two rules that compare an actor's level with a target's.        *)
(***************************************************************************)
EXTENDS Naturals

Read       == 0
Write      == 1
Admin      == 2
OwnerLevel == 3

PrivilegeLevels == Read..OwnerLevel

\* canRemoveMember: at least admin, and strictly above the target.
CanRemoveMember(actor, target) ==
    /\ actor >= Admin
    /\ actor > target

\* (The first form does not look at the target.)
CanChangeAnyPrivilege(actor, target, new) ==
    /\ actor >= Admin
    /\ actor > new

\* canChangePrivilege: strictly above both the target's present level and
\* the level it is to receive.
CanChangePrivilege(actor, target, new) ==
    /\ actor >= Admin
    /\ actor > target
    /\ actor > new
=============================================================================
