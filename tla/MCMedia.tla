------------------------------ MODULE MCMedia ------------------------------
(* Small instances of Media. *)
EXTENDS Media

(* All the conversations belong to one account. *)
OneOwner == [c \in Conversations |-> CHOOSE u \in Users : TRUE]

=============================================================================
