---------------------------- MODULE MCChatTurns ----------------------------
(* Small instances of ChatTurns. *)
EXTENDS ChatTurns, TLC

AllOperations == {"send", "note", "retry", "replace", "edit", "fork", "rename", "unfork"}

Interchangeable == Permutations(Users) \cup Permutations(Requests) \cup Permutations(ForkIds)

=============================================================================
