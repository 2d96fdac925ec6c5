---------------------------- MODULE MCAiBudget ----------------------------
(***************************************************************************)
(* Small instances of AiBudget: a chat of two rounds and one-shot requests *)
(* of one user in one chat, with a cap and limits that they can exhaust.   *)
(***************************************************************************)
EXTENDS AiBudget

CONSTANTS talk, shot, user, chat

MCRequests == {talk, shot}
MCUsers == {user}
MCChats == {chat}
MCUserOf == [r \in MCRequests |-> user]
MCChatOf == [r \in MCRequests |-> chat]
MCRounds == [r \in MCRequests |-> IF r = talk THEN 2 ELSE 1]
MCEstimate == [r \in MCRequests |-> IF r = talk THEN 1 ELSE 2]

=============================================================================
