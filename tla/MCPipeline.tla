----------------------------- MODULE MCPipeline -----------------------------
(***************************************************************************)
(* A small instance of Pipeline: in chat g an admin mutes and unmutes a    *)
(* member who sends two commands; chat h has a command, and its awaits     *)
(* may never settle.                                                       *)
(***************************************************************************)
EXTENDS Pipeline

CONSTANTS g, h, admin, member, mute, unmute, cmd1, cmd2, other

MCChats == {g, h}
MCUsers == {admin, member}
MCMessages == {mute, unmute, cmd1, cmd2, other}

MCChatOf == [m \in MCMessages |-> IF m = other THEN h ELSE g]
MCSenderOf == [m \in MCMessages |-> IF m \in {mute, unmute} THEN admin ELSE member]
MCKindOf == [m \in MCMessages |->
  CASE m = mute -> "mute" [] m = unmute -> "unmute" [] OTHER -> "command"]

=============================================================================
