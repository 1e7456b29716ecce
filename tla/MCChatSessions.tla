--------------------------- MODULE MCChatSessions ---------------------------
(* An instance of ChatSessions for TLC.                                      *)
EXTENDS ChatSessions
CONSTANTS m
=============================================================================
