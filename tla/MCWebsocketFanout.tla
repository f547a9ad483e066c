-------------------------- MODULE MCWebsocketFanout --------------------------
(***************************************************************************)
(* WebsocketFanout where one client filters out every second message.      *)
(***************************************************************************)
EXTENDS WebsocketFanout

CONSTANT Filtering    \* the clients that connect with a source filter

MCPasses == [c \in Clients |-> {e \in Events : c \in Filtering => e % 2 = 1}]
=============================================================================
