--------------------------- MODULE MCPollSchedule ---------------------------
(* Two fast and two slow ids; one of each is echoed.                        *)
EXTENDS PollSchedule
=============================================================================
