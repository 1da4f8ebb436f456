--------------------------- MODULE MCBootCommands ---------------------------
(* BootCommands with two package upgrades and the code's three retries.    *)
EXTENDS BootCommands
=============================================================================
