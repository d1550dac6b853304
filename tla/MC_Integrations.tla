--------------------------- MODULE MC_Integrations ---------------------------
(* The instance of Integrations: an alert, and a user's /ticket command.      *)
EXTENDS Integrations

CONSTANTS disk, command

MCAlerts == {disk}
MCCommands == {command}
===============================================================================
