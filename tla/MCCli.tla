-------------------------------- MODULE MCCli --------------------------------
(* The daemon and its clients for TLC.                                      *)
EXTENDS MCDaemon, Cli
=============================================================================
