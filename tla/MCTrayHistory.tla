---------------------------- MODULE MCTrayHistory ----------------------------
(***************************************************************************)
(* Instances of TrayHistory for TLC: the background job and one command    *)
(* (--once or --dry-run) started by hand beside it.                        *)
(***************************************************************************)
EXTENDS TrayHistory

CONSTANTS bg, manual
=============================================================================
