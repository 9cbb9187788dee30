------------------------------ MODULE MCToolRun ------------------------------
(* A small instance of ToolRun for TLC.                                       *)
EXTENDS ToolRun

BothRadios == {"BLE", "BTC"}
=============================================================================
