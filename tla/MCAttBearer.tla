----------------------------- MODULE MCAttBearer -----------------------------
(* A small instance of AttBearer for TLC.                                     *)
EXTENDS AttBearer

TwoChannels == {"first", "second"}
=============================================================================
