------------------------------ MODULE MCLogTail ------------------------------
(* A small instance of LogTail for TLC: lines of two units, cut in the middle *)
(* or not; a cut line may end main() or only be processed as two.             *)
EXTENDS LogTail

OneBreak == {1}
=============================================================================
