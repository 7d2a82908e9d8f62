------------------------------- MODULE MCPeg -------------------------------
(***************************************************************************)
(* Small instances of Peg for TLC.                                         *)
(***************************************************************************)
EXTENDS Peg

NoM6 == <<0, <<>>>>

=============================================================================
