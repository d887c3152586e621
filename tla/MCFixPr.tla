------------------------------- MODULE MCFixPr -------------------------------
(* Two runs, one after the other, in one clone.                            *)
EXTENDS FixPr
=============================================================================
