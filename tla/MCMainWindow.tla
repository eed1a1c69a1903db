---------------------------- MODULE MCMainWindow ----------------------------
(***************************************************************************)
(* MainWindow for TLC: plain names, one with a slash, and the empty name.  *)
(***************************************************************************)
EXTENDS MainWindow, TLC

CONSTANTS P1, P2, T1   \* directories and a tracker

PlainName   == <<1>>
SlashedName == <<1, 2>>
EmptyName   == <<>>
SomeNames   == {PlainName, <<2>>, SlashedName, EmptyName}
=============================================================================
