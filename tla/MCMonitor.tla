------------------------------- MODULE MCMonitor -------------------------------
(***************************************************************************)
(* TLC instances of Monitor: numbers of two binary digits, one of which is *)
(* also a command, and programs of up to three bytes.                      *)
(***************************************************************************)
EXTENDS Monitor, TLC

MCNibble == ("0" :> 0) @@ ("e" :> 1)
MCNumbers == {<<"e">>, <<"0", "e">>, <<"e", "0">>, <<"0">>}
MCBytes == {"q", "lf"}
MCFree == {"u", "e", "w", "q", "0", "sp", "lf", "cr"}
MCHosts == {"free", "careful"}
ReadmeHost == {"readme"}
=============================================================================
