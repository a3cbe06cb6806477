---------------------------- MODULE MCSimpleSerial ----------------------------
(***************************************************************************)
(* TLC instance of SimpleSerial: a table of four entries, among the        *)
(* registrations one that is too long, one name registered twice and one   *)
(* entry too many; two digits with different values.                       *)
(***************************************************************************)
EXTENDS SimpleSerial, TLC

MCLetters == {"v", "w", "k"}
MCHexChars == {"1", "A"}
MCJunk == {"x"}
MCNewlines == {"lf", "cr"}
MCNibble == ("1" :> 1) @@ ("A" :> 10)
MCRegistrations ==
  <<[c |-> "v", len |-> 0], [c |-> "w", len |-> 3], [c |-> "w", len |-> 1],
    [c |-> "k", len |-> 2], [c |-> "w", len |-> 0],
    [c |-> "v", len |-> 1]>>
MCMaxCmds == 4
MCMaxLen == 3
MCStatus == {0, 255}
MCMaxLine == 7
=============================================================================
