--------------------------------- MODULE Glitch ---------------------------------
(***************************************************************************)
(* The targets of the command g: glitch_example and glitch_example2 count  *)
(* in two nested loops, read_flash reads one word again and again.  The    *)
(* host disturbs the core with voltage or clock glitches and looks at the  *)
(* trigger pin and at what is printed.                                     *)
(***************************************************************************)
EXTENDS Integers

CONSTANTS
  N,           \* turns of each loop: 500, 1000 in glitch_example
  Every,       \* the trigger goes up again after every so many rows: 50
  MaxGlitches  \* bound: disturbances of one call

VARIABLES
  loop,        \* [at, kind, i, j, totalcnt, test]: where and with which counters
  seen,        \* the last thing printed about a glitch
  glitches,    \* disturbances so far
  ran,         \* how often the inner body ran in this round
  trigger

vars == <<loop, seen, glitches, ran, trigger>>

Returned == [at |-> "returned", kind |-> 0, i |-> 0, j |-> 0, totalcnt |-> 0, test |-> 0]

Init ==
  /\ loop = Returned
  /\ seen = "nothing" /\ glitches = 0 /\ ran = 0
  /\ trigger = FALSE

-----------------------------------------------------------------------------
(* Faulty variants of the definitions below: bugs the properties must notice. *)

CountersWrong_NoTest(l) == l.i # N \/ l.totalcnt # N * N

-----------------------------------------------------------------------------
CountersWrong(l) == l.i # N \/ l.totalcnt # N * N \/ l.test # N * N

Call(kind) ==
  /\ loop.at = "returned"
  /\ loop' = [Returned EXCEPT !.kind = kind, !.at = IF kind = 3 THEN "flash" ELSE "round"]
  /\ seen' = "nothing" /\ glitches' = 0 /\ ran' = 0
  /\ UNCHANGED trigger

(* The counters are cleared and the loops start. *)
Round ==
  /\ loop.at = "round"
  /\ loop' = [loop EXCEPT !.at = "outer", !.i = 0, !.totalcnt = 0, !.test = 0]
  /\ ran' = 0
  /\ trigger' = TRUE
  /\ UNCHANGED <<seen, glitches>>

Outer ==
  /\ loop.at = "outer"
  /\ loop' = IF loop.i < N THEN [loop EXCEPT !.at = "inner", !.j = 0]
             ELSE [loop EXCEPT !.at = "check"]
  /\ UNCHANGED <<seen, glitches, ran, trigger>>

Inner ==
  /\ loop.at = "inner" /\ loop.j < N
  /\ loop' = [loop EXCEPT !.totalcnt = @ + 1, !.test = @ + 1, !.j = @ + 1]
  /\ ran' = ran + 1
  /\ UNCHANGED <<seen, glitches, trigger>>

RowDone ==
  /\ loop.at = "inner" /\ loop.j >= N
  /\ loop' = [loop EXCEPT !.at = "row"]
  /\ trigger' = FALSE
  /\ UNCHANGED <<seen, glitches, ran>>

(* glitch_example does not look at j. *)
NextRow ==
  /\ loop.at = "row" /\ (loop.kind = 2 => loop.j = N)
  /\ loop' = [loop EXCEPT !.at = "outer", !.i = @ + 1]
  /\ trigger' = (trigger \/ loop.i % Every = 0)
  /\ UNCHANGED <<seen, glitches, ran>>

ReportRow ==
  /\ loop.at = "row" /\ loop.kind = 2 /\ loop.j # N
  /\ loop' = Returned
  /\ seen' = "GLITCH 1"
  /\ trigger' = FALSE
  /\ UNCHANGED <<glitches, ran>>

RoundGood ==
  /\ loop.at = "check" /\ (loop.kind = 2 => ~CountersWrong(loop))
  /\ loop' = [loop EXCEPT !.at = "round"]
  /\ trigger' = FALSE
  /\ UNCHANGED <<seen, glitches, ran>>

ReportRound ==
  /\ loop.at = "check" /\ loop.kind = 2 /\ CountersWrong(loop)
  /\ loop' = Returned
  /\ seen' = "GLITCH 2"
  /\ trigger' = FALSE
  /\ UNCHANGED <<glitches, ran>>

(* One turn of read_flash: the pin up, and down after the comparison. *)
FlashHigh ==
  /\ loop.at = "flash"
  /\ loop' = [loop EXCEPT !.at = "read"]
  /\ trigger' = TRUE
  /\ UNCHANGED <<seen, glitches, ran>>

FlashRead(wrong) ==
  /\ loop.at = "read"
  /\ wrong => glitches < MaxGlitches
  /\ seen' = IF wrong THEN "GLITCH" ELSE seen
  /\ glitches' = glitches + (IF wrong THEN 1 ELSE 0)
  /\ loop' = [loop EXCEPT !.at = "flash"]
  /\ trigger' = FALSE
  /\ UNCHANGED ran

(* A glitch leaves another value in one counter. *)
Disturb(counter, value) ==
  /\ loop.at \in {"outer", "inner", "row", "check"} /\ glitches < MaxGlitches
  /\ loop' = [loop EXCEPT ![counter] = value]
  /\ glitches' = glitches + 1
  /\ UNCHANGED <<seen, ran, trigger>>

Next ==
  \/ Round \/ Outer \/ Inner \/ RowDone \/ NextRow \/ ReportRow \/ RoundGood \/ ReportRound
  \/ FlashHigh
  \/ \E wrong \in BOOLEAN : FlashRead(wrong)
  \/ \E value \in 0 .. N + 1 : \E counter \in {"i", "j"} : Disturb(counter, value)
  \/ \E value \in 0 .. N * N + 1 : \E counter \in {"totalcnt", "test"} : Disturb(counter, value)

-----------------------------------------------------------------------------
(* glitch_example2 reports only when it was disturbed, and a round that it *)
(* takes for good did run its body as often as it should: with two         *)
(* counters compared, two disturbances of a round cannot hide each other.  *)
ReportsGlitches ==
  [][/\ seen' \notin {seen, "nothing"} => glitches' > 0
     /\ RoundGood /\ loop.kind = 2 => ran = N * N]_vars
=============================================================================
