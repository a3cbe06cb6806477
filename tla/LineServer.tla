------------------------------ MODULE LineServer ------------------------------
(***************************************************************************)
(* What the command interface promises to a host that speaks in lines.     *)
(* Whatever came before it, a well-formed line is executed with exactly    *)
(* the data it spells; anything executed is spelled by the end of the line *)
(* that was just completed; and each execution is answered with its own    *)
(* status before the next character is looked at.                          *)
(***************************************************************************)
EXTENDS Naturals, Sequences

CONSTANTS
  Chars,       (* the characters of the wire                                *)
  Newlines,    (* those that end a line                                     *)
  Status,      (* what a command may answer                                 *)
  NoCall,      (* nothing is being executed                                 *)
  Request(_)   (* the call a text spells, or NoCall                         *)

VARIABLES
  ready,       (* the server listens                                        *)
  line,        (* the characters of the line so far                         *)
  call,        (* the call being executed, or NoCall                        *)
  answer       (* the answer sent since the last character, if any          *)

vars == <<ready, line, call, answer>>

(* The last n characters of a text. *)
Ending(text, n) == SubSeq(text, Len(text) - n + 1, Len(text))

Init == ready = FALSE /\ line = <<>> /\ call = NoCall /\ answer = NoCall

Start == ~ready /\ ready' = TRUE /\ UNCHANGED <<line, call, answer>>

Type(c) ==
  /\ ready /\ call = NoCall
  /\ line' = Append(line, c)
  /\ answer' = NoCall
  /\ UNCHANGED <<ready, call>>

(* A request is executed; of a line that is none, at most the end is.      *)
Enter ==
  /\ ready /\ call = NoCall
  /\ line' = <<>>
  /\ IF Request(line) # NoCall
       THEN call' = Request(line)
       ELSE call' \in {NoCall} \union {Request(Ending(line, n)) : n \in 1 .. Len(line)}
  /\ answer' = NoCall
  /\ UNCHANGED ready

Reply(s) ==
  /\ call # NoCall
  /\ answer' = [call |-> call, status |-> s]
  /\ call' = NoCall
  /\ UNCHANGED <<ready, line>>

Next ==
  \/ Start
  \/ \E c \in Chars \ Newlines : Type(c)
  \/ Enter
  \/ \E s \in Status : Reply(s)

Spec == Init /\ [][Next]_vars
=============================================================================
