------------------------------- MODULE Responder -------------------------------
(***************************************************************************)
(* What the password check promises to the CAN bus, whoever asks and       *)
(* however fast: an answer is the verdict on one of the requests, and      *)
(* answers never go back to a request older than one already answered.     *)
(* It may skip requests and it may repeat its latest answer.               *)
(***************************************************************************)
EXTENDS Naturals, Sequences

VARIABLES
  asked,      (* for each request so far: is its password correct?          *)
  answered,   (* the number of the request answered last, 0 if none         *)
  verdict     (* the verdict in that answer                                 *)

vars == <<asked, answered, verdict>>

Init == asked = <<>> /\ answered = 0 /\ verdict = FALSE

Ask(correct) == asked' = Append(asked, correct) /\ UNCHANGED <<answered, verdict>>

Answer ==
  \E n \in answered .. Len(asked) :
    /\ n > 0
    /\ answered' = n /\ verdict' = asked[n]
    /\ UNCHANGED asked

Next == Answer \/ \E correct \in BOOLEAN : Ask(correct)

Spec == Init /\ [][Next]_vars
=============================================================================
