------------------------------- MODULE Handoff -------------------------------
(***************************************************************************)
(* What the mailbox promises: a word with one owner at a time.  The client *)
(* may overwrite the word only while it owns it, the server may increment  *)
(* it at most once each time it is given the word, and nobody else touches *)
(* it once the system has settled (before that a scrub may zero it at any  *)
(* time).  It does not promise that the server does its work before the    *)
(* word comes back: the mailbox of this firmware does not.                 *)
(***************************************************************************)
EXTENDS Integers

CONSTANTS WordMax, Sent

VARIABLES
  word,      (* the word                                                    *)
  owner,     (* who may touch it                                            *)
  spent,     (* the server has used its increment                           *)
  settled    (* nobody scrubs the word any more                             *)

vars == <<word, owner, spent, settled>>

Word == 0 .. WordMax
Inc(w) == IF w = WordMax THEN 0 ELSE w + 1

Init == word = 0 /\ owner = "client" /\ spent = FALSE /\ settled = FALSE

Request ==
  /\ owner = "client"
  /\ word' = Sent
  /\ UNCHANGED <<owner, spent, settled>>

Give ==
  /\ owner = "client"
  /\ owner' = "server" /\ spent' = FALSE
  /\ UNCHANGED <<word, settled>>

Work ==
  /\ owner = "server" /\ ~spent
  /\ word' = Inc(word)
  /\ spent' = TRUE
  /\ UNCHANGED <<owner, settled>>

Return ==
  /\ owner = "server"
  /\ owner' = "client"
  /\ UNCHANGED <<word, spent, settled>>

(* While the system settles the word may be zeroed under anybody's feet,   *)
(* the server's load and store included; the last scrub settles it.        *)
Scrub ==
  /\ ~settled
  /\ \/ word' = 0 /\ UNCHANGED spent
     \/ owner = "server" /\ ~spent /\ word' \in Word /\ spent' = TRUE
  /\ settled' \in BOOLEAN
  /\ UNCHANGED owner

Next == Request \/ Give \/ Work \/ Return \/ Scrub

Spec == Init /\ [][Next]_vars
=============================================================================
