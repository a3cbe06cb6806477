----------------------------- MODULE CipherService -----------------------------
(***************************************************************************)
(* What the commands h, k and p promise the host.  Each engine keeps a key *)
(* of its own, the one last given while the engine was selected; p answers *)
(* with the selected engine's encryption under that key.  A host that      *)
(* never gave the engine a key is promised nothing, and one that selected  *)
(* an engine this firmware does not have gets its plaintext back.          *)
(***************************************************************************)
CONSTANTS
  Keys, Blocks,
  NoKey,
  Engines,          \* those the firmware has
  Forgetful,        \* those whose selection drops their key
  Enc(_, _, _)      \* engine, key and block to the encrypted block

VARIABLES
  engine,           \* a member of Engines, or anything else for none
  keys,
  answer            \* the last plaintext answered, with the answer

vars == <<engine, keys, answer>>

Init ==
  /\ engine \in Engines
  /\ keys \in [Engines -> Keys \cup {NoKey}]

Select ==
  /\ keys' = IF engine' \in Forgetful THEN [keys EXCEPT ![engine'] = NoKey] ELSE keys
  /\ UNCHANGED answer

SetKey(k) ==
  /\ engine \in Engines
  /\ keys' = [keys EXCEPT ![engine] = k]
  /\ UNCHANGED <<engine, answer>>

(* The host replaced the engine's program. *)
Forget(e) ==
  /\ keys' = [keys EXCEPT ![e] = NoKey]
  /\ UNCHANGED <<engine, answer>>

Promised(pt, ct) ==
  /\ engine \in Engines => (keys[engine] # NoKey => ct = Enc(engine, keys[engine], pt))
  /\ engine \notin Engines => ct = pt

Encrypt(pt) ==
  /\ answer' = [pt |-> pt, ct |-> answer'.ct]
  /\ Promised(pt, answer'.ct)
  /\ UNCHANGED <<engine, keys>>

Next ==
  \/ Select
  \/ \E k \in Keys : SetKey(k)
  \/ \E e \in Engines : Forget(e)
  \/ \E pt \in Blocks : Encrypt(pt)

Spec == Init /\ [][Next]_vars
=============================================================================
