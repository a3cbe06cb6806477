-------------------------------- MODULE Commands --------------------------------
(***************************************************************************)
(* The command handlers of simpleserial_Z4_0.c that encrypt (h, k, p) and  *)
(* those of the password groups (w, q, l), as the firmware is built, with  *)
(* SUPPORT_HSM 0.  simpleserial_get calls one handler at a time; what it   *)
(* checks before is in SimpleSerial.  A handler that drives the trigger    *)
(* pin takes one step for each state of the pin that can be seen outside.  *)
(***************************************************************************)
EXTENDS Integers, Sequences

CONSTANTS
  Keys, Blocks,            \* what k and p may carry
  TinyKeys(_),             \* tinyaes128.c: key to round keys
  TinyCipher(_, _),        \* round keys and block to block
  TinyDecrypt(_, _),       \* key and block to block
  MbedKeys(_),             \* the same of aes.c
  MbedCipher(_, _),
  Xor(_, _),
  UserEnc(_, _),           \* the program loaded to RAM: key and block to block
  Fips(_, _),              \* FIPS 197: key and block to block
  ZeroKey, ZeroSchedule,   \* what start-up leaves in xor_key and RoundKey
  NoKey, Garbage,          \* no key, a block that nothing is known about
  Passwords, PasswordOf,   \* what q may carry; the password of each group
  Menus                    \* the sets of commands that a host may use

MODULE_INVALID == 0
MODULE_MBED    == 1
MODULE_CUSTOM  == 2
MODULE_XOR     == 16
MODULE_HWAES   == 32
MODULE_SWAESHSM == 64
MODULE_SWAES   == 128

Modules == {MODULE_INVALID, MODULE_MBED, MODULE_CUSTOM, MODULE_XOR, MODULE_HWAES,
            MODULE_SWAESHSM, MODULE_SWAES}
Groups == 0 .. 3

VARIABLES
  enc_module,
  RoundKey,        \* of tinyaes128.c
  xor_key,
  mbed,            \* the round keys of the context, or NoKey: nr = 0, rk = NULL
  aes_init_done,   \* aes.c has generated its tables
  ram,             \* [key, enc]: code at CUSTOM_KEY_FUNC, at CUSTOM_ENC_FUNC
  custom_key,      \* what the program in RAM was called with
  pwgroup,
  PASS,            \* [GRP, CIN, PGL]: the selected group, the challenge, the locks
  trigger,         \* the pin is high
  pc,              \* where the handler is
  cmd,             \* the command being handled and its argument
  pt,              \* the buffer get_pt works in
  answer,          \* the last plaintext answered with r, with the answer
  status,          \* what the last handler returned
  menu             \* the commands this host uses

engines == <<enc_module, RoundKey, xor_key, mbed, aes_init_done, ram, custom_key>>
handler == <<trigger, pc, cmd, pt, answer, status>>
vars == <<engines, pwgroup, PASS, handler, menu>>

Available == {MODULE_SWAES, MODULE_XOR, MODULE_MBED, MODULE_CUSTOM}

Init ==
  /\ enc_module = MODULE_SWAES
  /\ RoundKey = ZeroSchedule
  /\ xor_key = ZeroKey
  /\ mbed = NoKey
  /\ aes_init_done = FALSE
  /\ ram = [key |-> FALSE, enc |-> FALSE]
  /\ custom_key = NoKey
  /\ pwgroup = 0
  /\ PASS = [GRP |-> 0, CIN |-> NoKey, PGL |-> [g \in Groups |-> TRUE]]
  /\ trigger = FALSE
  /\ pc = "idle"
  /\ cmd = [name |-> "none", arg |-> NoKey]
  /\ pt = Garbage
  /\ answer = [pt |-> Garbage, ct |-> Garbage]
  /\ status = 0
  /\ menu \in Menus

Called(name) == pc = "idle" /\ name \in menu

Return(s) == /\ status' = s
             /\ pc' = "idle"
             /\ UNCHANGED <<trigger, cmd, pt, answer>>

-----------------------------------------------------------------------------
(* Faulty variants of the definitions below: bugs the properties must notice. *)

set_module_KeepsContext(mod) ==
  /\ Called("h")
  /\ enc_module' = mod
  /\ Return(IF mod \in Modules \ {MODULE_INVALID} THEN 0 ELSE 255)
  /\ mbed' = IF mod = MODULE_SWAES THEN NoKey ELSE mbed
  /\ UNCHANGED <<RoundKey, xor_key, aes_init_done, ram, custom_key, pwgroup, PASS, menu>>

get_key_NoTables(k) ==
  /\ Called("k")
  /\ RoundKey' = IF enc_module = MODULE_SWAES THEN TinyKeys(k) ELSE RoundKey
  /\ mbed' = IF enc_module = MODULE_MBED THEN MbedKeys(k) ELSE mbed
  /\ Return(0)
  /\ UNCHANGED <<enc_module, xor_key, aes_init_done, ram, custom_key, pwgroup, PASS, menu>>

TriggerLow_OnlyForPt ==
  /\ pc = "low"
  /\ trigger' = (cmd.name = "q")
  /\ pc' = IF cmd.name = "p" THEN "put" ELSE "return"
  /\ UNCHANGED <<engines, pwgroup, PASS, cmd, pt, answer, status, menu>>

set_pw_StaleGroup(pw) ==
  /\ Called("q")
  /\ cmd' = [name |-> "q", arg |-> pw]
  /\ pc' = "high"
  /\ UNCHANGED <<engines, pwgroup, PASS, trigger, pt, answer, status, menu>>

-----------------------------------------------------------------------------
(* h.  enc_module is set before it is known to be one of the list, and    *)
(* stays; a context that was freed was never set up (mbed_init is 0).      *)
set_module(mod) ==
  /\ Called("h")
  /\ enc_module' = mod
  /\ Return(IF mod \in Modules \ {MODULE_INVALID} THEN 0 ELSE 255)
  /\ mbed' = IF mod = MODULE_MBED THEN NoKey ELSE mbed
  /\ UNCHANGED <<RoundKey, xor_key, aes_init_done, ram, custom_key, pwgroup, PASS, menu>>

(* k.  For HWAES it prints that there is no HSM. *)
get_key(k) ==
  /\ Called("k")
  /\ RoundKey' = IF enc_module = MODULE_SWAES THEN TinyKeys(k) ELSE RoundKey
  /\ xor_key' = IF enc_module = MODULE_XOR THEN k ELSE xor_key
  /\ mbed' = IF enc_module = MODULE_MBED THEN MbedKeys(k) ELSE mbed
  /\ aes_init_done' = (aes_init_done \/ enc_module = MODULE_MBED)
  /\ custom_key' = IF enc_module = MODULE_CUSTOM /\ ram.key THEN k ELSE custom_key
  /\ Return(IF \/ enc_module \in {MODULE_HWAES, MODULE_SWAES, MODULE_XOR, MODULE_MBED}
               \/ enc_module = MODULE_CUSTOM /\ ram.key
              THEN 0 ELSE 255)
  /\ UNCHANGED <<enc_module, ram, pwgroup, PASS, menu>>

(* p, up to the trigger.  An engine that is not there leaves the plaintext *)
(* to be answered; an empty RAM is not called.                             *)
get_pt(b) ==
  /\ Called("p")
  /\ cmd' = [name |-> "p", arg |-> b]
  /\ pt' = b
  /\ IF enc_module = MODULE_CUSTOM /\ ~ram.enc
       THEN status' = 255 /\ pc' = "idle"
       ELSE /\ pc' = IF enc_module \in Available THEN "high" ELSE "put"
            /\ UNCHANGED status
  /\ UNCHANGED <<engines, pwgroup, PASS, trigger, answer, menu>>

(* The blocks that the selected engine may leave in the buffer.  Without a *)
(* key mbedTLS reads its round keys at address 0.                          *)
Encrypted(b) ==
  CASE enc_module = MODULE_SWAES -> {TinyCipher(RoundKey, b)}
    [] enc_module = MODULE_XOR -> {Xor(b, xor_key)}
    [] enc_module = MODULE_MBED ->
         IF mbed = NoKey \/ ~aes_init_done THEN {Garbage} ELSE {MbedCipher(mbed, b)}
    [] enc_module = MODULE_CUSTOM ->
         IF custom_key = NoKey THEN {Garbage} ELSE {UserEnc(custom_key, b)}

TriggerHigh ==
  /\ pc = "high"
  /\ trigger' = TRUE
  /\ pc' = "work"
  /\ UNCHANGED <<engines, pwgroup, PASS, cmd, pt, answer, status, menu>>

Encrypt ==
  /\ pc = "work" /\ cmd.name = "p"
  /\ pt' \in Encrypted(pt)
  /\ pc' = "low"
  /\ UNCHANGED <<engines, pwgroup, PASS, trigger, cmd, answer, status, menu>>

(* The read at address 0 raises an exception whose handler is a loop. *)
Crash ==
  /\ pc = "work" /\ cmd.name = "p" /\ enc_module = MODULE_MBED /\ mbed = NoKey
  /\ pc' = "stopped"
  /\ UNCHANGED <<engines, pwgroup, PASS, trigger, cmd, pt, answer, status, menu>>

Stopped == pc = "stopped" /\ UNCHANGED vars

TriggerLow ==
  /\ pc = "low"
  /\ trigger' = FALSE
  /\ pc' = IF cmd.name = "p" THEN "put" ELSE "return"
  /\ UNCHANGED <<engines, pwgroup, PASS, cmd, pt, answer, status, menu>>

simpleserial_put ==
  /\ pc = "put"
  /\ answer' = [pt |-> cmd.arg, ct |-> pt]
  /\ status' = 0
  /\ pc' = "idle"
  /\ UNCHANGED <<engines, pwgroup, PASS, trigger, cmd, pt, menu>>

(* Monitor mode stores to one or both of the places that h02 jumps to; the *)
(* new program has no key yet.                                             *)
Upload(key, enc) ==
  /\ Called("m") /\ (key \/ enc)
  /\ ram' = [key |-> ram.key \/ key, enc |-> ram.enc \/ enc]
  /\ custom_key' = NoKey
  /\ UNCHANGED <<enc_module, RoundKey, xor_key, mbed, aes_init_done, pwgroup, PASS,
                 handler, menu>>

-----------------------------------------------------------------------------
(* w, l and q.  q returns the group as its status. *)
set_pwgroup(group) ==
  /\ Called("w")
  /\ pwgroup' = IF group < 4 THEN group ELSE pwgroup
  /\ Return(IF group < 4 THEN 0 ELSE 1)
  /\ UNCHANGED <<engines, PASS, menu>>

set_pwlock ==
  /\ Called("l")
  /\ PASS' = [PASS EXCEPT !.PGL[pwgroup] = TRUE]
  /\ Return(0)
  /\ UNCHANGED <<engines, pwgroup, menu>>

set_pw(pw) ==
  /\ Called("q")
  /\ PASS' = [PASS EXCEPT !.GRP = pwgroup]
  /\ cmd' = [name |-> "q", arg |-> pw]
  /\ pc' = "high"
  /\ UNCHANGED <<engines, pwgroup, trigger, pt, answer, status, menu>>

(* The eighth word of the challenge makes the module compare it. *)
Challenged(pass, pw) ==
  [pass EXCEPT !.CIN = pw, !.PGL[pass.GRP] = @ /\ pw # PasswordOf[pass.GRP]]

Challenge ==
  /\ pc = "work" /\ cmd.name = "q"
  /\ PASS' = Challenged(PASS, cmd.arg)
  /\ pc' = "low"
  /\ UNCHANGED <<engines, pwgroup, trigger, cmd, pt, answer, status, menu>>

ReturnGroup ==
  /\ pc = "return"
  /\ Return(pwgroup)
  /\ UNCHANGED <<engines, pwgroup, PASS, menu>>

-----------------------------------------------------------------------------
Next ==
  \/ \E mod \in Modules : set_module(mod)
  \/ \E k \in Keys : get_key(k)
  \/ \E b \in Blocks : get_pt(b)
  \/ TriggerHigh
  \/ Encrypt
  \/ Crash
  \/ Stopped
  \/ TriggerLow
  \/ simpleserial_put
  \/ \E key, enc \in BOOLEAN : Upload(key, enc)
  \/ \E group \in 0 .. 4 : set_pwgroup(group)
  \/ set_pwlock
  \/ \E pw \in Passwords : set_pw(pw)
  \/ Challenge
  \/ ReturnGroup

Spec == Init /\ [][Next]_vars

-----------------------------------------------------------------------------
EngineTypes ==
  /\ enc_module \in Modules
  /\ RoundKey \in {ZeroSchedule} \cup {TinyKeys(k) : k \in Keys}
  /\ xor_key \in {ZeroKey} \cup Keys
  /\ mbed \in {NoKey} \cup {MbedKeys(k) : k \in Keys}
  /\ aes_init_done \in BOOLEAN
  /\ ram \in [key : BOOLEAN, enc : BOOLEAN]
  /\ custom_key \in {NoKey} \cup Keys

PassTypes ==
  /\ pwgroup \in Groups
  /\ PASS \in [GRP : Groups, CIN : {NoKey} \cup Passwords, PGL : [Groups -> BOOLEAN]]

HandlerTypes ==
  /\ trigger \in BOOLEAN
  /\ pc \in {"idle", "high", "work", "low", "put", "return", "stopped", "glitch"}
  /\ cmd \in [name : {"none"}, arg : {NoKey}] \cup [name : {"p"}, arg : Blocks]
              \cup [name : {"q"}, arg : Passwords]

TypeOK == EngineTypes /\ PassTypes /\ HandlerTypes

(* The pin is high exactly while the engine or the comparison runs. *)
TriggerInv == pc # "glitch" => trigger = (pc \in {"work", "low", "stopped"})

(* What the buffer holds at each place in get_pt. *)
BufferInv ==
  /\ pc = "put" => cmd.name = "p"
  /\ pc = "return" => cmd.name = "q"
  /\ pc \in {"high", "work", "low"} => cmd.name \in {"p", "q"}
  /\ cmd.name = "p" =>
       /\ pc \in {"high", "work", "low"} => enc_module \in Available
       /\ pc \in {"high", "work"} => pt = cmd.arg
       /\ pc \in {"low", "put"} =>
            IF enc_module \in Available THEN pt \in Encrypted(cmd.arg) ELSE pt = cmd.arg

(* The challenge goes to the group that w selected. *)
GroupInv == pc \in {"high", "work"} /\ cmd.name = "q" => PASS.GRP = pwgroup

(* A context that has round keys was given tables before. *)
TablesInv == mbed # NoKey => aes_init_done

CmdInv == TypeOK /\ TriggerInv /\ BufferInv /\ GroupInv /\ TablesInv

-----------------------------------------------------------------------------
(* Under every key that an engine holds, both implementations compute AES, *)
(* their round keys begin with the key and are never those of a fresh      *)
(* start, and tinyaes128 undoes AES.                                       *)
KeyIn(schedule) == SubSeq(schedule, 1, 4)

AreAes(held) ==
  \A k \in held :
    /\ KeyIn(TinyKeys(k)) = k /\ KeyIn(MbedKeys(k)) = k
    /\ TinyKeys(k) # ZeroSchedule /\ MbedKeys(k) # NoKey
    /\ \A b \in Blocks : /\ TinyCipher(TinyKeys(k), b) = Fips(k, b)
                          /\ MbedCipher(MbedKeys(k), b) = Fips(k, b)
                          /\ TinyDecrypt(k, Fips(k, b)) = b

EnginesAreAes ==
  AreAes({KeyIn(schedule) : schedule \in {RoundKey, mbed} \ {ZeroSchedule, NoKey}})

(* Between two commands the trigger pin is low, whichever way the handler  *)
(* of the first was left: the host captures from its rising edge.          *)
TriggerLowWhenIdle == pc = "idle" => ~trigger

(* A password group is unlocked by nothing but its own password, sent with *)
(* q while it was the group that the last accepted w had selected.         *)
UnlockedOnlyByPassword ==
  [][\A g \in Groups : PASS.PGL[g] /\ ~PASS'.PGL[g] =>
       cmd = [name |-> "q", arg |-> PasswordOf[g]] /\ pwgroup = g]_vars

(* The handlers keep what CipherService promises, each engine's key being  *)
(* the one its round keys were made of.                                    *)
EngineEnc(e, k, b) ==
  CASE e \in {MODULE_SWAES, MODULE_MBED} -> Fips(k, b)
    [] e = MODULE_XOR -> Xor(b, k)
    [] e = MODULE_CUSTOM -> UserEnc(k, b)

EngineKeys ==
  [e \in Available |->
     CASE e = MODULE_SWAES -> IF RoundKey = ZeroSchedule THEN NoKey ELSE KeyIn(RoundKey)
       [] e = MODULE_XOR -> xor_key
       [] e = MODULE_MBED -> IF mbed = NoKey THEN NoKey ELSE KeyIn(mbed)
       [] e = MODULE_CUSTOM -> custom_key]

Service == INSTANCE CipherService
             WITH Keys <- Keys \cup {ZeroKey}, Engines <- Available, Forgetful <- {MODULE_MBED},
                  Enc <- EngineEnc, engine <- enc_module, keys <- EngineKeys

ImplementsCipherService == Service!Spec
=============================================================================
