--------------------------------- MODULE Engines ---------------------------------
(***************************************************************************)
(* Console with the AES engines in it: the operators that Commands takes   *)
(* as parameters are those of TinyAes and MbedAes, and the answers asked   *)
(* for are those of FIPS 197 (Aes).                                        *)
(*                                                                         *)
(* The other assumptions are facts about bytes in which no constant        *)
(* occurs.  There are finitely many bytes, and TLC evaluates each fact     *)
(* completely: what the tables hold is computed, what follows from it for  *)
(* every key and block is proved (CommandsProofs).                         *)
(***************************************************************************)
EXTENDS Console, TinyAes, MbedAes

ASSUME EnginesAssumption ==
  /\ Keys \subseteq Block /\ Blocks \subseteq Block
  /\ NoKey \notin [1 .. 44 -> Word]
  /\ ZeroSchedule = [i \in 1 .. 44 |-> <<0, 0, 0, 0>>]
  /\ \A k \in Keys :
       /\ TinyKeys(k) = KeyExpansion(k)
       /\ MbedKeys(k) = mbedtls_aes_setkey_enc(k)
       /\ \A b \in Blocks :
            /\ TinyCipher(TinyKeys(k), b) = Cipher(TinyKeys(k), b)
            /\ MbedCipher(MbedKeys(k), b) = mbedtls_internal_aes_encrypt(MbedKeys(k), b)
            /\ Fips(k, b) = AES(k, b)
            /\ TinyDecrypt(k, Fips(k, b)) = AES128_ECB_decrypt(Fips(k, b), k)

-----------------------------------------------------------------------------
Nibble == 0 .. 15

(* Exclusive or works on the two halves of a byte, and is a group there.   *)
ASSUME XorFacts ==
  \A a, b \in Byte :
    /\ a (+) b \in Byte
    /\ a (+) b = b (+) a
    /\ a (+) 0 = a /\ a (+) a = 0
    /\ a (+) b = 16 * ((a \div 16) (+) (b \div 16)) + ((a % 16) (+) (b % 16))

ASSUME NibbleFacts ==
  \A a, b, c \in Nibble : a (+) b \in Nibble /\ (a (+) b) (+) c = a (+) (b (+) c)

ASSUME ProductFacts ==
  \A a \in Byte :
    /\ xtime(a) \in Byte
    /\ Mult(a, 1) = a /\ Mult(a, 2) = xtime(a) /\ Mult(a, 3) = xtime(a) (+) a
    /\ \A b \in Byte : xtime(a (+) b) = xtime(a) (+) xtime(b)

(* The listed and the generated tables are those of the standard. *)
ASSUME TableFacts ==
  /\ \A a \in Byte :
       LET s == At(SBox, a)
       IN /\ s \in Byte
          /\ getSBoxValue(a) = s /\ getSBoxInvert(s) = a /\ At(FSb, a) = s
          /\ At(FT0, a) = <<xtime(s), s, s, xtime(s) (+) s>>
          /\ At(FT1, a) = <<xtime(s) (+) s, xtime(s), s, s>>
          /\ At(FT2, a) = <<s, xtime(s) (+) s, xtime(s), s>>
          /\ At(FT3, a) = <<s, s, xtime(s) (+) s, xtime(s)>>
  /\ At(SBox, 0) # 0
  /\ \A i \in 1 .. 10 : RCon[i] \in Byte /\ Rcon[i + 1] = RCon[i] /\ RCON[i] = RCon[i]

(* Multiply is linear in the byte for the factors of InvMixColumn. *)
ASSUME MultiplyFacts ==
  \A e \in {9, 11, 13, 14} : \A a \in Byte :
    /\ Multiply(a, e) \in Byte
    /\ \A b \in Byte : Multiply(a (+) b, e) = Multiply(a, e) (+) Multiply(b, e)

(* What a row of InvMixColumn, with these factors, makes of each column of *)
(* MixColumns: a row of the unit matrix.                                   *)
InvRow(v, e) ==
  Multiply(v[1], e[1]) (+) Multiply(v[2], e[2]) (+) Multiply(v[3], e[3]) (+) Multiply(v[4], e[4])
Unmixed(e, a) ==
  LET x2 == xtime(a)
      x3 == xtime(a) (+) a
  IN <<InvRow(<<x2, a, a, x3>>, e), InvRow(<<x3, x2, a, a>>, e),
       InvRow(<<a, x3, x2, a>>, e), InvRow(<<a, a, x3, x2>>, e)>>

ASSUME InverseFacts ==
  \A a \in Byte :
    /\ Unmixed(<<14, 11, 13, 9>>, a) = <<a, 0, 0, 0>>
    /\ Unmixed(<<9, 14, 11, 13>>, a) = <<0, a, 0, 0>>
    /\ Unmixed(<<13, 9, 14, 11>>, a) = <<0, 0, a, 0>>
    /\ Unmixed(<<11, 13, 9, 14>>, a) = <<0, 0, 0, a>>
=============================================================================
