------------------------------- MODULE MbedTables -------------------------------
(***************************************************************************)
(* The last loop of aes_gen_tables: the tables for decryption.  The arrays *)
(* pow and log are not arrays of their own: they lie in RT2 and RT3, which *)
(* this loop writes while it still looks products up in them.              *)
(*                                                                         *)
(* RT2 and RT3 hold words; an int of pow or log is the word with that low  *)
(* byte.  RT1 is written and not read here and is left out.                *)
(***************************************************************************)
EXTENDS MbedAes

VARIABLES
  RT0,   \* the entries made so far
  RT2,   \* pow, then from the front the third reverse table
  RT3    \* log, then from the front the fourth

tables == <<RT0, RT2, RT3>>

IntWord(x) == <<x, 0, 0, 0>>
Shift(w, bytes) == Four(LAMBDA r : IF r > bytes THEN w[r - bytes] ELSE 0)

(* The logarithm of x is still what the first loop wrote. *)
LogIntact(x) == x >= Len(RT0)

MUL(x, y) ==
  IF y = 0 THEN IntWord(0)
  ELSE At(RT2, (At(RT3, x)[1] + At(RT3, y)[1]) % 255)

Init ==
  /\ RT0 = <<>>
  /\ RT2 = <<>> \o [k \in 1 .. 256 |-> IntWord(pow[k])]
  /\ RT3 = <<>> \o [k \in 1 .. 256 |-> IntWord(log[k])]

(* One turn of the loop.  Where a logarithm is overwritten the sum of two  *)
(* ints may overflow and the index leave the array: the model stops there. *)
GenerateReverse ==
  LET index == Len(RT0)
      s == At(RSb, index)
      entry == XorWord(XorWord(MUL(14, s), Shift(MUL(9, s), 1)),
                       XorWord(Shift(MUL(13, s), 2), Shift(MUL(11, s), 3)))
      rt2 == ROTL8(ROTL8(entry))
  IN /\ index < 256
     /\ \A x \in {9, 11, 13, 14, s} : LogIntact(x)
     /\ RT0' = Append(RT0, entry)
     /\ RT2' = [RT2 EXCEPT ![index + 1] = rt2]
     /\ RT3' = [RT3 EXCEPT ![index + 1] = ROTL8(rt2)]

Spec == Init /\ [][GenerateReverse]_tables

(* Each generated entry is the column that InvMixColumns makes of a byte   *)
(* after InvSubBytes (FIPS 197, 5.3.3): what decryption needs.             *)
ReverseTables ==
  \A k \in 1 .. Len(RT0) :
    LET s == InvSBox[k]
    IN RT0[k] = <<Mult(s, 14), Mult(s, 9), Mult(s, 13), Mult(s, 11)>>
=============================================================================
