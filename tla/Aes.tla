---------------------------------- MODULE Aes ----------------------------------
(***************************************************************************)
(* Arithmetic on bytes, and AES-128 as FIPS 197 defines it: the reference  *)
(* that the two implementations of the firmware are checked against.  The  *)
(* S-box is computed from inverses in GF(2^8), not listed.                 *)
(*                                                                         *)
(* A word is four bytes, a block or a round key four words (the columns of *)
(* the state).  They are tuples, numbered from 1.                          *)
(***************************************************************************)
EXTENDS Integers, Sequences

Byte == 0 .. 255
Word == [1 .. 4 -> Byte]
Block == [1 .. 4 -> Word]

(* A table is a tuple; concatenation makes TLC compute its entries once. *)
Table(entry) == <<>> \o [i \in 1 .. 256 |-> entry[i - 1]]
At(table, byte) == table[byte + 1]

ByteXor ==
  LET xor[a \in Byte, b \in Byte] ==
        IF a + b = 0 THEN 0 ELSE ((a + b) % 2) + 2 * xor[a \div 2, b \div 2]
  IN Table([a \in Byte |-> Table([b \in Byte |-> xor[a, b]])])

(* Exclusive or of bytes, words and blocks. *)
a (+) b == At(At(ByteXor, a), b)

Four(Op(_)) == <<Op(1), Op(2), Op(3), Op(4)>>
XorWord(v, w) == Four(LAMBDA r : v[r] (+) w[r])
XorBlock(s, t) == Four(LAMBDA c : XorWord(s[c], t[c]))

(* x times the polynomial X, modulo X^8 + X^4 + X^3 + X + 1. *)
xtime(x) == ((2 * x) % 256) (+) ((x \div 128) * \h1b)

(* The product in GF(2^8), bit by bit of the second factor. *)
Mult(a, b) ==
  LET product[k \in 0 .. 8] ==
        IF k = 8 THEN 0
        ELSE (a * ((b \div 2 ^ k) % 2)) (+) xtime(product[k + 1])
  IN product[0]

Rotl8(a) == ((2 * a) % 256) + (a \div 128)

-----------------------------------------------------------------------------
(* FIPS 197. *)

Inverses == Table([a \in Byte |-> IF a = 0 THEN 0 ELSE CHOOSE b \in Byte : Mult(a, b) = 1])

SBox ==
  Table([a \in Byte |->
     LET b0 == At(Inverses, a)
         b1 == Rotl8(b0)
         b2 == Rotl8(b1)
         b3 == Rotl8(b2)
         b4 == Rotl8(b3)
     IN b0 (+) b1 (+) b2 (+) b3 (+) b4 (+) \h63])

InvSBox == Table([a \in Byte |-> CHOOSE b \in Byte : At(SBox, b) = a])

SubWord(w) == Four(LAMBDA r : At(SBox, w[r]))
RotWord(w) == <<w[2], w[3], w[4], w[1]>>
RCon == [i \in 1 .. 10 |-> LET x[k \in 1 .. 10] == IF k = 1 THEN 1 ELSE xtime(x[k - 1])
                           IN x[i]]

(* The round keys, as words. *)
AesKeys(key) ==
  LET words[n \in 4 .. 44] ==
        IF n = 4 THEN key
        ELSE LET w == words[n - 1]
                 temp == IF n % 4 = 1
                           THEN XorWord(SubWord(RotWord(w[n - 1])), <<RCon[(n - 1) \div 4], 0, 0, 0>>)
                           ELSE w[n - 1]
             IN Append(w, XorWord(w[n - 4], temp))
  IN words[44]

RoundKeyOf(w, round) == Four(LAMBDA c : w[4 * round + c])

AesSubBytes(s) == Four(LAMBDA c : SubWord(s[c]))

AesShiftRows(s) ==
  Four(LAMBDA c : Four(LAMBDA r : s[1 + ((c + r - 2) % 4)][r]))

MixMatrix == << <<2, 3, 1, 1>>, <<1, 2, 3, 1>>, <<1, 1, 2, 3>>, <<3, 1, 1, 2>> >>
AesMixColumns(s) ==
  Four(LAMBDA c : Four(LAMBDA r :
         Mult(s[c][1], MixMatrix[r][1]) (+) Mult(s[c][2], MixMatrix[r][2])
         (+) Mult(s[c][3], MixMatrix[r][3]) (+) Mult(s[c][4], MixMatrix[r][4])))

(* A round, and the states that the rounds make of a block; in TLC a       *)
(* function takes the value of its argument, an operator its expression.   *)
AesRound(w, round) ==
  [s \in Block |->
     LET shifted == AesShiftRows(AesSubBytes(s))
     IN XorBlock(IF round = 10 THEN shifted ELSE AesMixColumns(shifted), RoundKeyOf(w, round))]

AES(key, block) ==
  LET w == AesKeys(key)
      state[round \in 0 .. 10] ==
        IF round = 0 THEN XorBlock(block, RoundKeyOf(w, 0))
        ELSE AesRound(w, round)[state[round - 1]]
  IN state[10]
=============================================================================
