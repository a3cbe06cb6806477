-------------------------------- MODULE MbedAes --------------------------------
(***************************************************************************)
(* AES-128 encryption of mbedTLS (aes.c) with the tables that its first    *)
(* key schedule generates.  A 32-bit word is the tuple of its bytes, the   *)
(* least significant first.  The tables for decryption are in MbedTables.  *)
(***************************************************************************)
EXTENDS Aes

ROTL8(w) == <<w[4], w[1], w[2], w[3]>>
(* Every use keeps the low byte. *)
XTIME(x) == ((2 * x) % 256) (+) (IF x >= 128 THEN \h1b ELSE 0)

(* FSb for x = pow[255 - log[i]], by the rotations of y. *)
Affine(x) ==
  LET y1 == Rotl8(x)
      y2 == Rotl8(y1)
      y3 == Rotl8(y2)
  IN x (+) y1 (+) y2 (+) y3 (+) Rotl8(y3) (+) \h63

-----------------------------------------------------------------------------
(* The tables. *)

(* Sixteen times sixteen entries, to keep TLC's recursion shallow. *)
pow ==
  LET row(x) == LET e[j \in 1 .. 16] ==
                      IF j = 1 THEN <<x>>
                      ELSE LET s == e[j - 1] IN Append(s, s[j - 1] (+) XTIME(s[j - 1]))
                IN e[16]
      rows[k \in 0 .. 15] ==
        IF k = 0 THEN row(1)
        ELSE LET s == rows[k - 1]
                 x == s[16 * k]
             IN s \o row(x (+) XTIME(x))
  IN rows[15]

(* 1 is met twice, and the later exponent stays; 0 is never met. *)
log ==
  Table([x \in Byte |->
    IF x = 0 THEN 0
    ELSE CHOOSE i \in 0 .. 255 : At(pow, i) = x /\ \A j \in i + 1 .. 255 : At(pow, j) # x])

FSb == Table([i \in Byte |-> IF i = 0 THEN \h63 ELSE Affine(At(pow, 255 - At(log, i)))])
RSb == Table([x \in Byte |-> CHOOSE i \in Byte : At(FSb, i) = x])

RCON ==
  LET entries[i \in 1 .. 10] ==
        IF i = 1 THEN 1 ELSE XTIME(entries[i - 1])
  IN <<>> \o entries

FT0 == Table([i \in Byte |-> LET x == At(FSb, i)
                            y == XTIME(x)
                        IN <<y, x, x, y (+) x>>])
FT1 == Table([i \in Byte |-> ROTL8(At(FT0, i))])
FT2 == Table([i \in Byte |-> ROTL8(At(FT1, i))])
FT3 == Table([i \in Byte |-> ROTL8(At(FT2, i))])

-----------------------------------------------------------------------------
(* The case of 128 bits; RK[i] is word i + 1. *)
mbedtls_aes_setkey_enc(key) ==
  LET schedule[i \in 0 .. 10] ==
        IF i = 0 THEN key
        ELSE LET RK == schedule[i - 1]
                 n == 4 * i
                 last == RK[n]
                 rotated == Four(LAMBDA r : At(FSb, last[1 + (r % 4)]))
                 RK4 == XorWord(XorWord(RK[n - 3], <<RCON[i], 0, 0, 0>>), rotated)
                 RK5 == XorWord(RK[n - 2], RK4)
                 RK6 == XorWord(RK[n - 1], RK5)
             IN RK \o <<RK4, RK5, RK6, XorWord(last, RK6)>>
  IN schedule[10]

(* The four words of a round from the four words Y and the round key. *)
AES_FROUND(RK, FT, Y) ==
  Four(LAMBDA c :
    LET y(k) == At(FT[k], Y[1 + ((c + k - 2) % 4)][k])
    IN XorWord(XorWord(XorWord(RK[c], y(1)), y(2)), XorWord(y(3), y(4))))

LastRound(RK, Y) ==
  Four(LAMBDA c :
    XorWord(RK[c], Four(LAMBDA k : At(FSb, Y[1 + ((c + k - 2) % 4)][k]))))

RoundWords(RK, round) == SubSeq(RK, 4 * round + 1, 4 * round + 4)

EncryptTurn(RK, round) ==
  [Y \in Block |->
     IF round = 10 THEN LastRound(RoundWords(RK, 10), Y)
     ELSE AES_FROUND(RoundWords(RK, round), <<FT0, FT1, FT2, FT3>>, Y)]

(* The words after each round, in X and Y by turns. *)
mbedtls_internal_aes_encrypt(RK, input) ==
  LET X[round \in 0 .. 10] ==
        IF round = 0 THEN XorBlock(input, RoundWords(RK, 0))
        ELSE EncryptTurn(RK, round)[X[round - 1]]
  IN X[10]
=============================================================================
