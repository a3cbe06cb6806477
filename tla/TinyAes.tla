-------------------------------- MODULE TinyAes --------------------------------
(***************************************************************************)
(* tinyaes128.c.  The static pointers Key and state are the arguments and  *)
(* the array RoundKey the value of KeyExpansion; the loops over the bytes  *)
(* of a state are operators on it.                                         *)
(***************************************************************************)
EXTENDS Aes

sbox == <<
  \h63, \h7c, \h77, \h7b, \hf2, \h6b, \h6f, \hc5, \h30, \h01, \h67, \h2b, \hfe, \hd7, \hab, \h76,
  \hca, \h82, \hc9, \h7d, \hfa, \h59, \h47, \hf0, \had, \hd4, \ha2, \haf, \h9c, \ha4, \h72, \hc0,
  \hb7, \hfd, \h93, \h26, \h36, \h3f, \hf7, \hcc, \h34, \ha5, \he5, \hf1, \h71, \hd8, \h31, \h15,
  \h04, \hc7, \h23, \hc3, \h18, \h96, \h05, \h9a, \h07, \h12, \h80, \he2, \heb, \h27, \hb2, \h75,
  \h09, \h83, \h2c, \h1a, \h1b, \h6e, \h5a, \ha0, \h52, \h3b, \hd6, \hb3, \h29, \he3, \h2f, \h84,
  \h53, \hd1, \h00, \hed, \h20, \hfc, \hb1, \h5b, \h6a, \hcb, \hbe, \h39, \h4a, \h4c, \h58, \hcf,
  \hd0, \hef, \haa, \hfb, \h43, \h4d, \h33, \h85, \h45, \hf9, \h02, \h7f, \h50, \h3c, \h9f, \ha8,
  \h51, \ha3, \h40, \h8f, \h92, \h9d, \h38, \hf5, \hbc, \hb6, \hda, \h21, \h10, \hff, \hf3, \hd2,
  \hcd, \h0c, \h13, \hec, \h5f, \h97, \h44, \h17, \hc4, \ha7, \h7e, \h3d, \h64, \h5d, \h19, \h73,
  \h60, \h81, \h4f, \hdc, \h22, \h2a, \h90, \h88, \h46, \hee, \hb8, \h14, \hde, \h5e, \h0b, \hdb,
  \he0, \h32, \h3a, \h0a, \h49, \h06, \h24, \h5c, \hc2, \hd3, \hac, \h62, \h91, \h95, \he4, \h79,
  \he7, \hc8, \h37, \h6d, \h8d, \hd5, \h4e, \ha9, \h6c, \h56, \hf4, \hea, \h65, \h7a, \hae, \h08,
  \hba, \h78, \h25, \h2e, \h1c, \ha6, \hb4, \hc6, \he8, \hdd, \h74, \h1f, \h4b, \hbd, \h8b, \h8a,
  \h70, \h3e, \hb5, \h66, \h48, \h03, \hf6, \h0e, \h61, \h35, \h57, \hb9, \h86, \hc1, \h1d, \h9e,
  \he1, \hf8, \h98, \h11, \h69, \hd9, \h8e, \h94, \h9b, \h1e, \h87, \he9, \hce, \h55, \h28, \hdf,
  \h8c, \ha1, \h89, \h0d, \hbf, \he6, \h42, \h68, \h41, \h99, \h2d, \h0f, \hb0, \h54, \hbb, \h16 >>

rsbox == <<
  \h52, \h09, \h6a, \hd5, \h30, \h36, \ha5, \h38, \hbf, \h40, \ha3, \h9e, \h81, \hf3, \hd7, \hfb,
  \h7c, \he3, \h39, \h82, \h9b, \h2f, \hff, \h87, \h34, \h8e, \h43, \h44, \hc4, \hde, \he9, \hcb,
  \h54, \h7b, \h94, \h32, \ha6, \hc2, \h23, \h3d, \hee, \h4c, \h95, \h0b, \h42, \hfa, \hc3, \h4e,
  \h08, \h2e, \ha1, \h66, \h28, \hd9, \h24, \hb2, \h76, \h5b, \ha2, \h49, \h6d, \h8b, \hd1, \h25,
  \h72, \hf8, \hf6, \h64, \h86, \h68, \h98, \h16, \hd4, \ha4, \h5c, \hcc, \h5d, \h65, \hb6, \h92,
  \h6c, \h70, \h48, \h50, \hfd, \hed, \hb9, \hda, \h5e, \h15, \h46, \h57, \ha7, \h8d, \h9d, \h84,
  \h90, \hd8, \hab, \h00, \h8c, \hbc, \hd3, \h0a, \hf7, \he4, \h58, \h05, \hb8, \hb3, \h45, \h06,
  \hd0, \h2c, \h1e, \h8f, \hca, \h3f, \h0f, \h02, \hc1, \haf, \hbd, \h03, \h01, \h13, \h8a, \h6b,
  \h3a, \h91, \h11, \h41, \h4f, \h67, \hdc, \hea, \h97, \hf2, \hcf, \hce, \hf0, \hb4, \he6, \h73,
  \h96, \hac, \h74, \h22, \he7, \had, \h35, \h85, \he2, \hf9, \h37, \he8, \h1c, \h75, \hdf, \h6e,
  \h47, \hf1, \h1a, \h71, \h1d, \h29, \hc5, \h89, \h6f, \hb7, \h62, \h0e, \haa, \h18, \hbe, \h1b,
  \hfc, \h56, \h3e, \h4b, \hc6, \hd2, \h79, \h20, \h9a, \hdb, \hc0, \hfe, \h78, \hcd, \h5a, \hf4,
  \h1f, \hdd, \ha8, \h33, \h88, \h07, \hc7, \h31, \hb1, \h12, \h10, \h59, \h27, \h80, \hec, \h5f,
  \h60, \h51, \h7f, \ha9, \h19, \hb5, \h4a, \h0d, \h2d, \he5, \h7a, \h9f, \h93, \hc9, \h9c, \hef,
  \ha0, \he0, \h3b, \h4d, \hae, \h2a, \hf5, \hb0, \hc8, \heb, \hbb, \h3c, \h83, \h53, \h99, \h61,
  \h17, \h2b, \h04, \h7e, \hba, \h77, \hd6, \h26, \he1, \h69, \h14, \h63, \h55, \h21, \h0c, \h7d >>

Rcon == << \h8d, \h01, \h02, \h04, \h08, \h10, \h20, \h40, \h80, \h1b, \h36 >>

getSBoxValue(num) == sbox[num + 1]
getSBoxInvert(num) == rsbox[num + 1]

Nk == 4
Nr == 10

-----------------------------------------------------------------------------
(* Faulty variants of the definitions below: bugs the properties must notice. *)

Substituted_NoRotation(tempa, i) ==
  <<getSBoxValue(tempa[1]) (+) Rcon[i \div Nk + 1], getSBoxValue(tempa[2]),
    getSBoxValue(tempa[3]), getSBoxValue(tempa[4])>>

-----------------------------------------------------------------------------
(* RotWord, Subword and the round constant. *)
Substituted(tempa, i) ==
  <<getSBoxValue(tempa[2]) (+) Rcon[i \div Nk + 1], getSBoxValue(tempa[3]),
    getSBoxValue(tempa[4]), getSBoxValue(tempa[1])>>

(* Word i is made from the words i - 1 and i - Nk (counted from 0). *)
KeyExpansion(Key) ==
  LET RK[i \in 3 .. 4 * Nr + 3] ==
        IF i = 3 THEN Key
        ELSE LET prev == RK[i - 1]
                 tempa == IF i % Nk = 0 THEN Substituted(prev[i], i) ELSE prev[i]
             IN Append(prev, XorWord(prev[i - Nk + 1], tempa))
  IN RK[4 * Nr + 3]

AddRoundKey(s, RK, round) ==
  Four(LAMBDA i : XorWord(s[i], RK[4 * round + i]))

SubBytes(s) == Four(LAMBDA i : Four(LAMBDA j : getSBoxValue(s[i][j])))
InvSubBytes(s) == Four(LAMBDA i : Four(LAMBDA j : getSBoxInvert(s[i][j])))

(* What the assignments through temp leave in each column. *)
ShiftRows(s) ==
  << <<s[1][1], s[2][2], s[3][3], s[4][4]>>, <<s[2][1], s[3][2], s[4][3], s[1][4]>>,
     <<s[3][1], s[4][2], s[1][3], s[2][4]>>, <<s[4][1], s[1][2], s[2][3], s[3][4]>> >>
InvShiftRows(s) ==
  << <<s[1][1], s[4][2], s[3][3], s[2][4]>>, <<s[2][1], s[1][2], s[4][3], s[3][4]>>,
     <<s[3][1], s[2][2], s[1][3], s[4][4]>>, <<s[4][1], s[3][2], s[2][3], s[1][4]>> >>

(* Each byte of a column gets the sum of all and twice the sum of itself   *)
(* and the next.                                                           *)
MixColumn(a) ==
  LET Tmp == a[1] (+) a[2] (+) a[3] (+) a[4]
      Tm(x, y) == xtime(x (+) y)
  IN <<a[1] (+) Tm(a[1], a[2]) (+) Tmp, a[2] (+) Tm(a[2], a[3]) (+) Tmp,
       a[3] (+) Tm(a[3], a[4]) (+) Tmp, a[4] (+) Tm(a[4], a[1]) (+) Tmp>>
MixColumns(s) == Four(LAMBDA i : MixColumn(s[i]))

(* The factors are below 16: the term for y >> 4 is 0. *)
Multiply(x, y) ==
  LET times(k) == (y \div 2 ^ k) % 2
  IN times(0) * x (+) times(1) * xtime(x) (+) times(2) * xtime(xtime(x))
     (+) times(3) * xtime(xtime(xtime(x)))

InvMixColumn(a) ==
  LET sum(e, b, d, n) ==
        Multiply(a[1], e) (+) Multiply(a[2], b) (+) Multiply(a[3], d) (+) Multiply(a[4], n)
  IN <<sum(14, 11, 13, 9), sum(9, 14, 11, 13), sum(13, 9, 14, 11), sum(11, 13, 9, 14)>>
InvMixColumns(s) == Four(LAMBDA i : InvMixColumn(s[i]))

(* What a turn of the loop over the rounds makes of the state, and the     *)
(* states after each.                                                      *)
CipherTurn(RK, round) ==
  [s \in Block |->
     LET shifted == ShiftRows(SubBytes(s))
     IN AddRoundKey(IF round = Nr THEN shifted ELSE MixColumns(shifted), RK, round)]

Cipher(RK, input) ==
  LET state[round \in 0 .. Nr] ==
        IF round = 0 THEN AddRoundKey(input, RK, 0)
        ELSE CipherTurn(RK, round)[state[round - 1]]
  IN state[Nr]

InvCipherTurn(RK, round) ==
  [s \in Block |->
     LET added == AddRoundKey(InvSubBytes(InvShiftRows(s)), RK, round)
     IN IF round = 0 THEN added ELSE InvMixColumns(added)]

InvCipher(RK, input) ==
  LET state[round \in 0 .. Nr] ==
        IF round = Nr THEN AddRoundKey(input, RK, Nr)
        ELSE InvCipherTurn(RK, round)[state[round + 1]]
  IN state[0]

AES128_ECB_decrypt(input, key) == InvCipher(KeyExpansion(key), input)
=============================================================================
