-------------------------------- MODULE MCConsole --------------------------------
(* Two keys and one block, those of FIPS 197 among them, two passwords for *)
(* four groups, and hosts that use one family of commands each.            *)
EXTENDS Engines

Key1 == << <<\h2b, \h7e, \h15, \h16>>, <<\h28, \hae, \hd2, \ha6>>,
           <<\hab, \hf7, \h15, \h88>>, <<\h09, \hcf, \h4f, \h3c>> >>
Key2 == << <<\h00, \h01, \h02, \h03>>, <<\h04, \h05, \h06, \h07>>,
           <<\h08, \h09, \h0a, \h0b>>, <<\h0c, \h0d, \h0e, \h0f>> >>
Block1 == << <<\h32, \h43, \hf6, \ha8>>, <<\h88, \h5a, \h30, \h8d>>,
             <<\h31, \h31, \h98, \ha2>>, <<\he0, \h37, \h07, \h34>> >>
MCKeys == {Key1, Key2}
MCBlocks == {Block1}

Zeros(n) == [c \in 1 .. n |-> <<0, 0, 0, 0>>] \o <<>>
MCZeroKey == Zeros(4)
MCZeroSchedule == Zeros(44)

MCNoKey == <<>>
MCGarbage == <<"garbage">>

(* What both implementations and the reference make of these keys and      *)
(* blocks, in tables that TLC computes once.                               *)
TinySchedules == {<<k, KeyExpansion(k)>> : k \in MCKeys}
MbedSchedules == {<<k, mbedtls_aes_setkey_enc(k)>> : k \in MCKeys}
AesBlocks == {<< <<k, b>>, AES(k, b)>> : k \in MCKeys, b \in MCBlocks}
TinyBlocks == {<< <<s, b>>, Cipher(s, b)>> :
                 s \in {p[2] : p \in TinySchedules} \cup {MCZeroSchedule}, b \in MCBlocks}
MbedBlocks == {<< <<p[2], b>>, mbedtls_internal_aes_encrypt(p[2], b)>> :
                 p \in MbedSchedules, b \in MCBlocks}
DecryptedBlocks == {<< <<p[1][1], p[2]>>, AES128_ECB_decrypt(p[2], p[1][1])>> : p \in AesBlocks}
XorBlocks == {<< <<b, k>>, XorBlock(b, k)>> : b \in MCBlocks, k \in MCKeys \cup {MCZeroKey}}

Lookup(pairs, a) == (CHOOSE p \in pairs : p[1] = a)[2]
MCTinyKeys(k) == Lookup(TinySchedules, k)
MCTinyCipher(s, b) == Lookup(TinyBlocks, <<s, b>>)
MCTinyDecrypt(k, b) == Lookup(DecryptedBlocks, <<k, b>>)
MCMbedKeys(k) == Lookup(MbedSchedules, k)
MCMbedCipher(s, b) == Lookup(MbedBlocks, <<s, b>>)
MCFips(k, b) == Lookup(AesBlocks, <<k, b>>)
MCXor(b, k) == Lookup(XorBlocks, <<b, k>>)
(* A program that answers with the key's words in another order. *)
MCUserEnc(k, b) == <<k[2], k[1], b[3], b[4]>>

MCPasswords == {"one", "two"}
MCPasswordOf == [g \in 0 .. 3 |-> IF g = 1 THEN "one" ELSE "two"]
MCMenus == {{"h", "k", "p", "m"}, {"w", "q", "l"}, {"p", "q", "g"}}
=============================================================================
