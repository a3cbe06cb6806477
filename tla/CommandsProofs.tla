----------------------------- MODULE CommandsProofs -----------------------------
(***************************************************************************)
(* What the handlers keep for every set of keys, blocks, passwords and     *)
(* menus; that both implementations of AES compute AES, for every key and  *)
(* block; and so that the commands are the CipherService.                  *)
(*                                                                         *)
(* The first part is about bytes, words and blocks only: the key schedule, *)
(* the rounds and the decryption of TinyAes and MbedAes.                   *)
(***************************************************************************)
EXTENDS Engines, Recursion, SequenceTheorems, TLAPS

(* Exclusive or is a group on bytes, and so on words and blocks.           *)

LEMMA XorType == \A a, b \in Byte : a (+) b \in Byte
  BY XorFacts

LEMMA XorCommutes == \A a, b \in Byte : a (+) b = b (+) a
  BY XorFacts

LEMMA XorZero == \A a \in Byte : a (+) 0 = a /\ 0 (+) a = a /\ 0 \in Byte
<1>1. 0 \in Byte
  BY DEF Byte
<1> QED
  BY <1>1, XorFacts

LEMMA Halves ==
  ASSUME NEW h \in Nibble, NEW l \in Nibble
  PROVE  /\ 16 * h + l \in Byte
         /\ (16 * h + l) \div 16 = h /\ (16 * h + l) % 16 = l
  BY DEF Nibble, Byte

LEMMA ByteHalves ==
  ASSUME NEW a \in Byte
  PROVE  a \div 16 \in Nibble /\ a % 16 \in Nibble
  BY DEF Nibble, Byte

LEMMA XorHalves ==
  ASSUME NEW a \in Byte, NEW b \in Byte
  PROVE  /\ (a (+) b) \div 16 = (a \div 16) (+) (b \div 16)
         /\ (a (+) b) % 16 = (a % 16) (+) (b % 16)
<1> DEFINE h == (a \div 16) (+) (b \div 16)
           l == (a % 16) (+) (b % 16)
<1>1. h \in Nibble /\ l \in Nibble
  BY ByteHalves, NibbleFacts
<1>2. a (+) b = 16 * h + l
  BY XorFacts
<1> HIDE DEF h, l
<1>3. (a (+) b) \div 16 = h /\ (a (+) b) % 16 = l
  BY <1>1, <1>2, Halves
<1> QED
  BY <1>3 DEF h, l

LEMMA XorAssociates == \A a, b, c \in Byte : (a (+) b) (+) c = a (+) (b (+) c)
<1> SUFFICES ASSUME NEW a \in Byte, NEW b \in Byte, NEW c \in Byte
             PROVE  (a (+) b) (+) c = a (+) (b (+) c)
  OBVIOUS
<1> DEFINE h(x) == x \div 16
           l(x) == x % 16
<1>1. a (+) b \in Byte /\ b (+) c \in Byte
  BY XorType
<1>2. /\ (a (+) b) (+) c = 16 * (h(a (+) b) (+) h(c)) + (l(a (+) b) (+) l(c))
      /\ a (+) (b (+) c) = 16 * (h(a) (+) h(b (+) c)) + (l(a) (+) l(b (+) c))
  BY <1>1, XorFacts
<1>3. /\ h(a (+) b) = h(a) (+) h(b) /\ l(a (+) b) = l(a) (+) l(b)
      /\ h(b (+) c) = h(b) (+) h(c) /\ l(b (+) c) = l(b) (+) l(c)
  BY XorHalves
<1>4. /\ h(a) \in Nibble /\ h(b) \in Nibble /\ h(c) \in Nibble
      /\ l(a) \in Nibble /\ l(b) \in Nibble /\ l(c) \in Nibble
  BY ByteHalves
<1> HIDE DEF h, l
<1>5. /\ (h(a) (+) h(b)) (+) h(c) = h(a) (+) (h(b) (+) h(c))
      /\ (l(a) (+) l(b)) (+) l(c) = l(a) (+) (l(b) (+) l(c))
  BY <1>4, NibbleFacts
<1> QED
  BY <1>2, <1>3, <1>5

LEMMA XorUndone == \A a, b \in Byte : (a (+) b) (+) b = a
<1> SUFFICES ASSUME NEW a \in Byte, NEW b \in Byte PROVE (a (+) b) (+) b = a
  OBVIOUS
<1>1. (a (+) b) (+) b = a (+) (b (+) b)
  BY XorAssociates
<1>2. b (+) b = 0 /\ a (+) 0 = a
  BY XorFacts, XorZero
<1> QED
  BY <1>1, <1>2

LEMMA XorExchange == \A a, b, c \in Byte : (a (+) b) (+) c = (a (+) c) (+) b
<1> SUFFICES ASSUME NEW a \in Byte, NEW b \in Byte, NEW c \in Byte
             PROVE  (a (+) b) (+) c = (a (+) c) (+) b
  OBVIOUS
<1>1. (a (+) b) (+) c = a (+) (b (+) c) /\ (a (+) c) (+) b = a (+) (c (+) b)
  BY XorAssociates
<1>2. b (+) c = c (+) b
  BY XorCommutes
<1> QED
  BY <1>1, <1>2

LEMMA XorPairs ==
  \A a, b, c, d \in Byte : (a (+) b) (+) (c (+) d) = (a (+) c) (+) (b (+) d)
<1> SUFFICES ASSUME NEW a \in Byte, NEW b \in Byte, NEW c \in Byte, NEW d \in Byte
             PROVE  (a (+) b) (+) (c (+) d) = (a (+) c) (+) (b (+) d)
  OBVIOUS
<1>1. a (+) b \in Byte /\ c (+) d \in Byte /\ a (+) c \in Byte /\ b (+) d \in Byte
  BY XorType
<1>2. (a (+) b) (+) (c (+) d) = ((a (+) b) (+) c) (+) d
  BY <1>1, XorAssociates
<1>3. (a (+) b) (+) c = (a (+) c) (+) b
  BY XorExchange
<1>4. ((a (+) c) (+) b) (+) d = (a (+) c) (+) (b (+) d)
  BY <1>1, XorAssociates
<1> QED
  BY <1>2, <1>3, <1>4

(* The sum of two sums of four is the sum of the four sums; under a name,  *)
(* so that a step can say which sums it means.                             *)
FourSums(a, b, c, d, p, q, r, s) ==
  (a (+) b (+) c (+) d) (+) (p (+) q (+) r (+) s)
    = (a (+) p) (+) (b (+) q) (+) (c (+) r) (+) (d (+) s)

LEMMA XorFours ==
  ASSUME NEW a \in Byte, NEW b \in Byte, NEW c \in Byte, NEW d \in Byte,
         NEW p \in Byte, NEW q \in Byte, NEW r \in Byte, NEW s \in Byte
  PROVE  FourSums(a, b, c, d, p, q, r, s)
<1> DEFINE x3 == a (+) b (+) c
           y3 == p (+) q (+) r
<1>1. /\ a (+) b \in Byte /\ p (+) q \in Byte /\ x3 \in Byte /\ y3 \in Byte
  BY XorType
<1>2. (x3 (+) d) (+) (y3 (+) s) = (x3 (+) y3) (+) (d (+) s)
  BY <1>1, XorPairs
<1>3. x3 (+) y3 = ((a (+) b) (+) (p (+) q)) (+) (c (+) r)
  BY <1>1, XorPairs
<1>4. (a (+) b) (+) (p (+) q) = (a (+) p) (+) (b (+) q)
  BY XorPairs
<1> QED
  BY <1>2, <1>3, <1>4 DEF FourSums

-----------------------------------------------------------------------------
LEMMA FourType ==
  ASSUME NEW S, NEW a \in S, NEW b \in S, NEW c \in S, NEW d \in S
  PROVE  <<a, b, c, d>> \in [1 .. 4 -> S]
  OBVIOUS

LEMMA FourEntries ==
  ASSUME NEW S, NEW v \in [1 .. 4 -> S]
  PROVE  /\ v[1] \in S /\ v[2] \in S /\ v[3] \in S /\ v[4] \in S
         /\ v = <<v[1], v[2], v[3], v[4]>>
<1>1. v[1] \in S /\ v[2] \in S /\ v[3] \in S /\ v[4] \in S
  OBVIOUS
<1>2. \A i \in 1 .. 4 : v[i] = <<v[1], v[2], v[3], v[4]>>[i]
  <2>1. SUFFICES ASSUME NEW i \in 1 .. 4 PROVE v[i] = <<v[1], v[2], v[3], v[4]>>[i]
    OBVIOUS
  <2>2. i = 1 \/ i = 2 \/ i = 3 \/ i = 4
    OBVIOUS
  <2> QED
    BY <2>2
<1>3. v = <<v[1], v[2], v[3], v[4]>>
  <2>1. <<v[1], v[2], v[3], v[4]>> \in [1 .. 4 -> S]
    BY <1>1
  <2> QED
    BY <1>2, <2>1
<1> QED
  BY <1>1, <1>3

LEMMA WordBytes ==
  ASSUME NEW w \in Word
  PROVE  /\ w[1] \in Byte /\ w[2] \in Byte /\ w[3] \in Byte /\ w[4] \in Byte
         /\ w = <<w[1], w[2], w[3], w[4]>>
<1> HIDE DEF Byte
<1> QED
  BY FourEntries DEF Word

LEMMA BlockWords ==
  ASSUME NEW s \in Block
  PROVE  /\ s[1] \in Word /\ s[2] \in Word /\ s[3] \in Word /\ s[4] \in Word
         /\ s = <<s[1], s[2], s[3], s[4]>>
  BY FourEntries DEF Block

LEMMA XorWordIs ==
  ASSUME NEW v \in Word, NEW w \in Word
  PROVE  /\ XorWord(v, w) \in Word
         /\ XorWord(v, w)[1] = v[1] (+) w[1] /\ XorWord(v, w)[2] = v[2] (+) w[2]
         /\ XorWord(v, w)[3] = v[3] (+) w[3] /\ XorWord(v, w)[4] = v[4] (+) w[4]
<1>1. XorWord(v, w) = <<v[1] (+) w[1], v[2] (+) w[2], v[3] (+) w[3], v[4] (+) w[4]>>
  BY DEF XorWord, Four
<1>2. /\ v[1] (+) w[1] \in Byte /\ v[2] (+) w[2] \in Byte
      /\ v[3] (+) w[3] \in Byte /\ v[4] (+) w[4] \in Byte
  BY WordBytes, XorType
<1>3. XorWord(v, w) \in Word
  BY <1>1, <1>2, FourType DEF Word
<1> QED
  BY <1>1, <1>3

LEMMA SameWord ==
  ASSUME NEW v \in Word, NEW w \in Word,
         v[1] = w[1], v[2] = w[2], v[3] = w[3], v[4] = w[4]
  PROVE  v = w
  BY WordBytes

LEMMA XorWordCommutes == \A v, w \in Word : XorWord(v, w) = XorWord(w, v)
<1> SUFFICES ASSUME NEW v \in Word, NEW w \in Word PROVE XorWord(v, w) = XorWord(w, v)
  OBVIOUS
<1>1. /\ v[1] (+) w[1] = w[1] (+) v[1] /\ v[2] (+) w[2] = w[2] (+) v[2]
      /\ v[3] (+) w[3] = w[3] (+) v[3] /\ v[4] (+) w[4] = w[4] (+) v[4]
  BY WordBytes, XorCommutes
<1> QED
  BY <1>1 DEF XorWord, Four

LEMMA XorWordAssociates ==
  \A u, v, w \in Word : XorWord(XorWord(u, v), w) = XorWord(u, XorWord(v, w))
<1> SUFFICES ASSUME NEW u \in Word, NEW v \in Word, NEW w \in Word
             PROVE  XorWord(XorWord(u, v), w) = XorWord(u, XorWord(v, w))
  OBVIOUS
<1> DEFINE a == XorWord(XorWord(u, v), w)
           b == XorWord(u, XorWord(v, w))
<1>1. XorWord(u, v) \in Word /\ XorWord(v, w) \in Word
  BY XorWordIs
<1>2. /\ a \in Word
      /\ a[1] = (u[1] (+) v[1]) (+) w[1] /\ a[2] = (u[2] (+) v[2]) (+) w[2]
      /\ a[3] = (u[3] (+) v[3]) (+) w[3] /\ a[4] = (u[4] (+) v[4]) (+) w[4]
  BY <1>1, XorWordIs
<1>3. /\ b \in Word
      /\ b[1] = u[1] (+) (v[1] (+) w[1]) /\ b[2] = u[2] (+) (v[2] (+) w[2])
      /\ b[3] = u[3] (+) (v[3] (+) w[3]) /\ b[4] = u[4] (+) (v[4] (+) w[4])
  BY <1>1, XorWordIs
<1> HIDE DEF a, b
<1>4. a[1] = b[1] /\ a[2] = b[2] /\ a[3] = b[3] /\ a[4] = b[4]
  BY <1>2, <1>3, WordBytes, XorAssociates
<1>5. a = b
  BY <1>2, <1>3, <1>4, SameWord
<1> QED
  BY <1>5 DEF a, b

LEMMA XorWordUndone == \A v, w \in Word : XorWord(XorWord(v, w), w) = v
<1> SUFFICES ASSUME NEW v \in Word, NEW w \in Word PROVE XorWord(XorWord(v, w), w) = v
  OBVIOUS
<1> DEFINE a == XorWord(XorWord(v, w), w)
<1>1. XorWord(v, w) \in Word
  BY XorWordIs
<1>2. /\ a \in Word
      /\ a[1] = (v[1] (+) w[1]) (+) w[1] /\ a[2] = (v[2] (+) w[2]) (+) w[2]
      /\ a[3] = (v[3] (+) w[3]) (+) w[3] /\ a[4] = (v[4] (+) w[4]) (+) w[4]
  BY <1>1, XorWordIs
<1> HIDE DEF a
<1>3. a[1] = v[1] /\ a[2] = v[2] /\ a[3] = v[3] /\ a[4] = v[4]
  BY <1>2, WordBytes, XorUndone
<1>4. a = v
  BY <1>2, <1>3, SameWord
<1> QED
  BY <1>4 DEF a

LEMMA XorBlockIs ==
  ASSUME NEW s \in Block, NEW t \in Block
  PROVE  /\ XorBlock(s, t) \in Block
         /\ XorBlock(s, t) = <<XorWord(s[1], t[1]), XorWord(s[2], t[2]),
                               XorWord(s[3], t[3]), XorWord(s[4], t[4])>>
         /\ XorBlock(XorBlock(s, t), t) = s
<1>1. XorBlock(s, t) = <<XorWord(s[1], t[1]), XorWord(s[2], t[2]),
                         XorWord(s[3], t[3]), XorWord(s[4], t[4])>>
  BY DEF XorBlock, Four
<1>2. /\ XorWord(s[1], t[1]) \in Word /\ XorWord(s[2], t[2]) \in Word
      /\ XorWord(s[3], t[3]) \in Word /\ XorWord(s[4], t[4]) \in Word
  BY BlockWords, XorWordIs
<1>3. XorBlock(s, t) \in Block
  BY <1>1, <1>2, FourType DEF Block
<1>4. XorBlock(XorBlock(s, t), t)
        = <<XorWord(XorWord(s[1], t[1]), t[1]), XorWord(XorWord(s[2], t[2]), t[2]),
            XorWord(XorWord(s[3], t[3]), t[3]), XorWord(XorWord(s[4], t[4]), t[4])>>
  BY <1>1 DEF XorBlock, Four
<1>5. /\ XorWord(XorWord(s[1], t[1]), t[1]) = s[1] /\ XorWord(XorWord(s[2], t[2]), t[2]) = s[2]
      /\ XorWord(XorWord(s[3], t[3]), t[3]) = s[3] /\ XorWord(XorWord(s[4], t[4]), t[4]) = s[4]
  BY BlockWords, XorWordUndone
<1>6. XorBlock(XorBlock(s, t), t) = s
  BY <1>4, <1>5, BlockWords
<1> QED
  BY <1>1, <1>3, <1>6

-----------------------------------------------------------------------------
(* The key schedule: each of the three computes the words of this one.     *)

Temp(j, prev) ==
  IF j % 4 = 1 THEN XorWord(SubWord(RotWord(prev)), <<RCon[(j - 1) \div 4], 0, 0, 0>>)
  ELSE prev

IsSchedule(w, n, key) ==
  /\ w \in [1 .. n -> Word]
  /\ \A j \in 1 .. 4 : w[j] = key[j]
  /\ \A j \in 5 .. n : w[j] = XorWord(w[j - 4], Temp(j, w[j - 1]))

Prefix(w, n) == [i \in 1 .. n |-> w[i]]

LEMMA SubWordIs ==
  ASSUME NEW w \in Word
  PROVE  /\ SubWord(w) \in Word
         /\ SubWord(w) = <<At(SBox, w[1]), At(SBox, w[2]), At(SBox, w[3]), At(SBox, w[4])>>
<1>1. SubWord(w) = <<At(SBox, w[1]), At(SBox, w[2]), At(SBox, w[3]), At(SBox, w[4])>>
  BY DEF SubWord, Four
<1>2. /\ At(SBox, w[1]) \in Byte /\ At(SBox, w[2]) \in Byte
      /\ At(SBox, w[3]) \in Byte /\ At(SBox, w[4]) \in Byte
  BY WordBytes, TableFacts
<1>3. SubWord(w) \in Word
  BY <1>1, <1>2, FourType DEF Word
<1> QED
  BY <1>1, <1>3

LEMMA RotWordIs == ASSUME NEW w \in Word PROVE RotWord(w) \in Word
  BY WordBytes, FourType DEF RotWord, Word

LEMMA ConstantIs ==
  ASSUME NEW i \in 1 .. 10
  PROVE  <<RCon[i], 0, 0, 0>> \in Word
<1>1. RCon[i] \in Byte /\ 0 \in Byte
  BY TableFacts, XorZero
<1> QED
  BY <1>1, FourType DEF Word

LEMMA TempIs ==
  ASSUME NEW j \in 5 .. 44, NEW prev \in Word
  PROVE  Temp(j, prev) \in Word
<1>1. CASE j % 4 = 1
  <2>1. (j - 1) \div 4 \in 1 .. 10
    OBVIOUS
  <2>2. <<RCon[(j - 1) \div 4], 0, 0, 0>> \in Word
    BY <2>1, ConstantIs
  <2>3. SubWord(RotWord(prev)) \in Word
    BY RotWordIs, SubWordIs
  <2> QED
    BY <1>1, <2>2, <2>3, XorWordIs DEF Temp
<1>2. CASE j % 4 # 1
  BY <1>2 DEF Temp
<1> QED
  BY <1>1, <1>2

(* Append, under a name that keeps the provers from expanding it. *)
Extended(w, x) == Append(w, x)

LEMMA AppendIs ==
  ASSUME NEW n \in Nat, NEW w, NEW x \in Word, w \in [1 .. n -> Word]
  PROVE  /\ Extended(w, x) \in [1 .. n + 1 -> Word]
         /\ \A i \in 1 .. n : Extended(w, x)[i] = w[i]
         /\ Extended(w, x)[n + 1] = x
<1>1. w \in Seq(Word) /\ Len(w) = n
  OBVIOUS
<1>2. Append(w, x) \in Seq(Word) /\ Len(Append(w, x)) = n + 1
  BY <1>1
<1>3. Append(w, x) \in [1 .. n + 1 -> Word]
  <2> DEFINE v == Append(w, x)
  <2>1. v \in Seq(Word) /\ Len(v) = n + 1
    BY <1>2
  <2> HIDE DEF v
  <2>2. v \in [1 .. n + 1 -> Word]
    BY <2>1
  <2> QED
    BY <2>2 DEF v
<1>4. \A i \in 1 .. n : Append(w, x)[i] = w[i]
  BY <1>1
<1>5. Append(w, x)[n + 1] = x
  BY <1>1
<1> QED
  BY <1>3, <1>4, <1>5 DEF Extended

LEMMA ScheduleExists ==
  ASSUME NEW key \in Block
  PROVE  \E w : IsSchedule(w, 44, key)
<1> DEFINE Done == {m \in Nat : m <= 40 => \E w : IsSchedule(w, m + 4, key)}
<1>1. 0 \in Done
  <2>1. IsSchedule(key, 4, key)
    BY DEF IsSchedule, Block
  <2> QED
    BY <2>1
<1>2. ASSUME NEW m \in Nat, m \in Done PROVE m + 1 \in Done
  <2> SUFFICES ASSUME m + 1 <= 40 PROVE \E w : IsSchedule(w, (m + 1) + 4, key)
    OBVIOUS
  <2>1. PICK w : IsSchedule(w, m + 4, key)
    BY <1>2
  <2> DEFINE n == m + 4
             x == XorWord(w[n - 3], Temp(n + 1, w[n]))
             v == Extended(w, x)
  <2>2. n \in Nat /\ n >= 4 /\ n + 1 \in 5 .. 44 /\ n - 3 \in 1 .. n /\ n \in 1 .. n
    OBVIOUS
  <2>3. w \in [1 .. n -> Word] /\ w[n - 3] \in Word /\ w[n] \in Word
    BY <2>1, <2>2 DEF IsSchedule
  <2>4. x \in Word
    <3>1. Temp(n + 1, w[n]) \in Word
      BY <2>2, <2>3, TempIs
    <3> QED
      BY <2>3, <3>1, XorWordIs
  <2> HIDE DEF x, n
  <2>5. /\ v \in [1 .. n + 1 -> Word] /\ v[n + 1] = x
        /\ \A i \in 1 .. n : v[i] = w[i]
    BY <2>2, <2>3, <2>4, AppendIs
  <2> HIDE DEF v
  <2>6. \A j \in 1 .. 4 : v[j] = key[j]
    BY <2>1, <2>2, <2>5 DEF IsSchedule
  <2>7. ASSUME NEW j \in 5 .. n + 1 PROVE v[j] = XorWord(v[j - 4], Temp(j, v[j - 1]))
    <3>1. v[j - 4] = w[j - 4] /\ v[j - 1] = w[j - 1]
      BY <2>2, <2>5
    <3>2. CASE j = n + 1
      <4>1. j - 4 = n - 3 /\ j - 1 = n
        BY <2>2, <3>2
      <4>2. v[j] = x
        BY <2>5, <3>2
      <4> QED
        BY <3>1, <3>2, <4>1, <4>2 DEF x
    <3>3. CASE j # n + 1
      <4>1. j \in 5 .. n /\ v[j] = w[j]
        BY <2>2, <2>5, <3>3
      <4>2. w[j] = XorWord(w[j - 4], Temp(j, w[j - 1]))
        BY <2>1, <4>1 DEF IsSchedule, n
      <4> QED
        BY <3>1, <4>1, <4>2
    <3> QED
      BY <3>2, <3>3
  <2>8. IsSchedule(v, n + 1, key)
    BY <2>5, <2>6, <2>7 DEF IsSchedule
  <2>9. n + 1 = (m + 1) + 4
    BY DEF n
  <2> QED
    BY <2>8, <2>9
<1>3. Nat \subseteq Done
  <2> HIDE DEF Done
  <2> QED
    BY <1>1, <1>2, NatSetInduction
<1>4. \E w : IsSchedule(w, 40 + 4, key)
  BY <1>3
<1> QED
  BY <1>4

LEMMA PrefixIs ==
  ASSUME NEW key \in Block, NEW w, IsSchedule(w, 44, key), NEW n \in 5 .. 44
  PROVE  /\ Prefix(w, n - 1)[n - 4] = w[n - 4] /\ Prefix(w, n - 1)[n - 1] = w[n - 1]
         /\ w[n] \in Word /\ w[n - 1] \in Word /\ w[n - 4] \in Word
         /\ w[n] = XorWord(w[n - 4], Temp(n, w[n - 1]))
         /\ Append(Prefix(w, n - 1), w[n]) = Prefix(w, n)
<1>1. /\ w[n] \in Word /\ w[n - 1] \in Word /\ w[n - 4] \in Word
      /\ w[n] = XorWord(w[n - 4], Temp(n, w[n - 1]))
      /\ w \in [1 .. 44 -> Word]
  BY DEF IsSchedule
<1>2. Prefix(w, n - 1)[n - 4] = w[n - 4] /\ Prefix(w, n - 1)[n - 1] = w[n - 1]
  BY DEF Prefix
<1>3. Append(Prefix(w, n - 1), w[n]) = Prefix(w, n)
  <2> DEFINE l == n - 1
             p == Prefix(w, l)
             x == w[n]
             q == Extended(p, x)
  <2>1. p \in [1 .. l -> Word] /\ \A i \in 1 .. l : p[i] = w[i]
    BY <1>1 DEF Prefix
  <2>2. l \in Nat /\ l + 1 = n /\ x \in Word
    BY <1>1
  <2> HIDE DEF p, l, x
  <2>3. q \in [1 .. l + 1 -> Word] /\ q[l + 1] = x /\ \A i \in 1 .. l : q[i] = p[i]
    BY <2>1, <2>2, AppendIs
  <2> HIDE DEF q
  <2>4. \A i \in 1 .. n : q[i] = w[i]
    <3>1. \A i \in 1 .. n : i = n \/ i \in 1 .. l
      BY <2>2
    <3> QED
      BY <2>1, <2>2, <2>3, <3>1 DEF x
  <2>5. q = Prefix(w, n)
    BY <2>2, <2>3, <2>4 DEF Prefix
  <2> QED
    BY <2>5 DEF l, p, q, x, Extended
<1> QED
  BY <1>1, <1>2, <1>3

LEMMA WholePrefix ==
  ASSUME NEW key \in Block, NEW w, IsSchedule(w, 44, key)
  PROVE  Prefix(w, 44) = w /\ Prefix(w, 4) = key
<1>1. w \in [1 .. 44 -> Word] /\ key \in [1 .. 4 -> Word] /\ \A j \in 1 .. 4 : w[j] = key[j]
  BY DEF IsSchedule, Block
<1> QED
  BY <1>1 DEF Prefix

LEMMA AesKeysAre ==
  ASSUME NEW key \in Block, NEW w, IsSchedule(w, 44, key)
  PROVE  AesKeys(key) = w
<1> DEFINE Next1(v, n) == Append(v, XorWord(v[n - 4], Temp(n, v[n - 1])))
           Unfolds(f) ==
             f = [n \in 4 .. 44 |->
                    IF n = 4 THEN key
                    ELSE LET v == f[n - 1]
                             temp == IF n % 4 = 1
                                       THEN XorWord(SubWord(RotWord(v[n - 1])),
                                                    <<RCon[(n - 1) \div 4], 0, 0, 0>>)
                                       ELSE v[n - 1]
                         IN Append(v, XorWord(v[n - 4], temp))]
<1>1. \A f : Unfolds(f) <=> f = [n \in 4 .. 44 |-> IF n = 4 THEN key ELSE Next1(f[n - 1], n)]
  BY Zenon DEF Temp
<1>2. \A n \in 5 .. 44 : Next1(Prefix(w, n - 1), n) = Prefix(w, n)
  <2> SUFFICES ASSUME NEW n \in 5 .. 44
               PROVE  Next1(Prefix(w, n - 1), n) = Prefix(w, n)
    OBVIOUS
  <2>1. Next1(Prefix(w, n - 1), n) = Append(Prefix(w, n - 1), XorWord(w[n - 4], Temp(n, w[n - 1])))
    BY PrefixIs
  <2> QED
    BY <2>1, PrefixIs
<1> HIDE DEF Next1
<1>3. Unfolds([n \in 4 .. 44 |-> Prefix(w, n)])
  <2> DEFINE g == [n \in 4 .. 44 |-> Prefix(w, n)]
  <2>1. \A n \in 4 .. 44 : g[n] = IF n = 4 THEN key ELSE Next1(g[n - 1], n)
    BY <1>2, WholePrefix
  <2>2. g = [n \in 4 .. 44 |-> IF n = 4 THEN key ELSE Next1(g[n - 1], n)]
    BY <2>1
  <2> HIDE DEF g, Unfolds
  <2>3. Unfolds(g)
    BY <1>1, <2>2
  <2> QED
    BY <2>3 DEF g
<1> HIDE DEF Unfolds
<1>4. ASSUME NEW f, Unfolds(f) PROVE f[44] = w
  <2> DEFINE Done == {m \in Nat : m <= 40 => f[m + 4] = Prefix(w, m + 4)}
  <2>1. f[4] = key /\ \A n \in 5 .. 44 : f[n] = Next1(f[n - 1], n)
    BY <1>1, <1>4
  <2>2. 0 \in Done
    BY <2>1, WholePrefix
  <2>3. ASSUME NEW m \in Nat, m \in Done PROVE m + 1 \in Done
    <3> SUFFICES ASSUME m + 1 <= 40 PROVE f[(m + 1) + 4] = Prefix(w, (m + 1) + 4)
      OBVIOUS
    <3> DEFINE n == (m + 1) + 4
    <3>1. n \in 5 .. 44 /\ n - 1 = m + 4
      OBVIOUS
    <3>2. f[n - 1] = Prefix(w, n - 1)
      BY <2>3, <3>1
    <3> QED
      BY <1>2, <2>1, <3>1, <3>2
  <2>4. Nat \subseteq Done
    <3> HIDE DEF Done
    <3> QED
      BY <2>2, <2>3, NatSetInduction
  <2>5. f[40 + 4] = Prefix(w, 40 + 4)
    BY <2>4
  <2> QED
    BY <2>5, WholePrefix
<1>5. Unfolds(CHOOSE f : Unfolds(f))
  BY <1>3
<1>6. AesKeys(key) = (CHOOSE f : Unfolds(f))[44]
  BY Zenon DEF AesKeys, Unfolds
<1> QED
  BY <1>4, <1>5, <1>6

LEMMA SubstitutedIs ==
  ASSUME NEW t \in Word, NEW i \in 4 .. 43, i % Nk = 0
  PROVE  Substituted(t, i) = Temp(i + 1, t)
<1>1. (i + 1) % 4 = 1 /\ i \div Nk \in 1 .. 10 /\ ((i + 1) - 1) \div 4 = i \div Nk
  BY DEF Nk
<1> DEFINE m == i \div Nk
<1>2. Rcon[m + 1] = RCon[m] /\ RCon[m] \in Byte
  BY <1>1, TableFacts
<1>3. /\ getSBoxValue(t[1]) = At(SBox, t[1]) /\ getSBoxValue(t[2]) = At(SBox, t[2])
      /\ getSBoxValue(t[3]) = At(SBox, t[3]) /\ getSBoxValue(t[4]) = At(SBox, t[4])
      /\ At(SBox, t[1]) \in Byte /\ At(SBox, t[2]) \in Byte
      /\ At(SBox, t[3]) \in Byte /\ At(SBox, t[4]) \in Byte
  BY WordBytes, TableFacts
<1> HIDE DEF m
<1>4. Substituted(t, i)
        = <<At(SBox, t[2]) (+) RCon[m], At(SBox, t[3]), At(SBox, t[4]), At(SBox, t[1])>>
  BY <1>2, <1>3 DEF Substituted, m
<1>5. SubWord(RotWord(t)) = <<At(SBox, t[2]), At(SBox, t[3]), At(SBox, t[4]), At(SBox, t[1])>>
  BY DEF SubWord, RotWord, Four
<1>6. XorWord(SubWord(RotWord(t)), <<RCon[m], 0, 0, 0>>)
        = <<At(SBox, t[2]) (+) RCon[m], At(SBox, t[3]) (+) 0,
            At(SBox, t[4]) (+) 0, At(SBox, t[1]) (+) 0>>
  BY <1>5 DEF XorWord, Four
<1>7. /\ At(SBox, t[3]) (+) 0 = At(SBox, t[3]) /\ At(SBox, t[4]) (+) 0 = At(SBox, t[4])
      /\ At(SBox, t[1]) (+) 0 = At(SBox, t[1])
  BY <1>3, XorZero
<1>8. Temp(i + 1, t) = XorWord(SubWord(RotWord(t)), <<RCon[m], 0, 0, 0>>)
  BY <1>1 DEF Temp, m
<1> QED
  BY <1>4, <1>6, <1>7, <1>8

LEMMA KeyExpansionIs ==
  ASSUME NEW key \in Block, NEW w, IsSchedule(w, 44, key)
  PROVE  KeyExpansion(key) = w
<1> DEFINE After(v, i) ==
             Append(v, XorWord(v[i - Nk + 1], IF i % Nk = 0 THEN Substituted(v[i], i) ELSE v[i]))
           Unfolds(f) ==
             f = [i \in 3 .. 4 * Nr + 3 |->
                    IF i = 3 THEN key
                    ELSE LET prev == f[i - 1]
                             tempa == IF i % Nk = 0 THEN Substituted(prev[i], i) ELSE prev[i]
                         IN Append(prev, XorWord(prev[i - Nk + 1], tempa))]
<1>1. \A f : Unfolds(f) <=> f = [i \in 3 .. 43 |-> IF i = 3 THEN key ELSE After(f[i - 1], i)]
  <2>1. 4 * Nr + 3 = 43
    BY DEF Nr
  <2> QED
    BY <2>1, Zenon
<1>2. \A i \in 4 .. 43 : After(Prefix(w, i), i) = Prefix(w, i + 1)
  <2> SUFFICES ASSUME NEW i \in 4 .. 43
               PROVE  After(Prefix(w, i), i) = Prefix(w, i + 1)
    OBVIOUS
  <2> DEFINE n == i + 1
  <2>1. n \in 5 .. 44 /\ n - 1 = i /\ i - Nk + 1 = n - 4
    BY DEF Nk
  <2>2. /\ Prefix(w, i)[n - 4] = w[n - 4] /\ Prefix(w, i)[i] = w[i] /\ w[i] \in Word
        /\ w[n] = XorWord(w[n - 4], Temp(n, w[i]))
        /\ Append(Prefix(w, i), w[n]) = Prefix(w, n)
    BY <2>1, PrefixIs
  <2>3. Temp(n, w[i]) = IF i % Nk = 0 THEN Substituted(w[i], i) ELSE w[i]
    <3>1. CASE i % Nk = 0
      BY <2>2, <3>1, SubstitutedIs
    <3>2. CASE i % Nk # 0
      BY <3>2 DEF Temp, Nk
    <3> QED
      BY <3>1, <3>2
  <2> HIDE DEF n
  <2>4. After(Prefix(w, i), i) = Append(Prefix(w, i), w[n])
    BY <2>1, <2>2, <2>3
  <2> QED
    BY <2>2, <2>4 DEF n
<1> HIDE DEF After
<1>3. Unfolds([i \in 3 .. 43 |-> Prefix(w, i + 1)])
  <2> DEFINE g == [i \in 3 .. 43 |-> Prefix(w, i + 1)]
  <2>1. \A i \in 3 .. 43 : g[i] = IF i = 3 THEN key ELSE After(g[i - 1], i)
    <3> SUFFICES ASSUME NEW i \in 3 .. 43 PROVE g[i] = IF i = 3 THEN key ELSE After(g[i - 1], i)
      OBVIOUS
    <3>1. CASE i = 3
      BY <3>1, WholePrefix
    <3>2. CASE i # 3
      <4>1. i \in 4 .. 43 /\ i - 1 \in 3 .. 43 /\ (i - 1) + 1 = i
        BY <3>2
      <4> QED
        BY <1>2, <3>2, <4>1
    <3> QED
      BY <3>1, <3>2
  <2>2. g = [i \in 3 .. 43 |-> IF i = 3 THEN key ELSE After(g[i - 1], i)]
    BY <2>1
  <2> HIDE DEF g, Unfolds
  <2>3. Unfolds(g)
    BY <1>1, <2>2
  <2> QED
    BY <2>3 DEF g
<1> HIDE DEF Unfolds
<1>4. ASSUME NEW f, Unfolds(f) PROVE f[43] = w
  <2> DEFINE Done == {m \in Nat : m <= 40 => f[m + 3] = Prefix(w, m + 4)}
  <2>1. f[3] = key /\ \A i \in 4 .. 43 : f[i] = After(f[i - 1], i)
    BY <1>1, <1>4
  <2>2. 0 \in Done
    BY <2>1, WholePrefix
  <2>3. ASSUME NEW m \in Nat, m \in Done PROVE m + 1 \in Done
    <3> SUFFICES ASSUME m + 1 <= 40 PROVE f[(m + 1) + 3] = Prefix(w, (m + 1) + 4)
      OBVIOUS
    <3> DEFINE i == (m + 1) + 3
    <3>1. i \in 4 .. 43 /\ i - 1 = m + 3 /\ i = m + 4 /\ i + 1 = (m + 1) + 4
      OBVIOUS
    <3>2. f[i - 1] = Prefix(w, i)
      BY <2>3, <3>1
    <3> QED
      BY <1>2, <2>1, <3>1, <3>2
  <2>4. Nat \subseteq Done
    <3> HIDE DEF Done
    <3> QED
      BY <2>2, <2>3, NatSetInduction
  <2>5. f[40 + 3] = Prefix(w, 40 + 4)
    BY <2>4
  <2> QED
    BY <2>5, WholePrefix
<1>5. Unfolds(CHOOSE f : Unfolds(f))
  BY <1>3
<1>6. KeyExpansion(key) = (CHOOSE f : Unfolds(f))[4 * Nr + 3]
  BY Zenon DEF KeyExpansion, Unfolds
<1>7. 4 * Nr + 3 = 43
  BY DEF Nr
<1> QED
  BY <1>4, <1>5, <1>6, <1>7

LEMMA PrefixFour ==
  ASSUME NEW w \in [1 .. 44 -> Word], NEW n \in 0 .. 40
  PROVE  Prefix(w, n) \o <<w[n + 1], w[n + 2], w[n + 3], w[n + 4]>> = Prefix(w, n + 4)
<1> DEFINE p == Prefix(w, n)
           t == <<w[n + 1], w[n + 2], w[n + 3], w[n + 4]>>
           q == Prefix(w, n + 4)
<1>1. p \in Seq(Word) /\ Len(p) = n /\ \A i \in 1 .. n : p[i] = w[i]
  BY DEF Prefix
<1>2. t \in Seq(Word) /\ Len(t) = 4
  OBVIOUS
<1>3. t[1] = w[n + 1] /\ t[2] = w[n + 2] /\ t[3] = w[n + 3] /\ t[4] = w[n + 4]
  OBVIOUS
<1>4. q \in Seq(Word) /\ Len(q) = n + 4 /\ \A i \in 1 .. n + 4 : q[i] = w[i]
  BY DEF Prefix
<1> HIDE DEF p, t, q
<1> DEFINE r == p \o t
<1>5. p \in Seq(Word) /\ t \in Seq(Word)
  BY <1>1, <1>2
<1>6. r \in Seq(Word)
  BY <1>5
<1>7. Len(r) = Len(p) + Len(t)
  BY <1>5
<1>8. \A i \in 1 .. Len(p) + Len(t) : r[i] = IF i <= Len(p) THEN p[i] ELSE t[i - Len(p)]
  BY <1>5
<1> HIDE DEF r
<1>9. r \in [1 .. n + 4 -> Word]
  <2>1. r \in [1 .. Len(r) -> Word] /\ Len(r) = n + 4
    BY <1>1, <1>2, <1>6, <1>7, LenProperties
  <2> QED
    BY <2>1
<1>10. \A i \in 1 .. n + 4 : r[i] = IF i <= n THEN p[i] ELSE t[i - n]
  BY <1>1, <1>2, <1>8
<1>11. ASSUME NEW i \in 1 .. n + 4 PROVE r[i] = q[i]
  <2>1. CASE i <= n
    <3>1. i \in 1 .. n
      BY <2>1
    <3> QED
      BY <1>1, <1>4, <1>10, <2>1, <3>1
  <2>2. CASE i = n + 1 \/ i = n + 2 \/ i = n + 3 \/ i = n + 4
    <3>1. i - n = 1 \/ i - n = 2 \/ i - n = 3 \/ i - n = 4
      BY <2>2
    <3>2. t[i - n] = w[i]
      BY <1>3, <2>2
    <3>3. r[i] = t[i - n]
      BY <1>10, <2>2
    <3> QED
      BY <1>4, <3>2, <3>3
  <2> QED
    BY <2>1, <2>2
<1>12. q \in [1 .. n + 4 -> Word]
  BY DEF q, Prefix
<1>13. r = q
  <2> DEFINE I == 1 .. n + 4
  <2>1. r \in [I -> Word] /\ q \in [I -> Word] /\ \A i \in I : r[i] = q[i]
    BY <1>9, <1>11, <1>12
  <2> HIDE DEF I
  <2> QED
    BY <2>1
<1> QED
  BY <1>13 DEF p, t, q, r

LEMMA FourWords ==
  ASSUME NEW key \in Block, NEW w, IsSchedule(w, 44, key), NEW i \in 1 .. 10,
         NEW n, n = 4 * i
  PROVE  /\ w[n + 1] = XorWord(XorWord(w[n - 3], <<RCON[i], 0, 0, 0>>), SubWord(RotWord(w[n])))
         /\ w[n + 2] = XorWord(w[n - 2], w[n + 1])
         /\ w[n + 3] = XorWord(w[n - 1], w[n + 2])
         /\ w[n + 4] = XorWord(w[n], w[n + 3])
<1>1. /\ n \in 4 .. 40 /\ (n + 1) % 4 = 1 /\ ((n + 1) - 1) \div 4 = i
      /\ (n + 2) % 4 # 1 /\ (n + 3) % 4 # 1 /\ (n + 4) % 4 # 1
  OBVIOUS
<1>2. \A j \in 5 .. 44 : w[j] = XorWord(w[j - 4], Temp(j, w[j - 1]))
  BY DEF IsSchedule
<1>3. w[n + 2] = XorWord(w[n - 2], w[n + 1])
  <2>1. w[n + 2] = XorWord(w[(n + 2) - 4], Temp(n + 2, w[(n + 2) - 1]))
    BY <1>1, <1>2
  <2>2. (n + 2) - 4 = n - 2 /\ (n + 2) - 1 = n + 1
    BY <1>1
  <2> QED
    BY <1>1, <2>1, <2>2 DEF Temp
<1>4. w[n + 3] = XorWord(w[n - 1], w[n + 2])
  <2>1. w[n + 3] = XorWord(w[(n + 3) - 4], Temp(n + 3, w[(n + 3) - 1]))
    BY <1>1, <1>2
  <2>2. (n + 3) - 4 = n - 1 /\ (n + 3) - 1 = n + 2
    BY <1>1
  <2> QED
    BY <1>1, <2>1, <2>2 DEF Temp
<1>5. w[n + 4] = XorWord(w[n], w[n + 3])
  <2>1. w[n + 4] = XorWord(w[(n + 4) - 4], Temp(n + 4, w[(n + 4) - 1]))
    BY <1>1, <1>2
  <2>2. (n + 4) - 4 = n /\ (n + 4) - 1 = n + 3
    BY <1>1
  <2> QED
    BY <1>1, <2>1, <2>2 DEF Temp
<1>6. w[n + 1] = XorWord(XorWord(w[n - 3], <<RCON[i], 0, 0, 0>>), SubWord(RotWord(w[n])))
  <2> DEFINE a == w[n - 3]
             c == <<RCon[i], 0, 0, 0>>
             s == SubWord(RotWord(w[n]))
  <2>1. w[n + 1] = XorWord(w[(n + 1) - 4], Temp(n + 1, w[(n + 1) - 1]))
    BY <1>1, <1>2
  <2>2. (n + 1) - 4 = n - 3 /\ (n + 1) - 1 = n
    BY <1>1
  <2>3. w[n + 1] = XorWord(a, XorWord(s, c))
    BY <1>1, <2>1, <2>2 DEF Temp
  <2>4. a \in Word /\ w[n] \in Word
    BY <1>1 DEF IsSchedule
  <2>5. c \in Word /\ s \in Word
    BY <2>4, ConstantIs, RotWordIs, SubWordIs
  <2>6. c = <<RCON[i], 0, 0, 0>>
    BY TableFacts
  <2> HIDE DEF a, c, s
  <2>7. XorWord(s, c) = XorWord(c, s) /\ XorWord(a, XorWord(c, s)) = XorWord(XorWord(a, c), s)
    BY <2>4, <2>5, XorWordCommutes, XorWordAssociates
  <2> QED
    BY <2>3, <2>6, <2>7 DEF a, s
<1> QED
  BY <1>3, <1>4, <1>5, <1>6

LEMMA MbedScheduleIs ==
  ASSUME NEW key \in Block, NEW w, IsSchedule(w, 44, key)
  PROVE  mbedtls_aes_setkey_enc(key) = w
<1> DEFINE Rotated(last) == Four(LAMBDA r : At(FSb, last[1 + (r % 4)]))
           Rk4(RK, i) == XorWord(XorWord(RK[4 * i - 3], <<RCON[i], 0, 0, 0>>), Rotated(RK[4 * i]))
           Rk5(RK, i) == XorWord(RK[4 * i - 2], Rk4(RK, i))
           Rk6(RK, i) == XorWord(RK[4 * i - 1], Rk5(RK, i))
           After(RK, i) ==
             RK \o <<Rk4(RK, i), Rk5(RK, i), Rk6(RK, i), XorWord(RK[4 * i], Rk6(RK, i))>>
           Unfolds(f) ==
             f = [i \in 0 .. 10 |->
                    IF i = 0 THEN key
                    ELSE LET RK == f[i - 1]
                             n == 4 * i
                             last == RK[n]
                             rotated == Four(LAMBDA r : At(FSb, last[1 + (r % 4)]))
                             RK4 == XorWord(XorWord(RK[n - 3], <<RCON[i], 0, 0, 0>>), rotated)
                             RK5 == XorWord(RK[n - 2], RK4)
                             RK6 == XorWord(RK[n - 1], RK5)
                         IN RK \o <<RK4, RK5, RK6, XorWord(last, RK6)>>]
<1>1. \A f : Unfolds(f) <=> f = [i \in 0 .. 10 |-> IF i = 0 THEN key ELSE After(f[i - 1], i)]
  BY Zenon
<1>2. \A i \in 1 .. 10 : After(Prefix(w, 4 * i), i) = Prefix(w, 4 * i + 4)
  <2> SUFFICES ASSUME NEW i \in 1 .. 10
               PROVE  After(Prefix(w, 4 * i), i) = Prefix(w, 4 * i + 4)
    OBVIOUS
  <2> DEFINE n == 4 * i
             p == Prefix(w, n)
  <2>1. n \in 4 .. 40 /\ w \in [1 .. 44 -> Word]
    BY DEF IsSchedule
  <2>2. p[n - 3] = w[n - 3] /\ p[n - 2] = w[n - 2] /\ p[n - 1] = w[n - 1] /\ p[n] = w[n]
    <3>1. p = [j \in 1 .. n |-> w[j]]
      BY DEF Prefix
    <3>2. n - 3 \in 1 .. n /\ n - 2 \in 1 .. n /\ n - 1 \in 1 .. n /\ n \in 1 .. n
      OBVIOUS
    <3> HIDE DEF p, n
    <3> QED
      BY <3>1, <3>2
  <2>3. w[n] \in Word
    BY <2>1
  <2>4. Rotated(w[n]) = SubWord(RotWord(w[n]))
    <3>1. Rotated(w[n]) = <<At(FSb, w[n][2]), At(FSb, w[n][3]), At(FSb, w[n][4]), At(FSb, w[n][1])>>
      BY DEF Four
    <3>2. SubWord(RotWord(w[n]))
            = <<At(SBox, w[n][2]), At(SBox, w[n][3]), At(SBox, w[n][4]), At(SBox, w[n][1])>>
      BY DEF SubWord, RotWord, Four
    <3>3. /\ w[n][1] \in Byte /\ w[n][2] \in Byte /\ w[n][3] \in Byte /\ w[n][4] \in Byte
      BY <2>3, WordBytes
    <3> QED
      BY <3>1, <3>2, <3>3, TableFacts
  <2> HIDE DEF n, p, Rotated
  <2>5. /\ w[n + 1] = XorWord(XorWord(w[n - 3], <<RCON[i], 0, 0, 0>>), SubWord(RotWord(w[n])))
        /\ w[n + 2] = XorWord(w[n - 2], w[n + 1])
        /\ w[n + 3] = XorWord(w[n - 1], w[n + 2])
        /\ w[n + 4] = XorWord(w[n], w[n + 3])
    BY FourWords DEF n
  <2>6. Rk4(p, i) = w[n + 1] /\ Rk5(p, i) = w[n + 2] /\ Rk6(p, i) = w[n + 3]
    BY <2>2, <2>4, <2>5 DEF n
  <2> HIDE DEF Rk4, Rk5, Rk6
  <2>7. After(p, i) = p \o <<w[n + 1], w[n + 2], w[n + 3], w[n + 4]>>
    BY <2>2, <2>5, <2>6 DEF n
  <2>8. p \o <<w[n + 1], w[n + 2], w[n + 3], w[n + 4]>> = Prefix(w, n + 4)
    <3>1. n \in 0 .. 40
      BY <2>1
    <3> QED
      BY <2>1, <3>1, PrefixFour, Zenon DEF p
  <2> QED
    BY <2>7, <2>8 DEF n, p
<1> HIDE DEF After
<1>3. Unfolds([i \in 0 .. 10 |-> Prefix(w, 4 * i + 4)])
  <2> DEFINE g == [i \in 0 .. 10 |-> Prefix(w, 4 * i + 4)]
  <2>1. \A i \in 0 .. 10 : g[i] = IF i = 0 THEN key ELSE After(g[i - 1], i)
    <3> SUFFICES ASSUME NEW i \in 0 .. 10 PROVE g[i] = IF i = 0 THEN key ELSE After(g[i - 1], i)
      OBVIOUS
    <3>1. CASE i = 0
      BY <3>1, WholePrefix
    <3>2. CASE i # 0
      <4>1. i \in 1 .. 10 /\ i - 1 \in 0 .. 10 /\ 4 * (i - 1) + 4 = 4 * i
        BY <3>2
      <4> QED
        BY <1>2, <3>2, <4>1
    <3> QED
      BY <3>1, <3>2
  <2>2. g = [i \in 0 .. 10 |-> IF i = 0 THEN key ELSE After(g[i - 1], i)]
    BY <2>1
  <2> HIDE DEF g, Unfolds
  <2>3. Unfolds(g)
    BY <1>1, <2>2
  <2> QED
    BY <2>3 DEF g
<1> HIDE DEF Unfolds
<1>4. ASSUME NEW f, Unfolds(f) PROVE f[10] = w
  <2> DEFINE Done == {m \in Nat : m <= 10 => f[m] = Prefix(w, 4 * m + 4)}
  <2>1. f[0] = key /\ \A i \in 1 .. 10 : f[i] = After(f[i - 1], i)
    BY <1>1, <1>4
  <2>2. 0 \in Done
    BY <2>1, WholePrefix
  <2>3. ASSUME NEW m \in Nat, m \in Done PROVE m + 1 \in Done
    <3> SUFFICES ASSUME m + 1 <= 10 PROVE f[m + 1] = Prefix(w, 4 * (m + 1) + 4)
      OBVIOUS
    <3> DEFINE i == m + 1
    <3>1. i \in 1 .. 10 /\ i - 1 = m /\ 4 * m + 4 = 4 * i
      OBVIOUS
    <3>2. f[i - 1] = Prefix(w, 4 * i)
      BY <2>3, <3>1
    <3> QED
      BY <1>2, <2>1, <3>1, <3>2
  <2>4. Nat \subseteq Done
    <3> HIDE DEF Done
    <3> QED
      BY <2>2, <2>3, NatSetInduction
  <2>5. f[10] = Prefix(w, 4 * 10 + 4)
    BY <2>4
  <2> QED
    BY <2>5, WholePrefix
<1>5. Unfolds(CHOOSE f : Unfolds(f))
  BY <1>3
<1>6. mbedtls_aes_setkey_enc(key) = (CHOOSE f : Unfolds(f))[10]
  BY Zenon DEF mbedtls_aes_setkey_enc, Unfolds
<1> QED
  BY <1>4, <1>5, <1>6

(* The three key schedules are one.                                        *)
LEMMA SchedulesAgree ==
  ASSUME NEW key \in Block
  PROVE  /\ IsSchedule(AesKeys(key), 44, key)
         /\ KeyExpansion(key) = AesKeys(key)
         /\ mbedtls_aes_setkey_enc(key) = AesKeys(key)
<1>1. PICK w : IsSchedule(w, 44, key)
  BY ScheduleExists
<1>2. AesKeys(key) = w /\ KeyExpansion(key) = w /\ mbedtls_aes_setkey_enc(key) = w
  BY <1>1, AesKeysAre, KeyExpansionIs, MbedScheduleIs
<1> QED
  BY <1>1, <1>2

LEMMA WordsAreSeq ==
  ASSUME NEW n \in Nat, NEW w, w \in [1 .. n -> Word]
  PROVE  w \in Seq(Word) /\ Len(w) = n
  OBVIOUS

(* A schedule begins with its key.                                         *)
LEMMA BeginsWithKey ==
  ASSUME NEW key \in Block, NEW w, IsSchedule(w, 44, key)
  PROVE  KeyIn(w) = key
<1>0. w \in [1 .. 44 -> Word]
  BY DEF IsSchedule
<1>1. w \in Seq(Word)
  <2>1. 44 \in Nat
    OBVIOUS
  <2> QED
    BY <1>0, <2>1, WordsAreSeq
<1>2. SubSeq(w, 1, 4) = [i \in 1 .. 4 |-> w[i]]
  BY <1>1
<1>3. [i \in 1 .. 4 |-> w[i]] = key
  BY WholePrefix DEF Prefix
<1> QED
  BY <1>2, <1>3 DEF KeyIn

(* The fifth word of the schedule of the zero key is not zero.             *)
LEMMA NotAllZero ==
  ASSUME NEW key \in Block, NEW w, IsSchedule(w, 44, key)
  PROVE  w # [i \in 1 .. 44 |-> <<0, 0, 0, 0>>]
<1> SUFFICES ASSUME \A i \in 1 .. 44 : w[i] = <<0, 0, 0, 0>> PROVE FALSE
  OBVIOUS
<1>1. w[5] = XorWord(w[1], Temp(5, w[4]))
  <2>1. 5 \in 5 .. 44 /\ 5 - 4 = 1 /\ 5 - 1 = 4
    OBVIOUS
  <2>2. w[5] = XorWord(w[5 - 4], Temp(5, w[5 - 1]))
    BY <2>1 DEF IsSchedule
  <2> QED
    BY <2>1, <2>2
<1> DEFINE z == <<0, 0, 0, 0>>
           s == At(SBox, 0)
<1>2. w[5] = z /\ w[4] = z /\ w[1] = z
  OBVIOUS
<1>3. Temp(5, z) = XorWord(SubWord(RotWord(z)), <<RCon[(5 - 1) \div 4], 0, 0, 0>>)
  <2>1. 5 % 4 = 1
    OBVIOUS
  <2> QED
    BY <2>1 DEF Temp
<1>4. SubWord(RotWord(z)) = <<s, s, s, s>>
  BY DEF SubWord, RotWord, Four
<1>5. Temp(5, z)[2] = s (+) 0
  BY <1>3, <1>4 DEF XorWord, Four
<1>6. w[5][2] = 0 (+) (s (+) 0)
  BY <1>1, <1>2, <1>5 DEF XorWord, Four
<1>7. s \in Byte /\ s # 0
  BY TableFacts, XorZero
<1>8. s (+) 0 = s /\ 0 (+) s = s
  BY <1>7, XorZero
<1>9. w[5][2] = s
  BY <1>6, <1>8
<1> HIDE DEF s
<1>10. w[5][2] = 0
  BY <1>2
<1> QED
  BY <1>7, <1>9, <1>10

LEMMA RoundKeyIs ==
  ASSUME NEW w \in [1 .. 44 -> Word], NEW round \in 0 .. 10
  PROVE  /\ RoundKeyOf(w, round) \in Block
         /\ RoundKeyOf(w, round)
              = <<w[4 * round + 1], w[4 * round + 2], w[4 * round + 3], w[4 * round + 4]>>
         /\ RoundWords(w, round) = RoundKeyOf(w, round)
         /\ \A s : AddRoundKey(s, w, round) = XorBlock(s, RoundKeyOf(w, round))
<1> DEFINE n == 4 * round
           k == <<w[n + 1], w[n + 2], w[n + 3], w[n + 4]>>
<1>1. RoundKeyOf(w, round) = k
  BY DEF RoundKeyOf, Four
<1>2. /\ n + 1 \in 1 .. 44 /\ n + 2 \in 1 .. 44 /\ n + 3 \in 1 .. 44 /\ n + 4 \in 1 .. 44
      /\ n \in 0 .. 40
  OBVIOUS
<1> HIDE DEF n
<1>3. w[n + 1] \in Word /\ w[n + 2] \in Word /\ w[n + 3] \in Word /\ w[n + 4] \in Word
  BY <1>2
<1>4. k \in Block
  BY <1>3, FourType DEF Block
<1>5. SubSeq(w, n + 1, n + 4) = k
  <2> DEFINE q == SubSeq(w, n + 1, n + 4)
  <2>1. w \in Seq(Word) /\ Len(w) = 44
    <3>1. 44 \in Nat
      OBVIOUS
    <3> QED
      BY <3>1, WordsAreSeq
  <2>2. q = [i \in 1 .. 4 |-> w[i + n]]
    <3>1. \A i \in n + 1 .. n + 4 : w[i] \in Word
      BY <1>2
    <3>2. n + 1 \in Int /\ n + 4 \in Int
      BY <1>2
    <3>3. /\ q \in Seq(Word)
          /\ Len(q) = IF n + 1 <= n + 4 THEN (n + 4) - (n + 1) + 1 ELSE 0
          /\ \A i \in 1 .. (n + 4) - (n + 1) + 1 : q[i] = w[(n + 1) + i - 1]
      BY <3>1, <3>2, SubSeqProperties
    <3> HIDE DEF q
    <3>4. q \in [1 .. Len(q) -> Word]
      BY <3>3, LenProperties
    <3>5. Len(q) = 4 /\ (n + 4) - (n + 1) + 1 = 4 /\ \A i \in 1 .. 4 : (n + 1) + i - 1 = i + n
      BY <1>2, <3>3
    <3>6. q \in [1 .. 4 -> Word] /\ \A i \in 1 .. 4 : q[i] = w[i + n]
      BY <3>3, <3>4, <3>5
    <3> QED
      BY <3>6
  <2> HIDE DEF q
  <2>3. q[1] = w[n + 1] /\ q[2] = w[n + 2] /\ q[3] = w[n + 3] /\ q[4] = w[n + 4]
    BY <1>2, <2>2
  <2>4. q \in [1 .. 4 -> Word]
    <3>1. \A i \in 1 .. 4 : i + n \in 1 .. 44
      BY <1>2
    <3> QED
      BY <2>2, <3>1
  <2>5. q = <<q[1], q[2], q[3], q[4]>>
    BY <2>4, FourEntries
  <2> QED
    BY <2>3, <2>5 DEF q
<1>6. RoundWords(w, round) = k
  BY <1>5 DEF RoundWords, n
<1>7. \A s : AddRoundKey(s, w, round) = XorBlock(s, RoundKeyOf(w, round))
  BY DEF AddRoundKey, XorBlock, RoundKeyOf, Four
<1> QED
  BY <1>1, <1>4, <1>6, <1>7 DEF n

-----------------------------------------------------------------------------
(* The rounds of the encryptions.                                          *)

(* A column of MixColumns. *)
Mixed(a) ==
  <<xtime(a[1]) (+) (xtime(a[2]) (+) a[2]) (+) a[3] (+) a[4],
    a[1] (+) xtime(a[2]) (+) (xtime(a[3]) (+) a[3]) (+) a[4],
    a[1] (+) a[2] (+) xtime(a[3]) (+) (xtime(a[4]) (+) a[4]),
    (xtime(a[1]) (+) a[1]) (+) a[2] (+) a[3] (+) xtime(a[4])>>

LEMMA XorFourType ==
  \A a, b, c, d \in Byte : a (+) b (+) c (+) d \in Byte
  BY XorType

LEMMA MixedIs ==
  ASSUME NEW a \in Word
  PROVE  /\ Mixed(a) \in Word
         /\ xtime(a[1]) \in Byte /\ xtime(a[2]) \in Byte
         /\ xtime(a[3]) \in Byte /\ xtime(a[4]) \in Byte
<1>1. a[1] \in Byte /\ a[2] \in Byte /\ a[3] \in Byte /\ a[4] \in Byte
  BY WordBytes
<1>2. /\ xtime(a[1]) \in Byte /\ xtime(a[2]) \in Byte
      /\ xtime(a[3]) \in Byte /\ xtime(a[4]) \in Byte
  BY <1>1, ProductFacts
<1>3. /\ xtime(a[1]) (+) a[1] \in Byte /\ xtime(a[2]) (+) a[2] \in Byte
      /\ xtime(a[3]) (+) a[3] \in Byte /\ xtime(a[4]) (+) a[4] \in Byte
  BY <1>1, <1>2, XorType
<1>4. /\ xtime(a[1]) (+) (xtime(a[2]) (+) a[2]) (+) a[3] (+) a[4] \in Byte
      /\ a[1] (+) xtime(a[2]) (+) (xtime(a[3]) (+) a[3]) (+) a[4] \in Byte
      /\ a[1] (+) a[2] (+) xtime(a[3]) (+) (xtime(a[4]) (+) a[4]) \in Byte
      /\ (xtime(a[1]) (+) a[1]) (+) a[2] (+) a[3] (+) xtime(a[4]) \in Byte
  BY <1>1, <1>2, <1>3, XorFourType
<1>5. Mixed(a) \in Word
  BY <1>4, FourType DEF Mixed, Word
<1> QED
  BY <1>2, <1>5

LEMMA XorBack == \A a, x \in Byte : (a (+) x) (+) a = x
<1> SUFFICES ASSUME NEW a \in Byte, NEW x \in Byte PROVE (a (+) x) (+) a = x
  OBVIOUS
<1>1. a (+) x = x (+) a
  BY XorCommutes
<1>2. (x (+) a) (+) a = x
  BY XorUndone
<1> QED
  BY <1>1, <1>2

(* What MixColumn adds to a byte, spread over the sum Tmp. *)
LEMMA MixColumnIs ==
  ASSUME NEW a \in Word
  PROVE  MixColumn(a) = Mixed(a)
<1> DEFINE a1 == a[1]
           a2 == a[2]
           a3 == a[3]
           a4 == a[4]
           x1 == xtime(a[1])
           x2 == xtime(a[2])
           x3 == xtime(a[3])
           x4 == xtime(a[4])
           Tmp == a1 (+) a2 (+) a3 (+) a4
<1>1. /\ a1 \in Byte /\ a2 \in Byte /\ a3 \in Byte /\ a4 \in Byte
      /\ x1 \in Byte /\ x2 \in Byte /\ x3 \in Byte /\ x4 \in Byte
  BY WordBytes, MixedIs
<1>2. /\ xtime(a1 (+) a2) = x1 (+) x2 /\ xtime(a2 (+) a3) = x2 (+) x3
      /\ xtime(a3 (+) a4) = x3 (+) x4 /\ xtime(a4 (+) a1) = x4 (+) x1
  BY <1>1, ProductFacts
<1>3. MixColumn(a)
        = <<a1 (+) (x1 (+) x2) (+) Tmp, a2 (+) (x2 (+) x3) (+) Tmp,
            a3 (+) (x3 (+) x4) (+) Tmp, a4 (+) (x4 (+) x1) (+) Tmp>>
  BY <1>2 DEF MixColumn
<1>4. Mixed(a) = <<x1 (+) (x2 (+) a2) (+) a3 (+) a4, a1 (+) x2 (+) (x3 (+) a3) (+) a4,
                   a1 (+) a2 (+) x3 (+) (x4 (+) a4), (x1 (+) a1) (+) a2 (+) a3 (+) x4>>
  BY DEF Mixed
<1> HIDE DEF a1, a2, a3, a4, x1, x2, x3, x4
<1>5. /\ 0 \in Byte
      /\ \A x \in Byte : x (+) 0 = x /\ 0 (+) x = x
  BY <1>1, XorZero
<1>6. /\ a1 (+) x1 \in Byte /\ a2 (+) x2 \in Byte /\ a3 (+) x3 \in Byte /\ a4 (+) x4 \in Byte
  BY <1>1, XorType
<1>7. a1 (+) (x1 (+) x2) (+) Tmp = x1 (+) (x2 (+) a2) (+) a3 (+) a4
  <2>1. a1 (+) (x1 (+) x2) = (a1 (+) x1) (+) x2
    BY <1>1, XorAssociates
  <2>2. ((a1 (+) x1) (+) x2) = (a1 (+) x1) (+) x2 (+) 0 (+) 0
    BY <1>1, <1>5, <1>6, XorType
  <2>3. ((a1 (+) x1) (+) x2 (+) 0 (+) 0) (+) Tmp
          = ((a1 (+) x1) (+) a1) (+) (x2 (+) a2) (+) (0 (+) a3) (+) (0 (+) a4)
    <3>1. FourSums(a1 (+) x1, x2, 0, 0, a1, a2, a3, a4)
      BY <1>1, <1>5, <1>6, XorFours
    <3> QED
      BY <3>1 DEF FourSums
  <2>4. (a1 (+) x1) (+) a1 = x1 /\ 0 (+) a3 = a3 /\ 0 (+) a4 = a4
    BY <1>1, <1>5, XorBack
  <2> HIDE DEF Tmp
  <2> QED
    BY <2>1, <2>2, <2>3, <2>4
<1>8. a2 (+) (x2 (+) x3) (+) Tmp = a1 (+) x2 (+) (x3 (+) a3) (+) a4
  <2>1. a2 (+) (x2 (+) x3) = (a2 (+) x2) (+) x3
    BY <1>1, XorAssociates
  <2>2. (a2 (+) x2) (+) x3 = 0 (+) (a2 (+) x2) (+) x3 (+) 0
    BY <1>1, <1>5, <1>6, XorType
  <2>3. (0 (+) (a2 (+) x2) (+) x3 (+) 0) (+) Tmp
          = (0 (+) a1) (+) ((a2 (+) x2) (+) a2) (+) (x3 (+) a3) (+) (0 (+) a4)
    <3>1. FourSums(0, a2 (+) x2, x3, 0, a1, a2, a3, a4)
      BY <1>1, <1>5, <1>6, XorFours
    <3> QED
      BY <3>1 DEF FourSums
  <2>4. (a2 (+) x2) (+) a2 = x2 /\ 0 (+) a1 = a1 /\ 0 (+) a4 = a4
    BY <1>1, <1>5, XorBack
  <2> HIDE DEF Tmp
  <2> QED
    BY <2>1, <2>2, <2>3, <2>4
<1>9. a3 (+) (x3 (+) x4) (+) Tmp = a1 (+) a2 (+) x3 (+) (x4 (+) a4)
  <2>1. a3 (+) (x3 (+) x4) = (a3 (+) x3) (+) x4
    BY <1>1, XorAssociates
  <2>2. (a3 (+) x3) (+) x4 = 0 (+) 0 (+) (a3 (+) x3) (+) x4
    BY <1>1, <1>5, <1>6, XorType
  <2>3. (0 (+) 0 (+) (a3 (+) x3) (+) x4) (+) Tmp
          = (0 (+) a1) (+) (0 (+) a2) (+) ((a3 (+) x3) (+) a3) (+) (x4 (+) a4)
    <3>1. FourSums(0, 0, a3 (+) x3, x4, a1, a2, a3, a4)
      BY <1>1, <1>5, <1>6, XorFours
    <3> QED
      BY <3>1 DEF FourSums
  <2>4. (a3 (+) x3) (+) a3 = x3 /\ 0 (+) a1 = a1 /\ 0 (+) a2 = a2
    BY <1>1, <1>5, XorBack
  <2> HIDE DEF Tmp
  <2> QED
    BY <2>1, <2>2, <2>3, <2>4
<1>10. a4 (+) (x4 (+) x1) (+) Tmp = (x1 (+) a1) (+) a2 (+) a3 (+) x4
  <2>1. a4 (+) (x4 (+) x1) = (a4 (+) x4) (+) x1
    BY <1>1, XorAssociates
  <2>2. (a4 (+) x4) (+) x1 = x1 (+) (a4 (+) x4)
    BY <1>1, <1>6, XorCommutes
  <2>3. x1 (+) (a4 (+) x4) = x1 (+) 0 (+) 0 (+) (a4 (+) x4)
    BY <1>1, <1>5, <1>6, XorType
  <2>4. (x1 (+) 0 (+) 0 (+) (a4 (+) x4)) (+) Tmp
          = (x1 (+) a1) (+) (0 (+) a2) (+) (0 (+) a3) (+) ((a4 (+) x4) (+) a4)
    <3>1. FourSums(x1, 0, 0, a4 (+) x4, a1, a2, a3, a4)
      BY <1>1, <1>5, <1>6, XorFours
    <3> QED
      BY <3>1 DEF FourSums
  <2>5. (a4 (+) x4) (+) a4 = x4 /\ 0 (+) a2 = a2 /\ 0 (+) a3 = a3
    BY <1>1, <1>5, XorBack
  <2> HIDE DEF Tmp
  <2> QED
    BY <2>1, <2>2, <2>3, <2>4, <2>5
<1> QED
  BY <1>3, <1>4, <1>7, <1>8, <1>9, <1>10

LEMMA AesMixColumnsIs ==
  ASSUME NEW t \in Block
  PROVE  /\ AesMixColumns(t) = <<Mixed(t[1]), Mixed(t[2]), Mixed(t[3]), Mixed(t[4])>>
         /\ AesMixColumns(t) = MixColumns(t)
         /\ AesMixColumns(t) \in Block
<1> DEFINE Row(a, r) == Mult(a[1], MixMatrix[r][1]) (+) Mult(a[2], MixMatrix[r][2])
                        (+) Mult(a[3], MixMatrix[r][3]) (+) Mult(a[4], MixMatrix[r][4])
<1>1. ASSUME NEW a \in Word PROVE <<Row(a, 1), Row(a, 2), Row(a, 3), Row(a, 4)>> = Mixed(a)
  <2>1. a[1] \in Byte /\ a[2] \in Byte /\ a[3] \in Byte /\ a[4] \in Byte
    BY <1>1, WordBytes
  <2>2. \A b \in Byte : Mult(b, 1) = b /\ Mult(b, 2) = xtime(b) /\ Mult(b, 3) = xtime(b) (+) b
    BY ProductFacts
  <2>3. /\ MixMatrix[1] = <<2, 3, 1, 1>> /\ MixMatrix[2] = <<1, 2, 3, 1>>
        /\ MixMatrix[3] = <<1, 1, 2, 3>> /\ MixMatrix[4] = <<3, 1, 1, 2>>
    BY DEF MixMatrix
  <2>4. /\ Row(a, 1) = Mult(a[1], 2) (+) Mult(a[2], 3) (+) Mult(a[3], 1) (+) Mult(a[4], 1)
        /\ Row(a, 2) = Mult(a[1], 1) (+) Mult(a[2], 2) (+) Mult(a[3], 3) (+) Mult(a[4], 1)
        /\ Row(a, 3) = Mult(a[1], 1) (+) Mult(a[2], 1) (+) Mult(a[3], 2) (+) Mult(a[4], 3)
        /\ Row(a, 4) = Mult(a[1], 3) (+) Mult(a[2], 1) (+) Mult(a[3], 1) (+) Mult(a[4], 2)
    BY <2>3
  <2> HIDE DEF Row
  <2> QED
    BY <2>1, <2>2, <2>4 DEF Mixed
<1>2. AesMixColumns(t) = <<<<Row(t[1], 1), Row(t[1], 2), Row(t[1], 3), Row(t[1], 4)>>,
                           <<Row(t[2], 1), Row(t[2], 2), Row(t[2], 3), Row(t[2], 4)>>,
                           <<Row(t[3], 1), Row(t[3], 2), Row(t[3], 3), Row(t[3], 4)>>,
                           <<Row(t[4], 1), Row(t[4], 2), Row(t[4], 3), Row(t[4], 4)>>>>
  BY DEF AesMixColumns, Four
<1> HIDE DEF Row
<1>3. t[1] \in Word /\ t[2] \in Word /\ t[3] \in Word /\ t[4] \in Word
  BY BlockWords
<1>4. AesMixColumns(t) = <<Mixed(t[1]), Mixed(t[2]), Mixed(t[3]), Mixed(t[4])>>
  BY <1>1, <1>2, <1>3
<1>5. AesMixColumns(t) = MixColumns(t)
  BY <1>3, <1>4, MixColumnIs DEF MixColumns, Four
<1>6. AesMixColumns(t) \in Block
  <2>1. Mixed(t[1]) \in Word /\ Mixed(t[2]) \in Word /\ Mixed(t[3]) \in Word /\ Mixed(t[4]) \in Word
    BY <1>3, MixedIs
  <2> QED
    BY <1>4, <2>1, FourType DEF Block
<1> QED
  BY <1>4, <1>5, <1>6

LEMMA AesSubBytesIs ==
  ASSUME NEW s \in Block
  PROVE  /\ AesSubBytes(s) \in Block /\ AesSubBytes(s) = SubBytes(s)
         /\ AesSubBytes(s) = <<SubWord(s[1]), SubWord(s[2]), SubWord(s[3]), SubWord(s[4])>>
<1>1. AesSubBytes(s) = <<SubWord(s[1]), SubWord(s[2]), SubWord(s[3]), SubWord(s[4])>>
  BY DEF AesSubBytes, Four
<1>2. s[1] \in Word /\ s[2] \in Word /\ s[3] \in Word /\ s[4] \in Word
  BY BlockWords
<1>3. /\ SubWord(s[1]) \in Word /\ SubWord(s[2]) \in Word
      /\ SubWord(s[3]) \in Word /\ SubWord(s[4]) \in Word
  BY <1>2, SubWordIs
<1>4. AesSubBytes(s) \in Block
  BY <1>1, <1>3, FourType DEF Block
<1> DEFINE Listed(v) == Four(LAMBDA j : getSBoxValue(v[j]))
<1>5. SubBytes(s) = <<Listed(s[1]), Listed(s[2]), Listed(s[3]), Listed(s[4])>>
  BY DEF SubBytes, Four
<1>6. ASSUME NEW v \in Word PROVE Listed(v) = SubWord(v)
  <2>1. /\ getSBoxValue(v[1]) = At(SBox, v[1]) /\ getSBoxValue(v[2]) = At(SBox, v[2])
        /\ getSBoxValue(v[3]) = At(SBox, v[3]) /\ getSBoxValue(v[4]) = At(SBox, v[4])
    BY <1>6, WordBytes, TableFacts
  <2> QED
    BY <2>1 DEF SubWord, Four
<1> HIDE DEF Listed
<1>7. AesSubBytes(s) = SubBytes(s)
  BY <1>1, <1>2, <1>5, <1>6
<1> QED
  BY <1>1, <1>4, <1>7

LEMMA ShiftRowsIs ==
  ASSUME NEW t \in Block
  PROVE  AesShiftRows(t) \in Block /\ AesShiftRows(t) = ShiftRows(t)
<1>1. AesShiftRows(t) = ShiftRows(t)
  BY DEF AesShiftRows, ShiftRows, Four
<1>2. t[1] \in Word /\ t[2] \in Word /\ t[3] \in Word /\ t[4] \in Word
  BY BlockWords
<1>3. \A v \in Word : v[1] \in Byte /\ v[2] \in Byte /\ v[3] \in Byte /\ v[4] \in Byte
  BY WordBytes
<1>4. \A a, b, c, d \in Byte : <<a, b, c, d>> \in Word
  BY FourType DEF Word
<1>5. /\ <<t[1][1], t[2][2], t[3][3], t[4][4]>> \in Word
      /\ <<t[2][1], t[3][2], t[4][3], t[1][4]>> \in Word
      /\ <<t[3][1], t[4][2], t[1][3], t[2][4]>> \in Word
      /\ <<t[4][1], t[1][2], t[2][3], t[3][4]>> \in Word
  BY <1>2, <1>3, <1>4
<1>6. ShiftRows(t) \in Block
  BY <1>5, FourType DEF ShiftRows, Block
<1> QED
  BY <1>1, <1>6

LEMMA SubThenShift ==
  ASSUME NEW s \in Block
  PROVE  AesShiftRows(AesSubBytes(s)) = AesSubBytes(ShiftRows(s))
<1> DEFINE S(x) == At(SBox, x)
           t == AesSubBytes(s)
<1>1. \A v \in Word : SubWord(v) = <<S(v[1]), S(v[2]), S(v[3]), S(v[4])>>
  BY SubWordIs
<1>2. t \in Block /\ t = <<SubWord(s[1]), SubWord(s[2]), SubWord(s[3]), SubWord(s[4])>>
  BY AesSubBytesIs
<1>3. s[1] \in Word /\ s[2] \in Word /\ s[3] \in Word /\ s[4] \in Word
  BY BlockWords
<1>4. /\ t[1] = <<S(s[1][1]), S(s[1][2]), S(s[1][3]), S(s[1][4])>>
      /\ t[2] = <<S(s[2][1]), S(s[2][2]), S(s[2][3]), S(s[2][4])>>
      /\ t[3] = <<S(s[3][1]), S(s[3][2]), S(s[3][3]), S(s[3][4])>>
      /\ t[4] = <<S(s[4][1]), S(s[4][2]), S(s[4][3]), S(s[4][4])>>
  BY <1>1, <1>2, <1>3
<1> HIDE DEF t, S
<1>5. ShiftRows(t) = << <<S(s[1][1]), S(s[2][2]), S(s[3][3]), S(s[4][4])>>,
                        <<S(s[2][1]), S(s[3][2]), S(s[4][3]), S(s[1][4])>>,
                        <<S(s[3][1]), S(s[4][2]), S(s[1][3]), S(s[2][4])>>,
                        <<S(s[4][1]), S(s[1][2]), S(s[2][3]), S(s[3][4])>> >>
  BY <1>4 DEF ShiftRows
<1>6. AesSubBytes(ShiftRows(s))
        = << <<S(s[1][1]), S(s[2][2]), S(s[3][3]), S(s[4][4])>>,
             <<S(s[2][1]), S(s[3][2]), S(s[4][3]), S(s[1][4])>>,
             <<S(s[3][1]), S(s[4][2]), S(s[1][3]), S(s[2][4])>>,
             <<S(s[4][1]), S(s[1][2]), S(s[2][3]), S(s[3][4])>> >>
  BY DEF AesSubBytes, SubWord, ShiftRows, Four, S
<1>7. AesShiftRows(t) = ShiftRows(t)
  BY <1>2, ShiftRowsIs
<1> QED
  BY <1>5, <1>6, <1>7 DEF t

(* AES_FROUND adds the round key first, FIPS 197 last. *)
KeyLast(k, p, q, r, s) ==
  ((k (+) p) (+) q) (+) (r (+) s) = (p (+) q (+) r (+) s) (+) k

LEMMA RoundOrder ==
  ASSUME NEW k \in Byte, NEW p \in Byte, NEW q \in Byte, NEW r \in Byte, NEW s \in Byte
  PROVE  KeyLast(k, p, q, r, s)
<1> DEFINE u == p (+) q
           v == r (+) s
<1>1. u \in Byte /\ v \in Byte /\ k (+) p \in Byte
  BY XorType
<1>2. (k (+) p) (+) q = k (+) u
  BY XorAssociates
<1>3. p (+) q (+) r (+) s = u (+) v
  BY <1>1, XorAssociates
<1> HIDE DEF u, v
<1>4. k (+) u = u (+) k
  BY <1>1, XorCommutes
<1>5. (u (+) k) (+) v = (u (+) v) (+) k
  BY <1>1, XorExchange
<1> QED
  BY <1>2, <1>3, <1>4, <1>5 DEF v, KeyLast

(* What the four table look-ups of a word come to. *)
LEMMA FroundWord ==
  ASSUME NEW b \in Word, NEW k \in Word
  PROVE  XorWord(XorWord(XorWord(k, At(FT0, b[1])), At(FT1, b[2])),
                 XorWord(At(FT2, b[3]), At(FT3, b[4])))
           = XorWord(Mixed(SubWord(b)), k)
<1> DEFINE s1 == At(SBox, b[1])
           s2 == At(SBox, b[2])
           s3 == At(SBox, b[3])
           s4 == At(SBox, b[4])
           x1 == xtime(s1)
           x2 == xtime(s2)
           x3 == xtime(s3)
           x4 == xtime(s4)
           y1 == x1 (+) s1
           y2 == x2 (+) s2
           y3 == x3 (+) s3
           y4 == x4 (+) s4
           found == XorWord(XorWord(XorWord(k, At(FT0, b[1])), At(FT1, b[2])),
                            XorWord(At(FT2, b[3]), At(FT3, b[4])))
<1>1. b[1] \in Byte /\ b[2] \in Byte /\ b[3] \in Byte /\ b[4] \in Byte
  BY WordBytes
<1>2. /\ At(FT0, b[1]) = <<x1, s1, s1, y1>> /\ At(FT1, b[2]) = <<y2, x2, s2, s2>>
      /\ At(FT2, b[3]) = <<s3, y3, x3, s3>> /\ At(FT3, b[4]) = <<s4, s4, y4, x4>>
  BY <1>1, TableFacts
<1>3. SubWord(b) \in Word /\ SubWord(b) = <<s1, s2, s3, s4>>
  BY SubWordIs
<1>4. Mixed(SubWord(b)) = <<x1 (+) y2 (+) s3 (+) s4, s1 (+) x2 (+) y3 (+) s4,
                            s1 (+) s2 (+) x3 (+) y4, y1 (+) s2 (+) s3 (+) x4>>
  BY <1>3 DEF Mixed
<1>5. /\ s1 \in Byte /\ s2 \in Byte /\ s3 \in Byte /\ s4 \in Byte
  BY <1>1, TableFacts
<1> HIDE DEF s1, s2, s3, s4
<1>6. x1 \in Byte /\ x2 \in Byte /\ x3 \in Byte /\ x4 \in Byte
  BY <1>5, ProductFacts
<1> HIDE DEF x1, x2, x3, x4
<1>7. y1 \in Byte /\ y2 \in Byte /\ y3 \in Byte /\ y4 \in Byte
  BY <1>5, <1>6, XorType
<1> HIDE DEF y1, y2, y3, y4
<1>8. k[1] \in Byte /\ k[2] \in Byte /\ k[3] \in Byte /\ k[4] \in Byte
  BY WordBytes
<1>9. found = <<((k[1] (+) x1) (+) y2) (+) (s3 (+) s4), ((k[2] (+) s1) (+) x2) (+) (y3 (+) s4),
                ((k[3] (+) s1) (+) s2) (+) (x3 (+) y4), ((k[4] (+) y1) (+) s2) (+) (s3 (+) x4)>>
  BY <1>2 DEF XorWord, Four
<1>10. XorWord(Mixed(SubWord(b)), k)
         = <<(x1 (+) y2 (+) s3 (+) s4) (+) k[1], (s1 (+) x2 (+) y3 (+) s4) (+) k[2],
             (s1 (+) s2 (+) x3 (+) y4) (+) k[3], (y1 (+) s2 (+) s3 (+) x4) (+) k[4]>>
  BY <1>4 DEF XorWord, Four
<1> HIDE DEF found
<1>11. /\ KeyLast(k[1], x1, y2, s3, s4) /\ KeyLast(k[2], s1, x2, y3, s4)
       /\ KeyLast(k[3], s1, s2, x3, y4) /\ KeyLast(k[4], y1, s2, s3, x4)
  BY <1>5, <1>6, <1>7, <1>8, RoundOrder
<1>12. found = XorWord(Mixed(SubWord(b)), k)
  BY <1>9, <1>10, <1>11 DEF KeyLast
<1> QED
  BY <1>12 DEF found

LEMMA RoundIs ==
  ASSUME NEW w \in [1 .. 44 -> Word], NEW round \in 1 .. 10, NEW s \in Block
  PROVE  /\ AesRound(w, round)[s] \in Block
         /\ AesRound(w, round)[s]
              = XorBlock(IF round = 10 THEN AesShiftRows(AesSubBytes(s))
                         ELSE AesMixColumns(AesShiftRows(AesSubBytes(s))), RoundKeyOf(w, round))
<1> DEFINE t == AesShiftRows(AesSubBytes(s))
           m == IF round = 10 THEN t ELSE AesMixColumns(t)
<1>1. t \in Block
  BY AesSubBytesIs, ShiftRowsIs
<1>2. m \in Block
  BY <1>1, AesMixColumnsIs
<1>3. AesRound(w, round)[s] = XorBlock(m, RoundKeyOf(w, round))
  BY DEF AesRound
<1> HIDE DEF m
<1>4. RoundKeyOf(w, round) \in Block
  <2>1. round \in 0 .. 10
    OBVIOUS
  <2> QED
    BY <2>1, RoundKeyIs
<1>5. AesRound(w, round)[s] \in Block
  BY <1>2, <1>3, <1>4, XorBlockIs
<1> QED
  BY <1>3, <1>5 DEF m

LEMMA CipherTurnIs ==
  ASSUME NEW w \in [1 .. 44 -> Word], NEW round \in 1 .. 10, NEW s \in Block
  PROVE  CipherTurn(w, round)[s] = AesRound(w, round)[s]
<1> DEFINE t == AesShiftRows(AesSubBytes(s))
           m == IF round = 10 THEN t ELSE AesMixColumns(t)
           n == IF round = Nr THEN ShiftRows(SubBytes(s)) ELSE MixColumns(ShiftRows(SubBytes(s)))
<1>1. t \in Block /\ t = ShiftRows(SubBytes(s))
  BY AesSubBytesIs, ShiftRowsIs
<1>2. m = n
  BY <1>1, AesMixColumnsIs DEF Nr
<1>3. CipherTurn(w, round)[s] = AddRoundKey(n, w, round)
  BY DEF CipherTurn
<1>4. AesRound(w, round)[s] = XorBlock(m, RoundKeyOf(w, round))
  BY RoundIs
<1> HIDE DEF m, n
<1>5. AddRoundKey(n, w, round) = XorBlock(n, RoundKeyOf(w, round))
  <2>1. round \in 0 .. 10
    OBVIOUS
  <2> QED
    BY <2>1, RoundKeyIs
<1> QED
  BY <1>2, <1>3, <1>4, <1>5

LEMMA EncryptTurnIs ==
  ASSUME NEW w \in [1 .. 44 -> Word], NEW round \in 1 .. 10, NEW Y \in Block
  PROVE  EncryptTurn(w, round)[Y] = AesRound(w, round)[Y]
<1> DEFINE k == RoundKeyOf(w, round)
           b == ShiftRows(Y)
           t == AesShiftRows(AesSubBytes(Y))
<1>1. k \in Block /\ RoundWords(w, round) = k
  <2>1. round \in 0 .. 10
    OBVIOUS
  <2> QED
    BY <2>1, RoundKeyIs
<1>2. b \in Block
  BY ShiftRowsIs
<1>3. t \in Block /\ t = <<SubWord(b[1]), SubWord(b[2]), SubWord(b[3]), SubWord(b[4])>>
  <2>1. t = AesSubBytes(b)
    BY SubThenShift
  <2> HIDE DEF b, t
  <2> QED
    BY <1>2, <2>1, AesSubBytesIs
<1>4. /\ b[1] \in Word /\ b[2] \in Word /\ b[3] \in Word /\ b[4] \in Word
      /\ k[1] \in Word /\ k[2] \in Word /\ k[3] \in Word /\ k[4] \in Word
  <2> HIDE DEF b, k
  <2> QED
    BY <1>1, <1>2, BlockWords
<1>5. CASE round # 10
  <2> DEFINE Found(c) ==
        XorWord(XorWord(XorWord(k[c], At(FT0, b[c][1])), At(FT1, b[c][2])),
                XorWord(At(FT2, b[c][3]), At(FT3, b[c][4])))
  <2>1. EncryptTurn(w, round)[Y] = AES_FROUND(k, <<FT0, FT1, FT2, FT3>>, Y)
    BY <1>1, <1>5 DEF EncryptTurn
  <2>2. AES_FROUND(k, <<FT0, FT1, FT2, FT3>>, Y) = <<Found(1), Found(2), Found(3), Found(4)>>
    BY DEF AES_FROUND, Four, ShiftRows
  <2>3. /\ Found(1) = XorWord(Mixed(t[1]), k[1]) /\ Found(2) = XorWord(Mixed(t[2]), k[2])
        /\ Found(3) = XorWord(Mixed(t[3]), k[3]) /\ Found(4) = XorWord(Mixed(t[4]), k[4])
    <3> HIDE DEF b, k, t
    <3>1. /\ t[1] = SubWord(b[1]) /\ t[2] = SubWord(b[2])
          /\ t[3] = SubWord(b[3]) /\ t[4] = SubWord(b[4])
      BY <1>3
    <3> QED
      BY <1>4, <3>1, FroundWord
  <2> HIDE DEF b, k, t, Found
  <2>4. AesMixColumns(t) = <<Mixed(t[1]), Mixed(t[2]), Mixed(t[3]), Mixed(t[4])>>
    BY <1>3, AesMixColumnsIs
  <2>5. XorBlock(AesMixColumns(t), k) = <<XorWord(Mixed(t[1]), k[1]), XorWord(Mixed(t[2]), k[2]),
                                          XorWord(Mixed(t[3]), k[3]), XorWord(Mixed(t[4]), k[4])>>
    BY <2>4 DEF XorBlock, Four
  <2>6. AesRound(w, round)[Y] = XorBlock(AesMixColumns(t), k)
    BY <1>5, RoundIs DEF t, k
  <2> QED
    BY <2>1, <2>2, <2>3, <2>5, <2>6
<1>6. CASE round = 10
  <2> DEFINE Fours(v) == <<At(FSb, v[1]), At(FSb, v[2]), At(FSb, v[3]), At(FSb, v[4])>>
  <2>1. EncryptTurn(w, round)[Y] = LastRound(k, Y)
    BY <1>1, <1>6 DEF EncryptTurn
  <2>2. LastRound(k, Y) = <<XorWord(k[1], Fours(b[1])), XorWord(k[2], Fours(b[2])),
                            XorWord(k[3], Fours(b[3])), XorWord(k[4], Fours(b[4]))>>
    BY DEF LastRound, Four, ShiftRows
  <2> HIDE DEF b, k, t
  <2>3. ASSUME NEW v \in Word PROVE Fours(v) = SubWord(v)
    <3>1. v[1] \in Byte /\ v[2] \in Byte /\ v[3] \in Byte /\ v[4] \in Byte
      BY <2>3, WordBytes
    <3> QED
      BY <3>1, TableFacts DEF SubWord, Four
  <2> HIDE DEF Fours
  <2>4. /\ Fours(b[1]) = t[1] /\ Fours(b[2]) = t[2] /\ Fours(b[3]) = t[3] /\ Fours(b[4]) = t[4]
    BY <1>3, <1>4, <2>3
  <2>5. /\ t[1] \in Word /\ t[2] \in Word /\ t[3] \in Word /\ t[4] \in Word
    BY <1>3, BlockWords
  <2>6. XorBlock(t, k) = <<XorWord(k[1], t[1]), XorWord(k[2], t[2]),
                           XorWord(k[3], t[3]), XorWord(k[4], t[4])>>
    BY <1>4, <2>5, XorWordCommutes DEF XorBlock, Four
  <2>7. AesRound(w, round)[Y] = XorBlock(t, k)
    BY <1>6, RoundIs DEF t, k
  <2> QED
    BY <2>1, <2>2, <2>4, <2>6, <2>7
<1> QED
  BY <1>5, <1>6

LEMMA TurnsAgree ==
  ASSUME NEW w \in [1 .. 44 -> Word], NEW round \in 1 .. 10
  PROVE  /\ AesRound(w, round) \in [Block -> Block]
         /\ CipherTurn(w, round) = AesRound(w, round)
         /\ EncryptTurn(w, round) = AesRound(w, round)
<1>1. /\ AesRound(w, round) = [s \in Block |-> AesRound(w, round)[s]]
      /\ CipherTurn(w, round) = [s \in Block |-> CipherTurn(w, round)[s]]
      /\ EncryptTurn(w, round) = [s \in Block |-> EncryptTurn(w, round)[s]]
  BY DEF AesRound, CipherTurn, EncryptTurn
<1>2. \A s \in Block : /\ AesRound(w, round)[s] \in Block
                       /\ CipherTurn(w, round)[s] = AesRound(w, round)[s]
                       /\ EncryptTurn(w, round)[s] = AesRound(w, round)[s]
  BY RoundIs, CipherTurnIs, EncryptTurnIs
<1> DEFINE a == AesRound(w, round)
           c == CipherTurn(w, round)
           e == EncryptTurn(w, round)
<1> HIDE DEF a, c, e
<1>3. /\ a = [s \in Block |-> a[s]] /\ c = [s \in Block |-> c[s]] /\ e = [s \in Block |-> e[s]]
      /\ \A s \in Block : a[s] \in Block /\ c[s] = a[s] /\ e[s] = a[s]
  BY <1>1, <1>2 DEF a, c, e
<1>4. a \in [Block -> Block] /\ c = a /\ e = a
  BY <1>3
<1> QED
  BY <1>4 DEF a, c, e

(* The states of an encryption, from the first AddRoundKey to the answer.  *)
IsEncryption(f, w, block) ==
  /\ f \in [0 .. 10 -> Block]
  /\ f[0] = XorBlock(block, RoundKeyOf(w, 0))
  /\ \A round \in 1 .. 10 : f[round] = AesRound(w, round)[f[round - 1]]

LEMMA EncryptionExists ==
  ASSUME NEW w \in [1 .. 44 -> Word], NEW block \in Block
  PROVE  \E f : IsEncryption(f, w, block)
<1> DEFINE start == XorBlock(block, RoundKeyOf(w, 0))
           step == [round \in 1 .. 10 |-> AesRound(w, round)]
           n == 10
<1>1. start \in Block
  <2>1. 0 \in 0 .. 10
    OBVIOUS
  <2>2. RoundKeyOf(w, 0) \in Block
    BY <2>1, RoundKeyIs
  <2> QED
    BY <2>2, XorBlockIs
<1>2. step \in [1 .. n -> [Block -> Block]] /\ n \in Nat
  BY TurnsAgree
<1>3. \A round \in 1 .. 10 : step[round] = AesRound(w, round)
  OBVIOUS
<1> HIDE DEF start, step
<1>4. PICK f : IsRun(f, Block, n, start, step)
  <2> HIDE DEF n
  <2> QED
    BY <1>1, <1>2, StepsExist
<1>5. IsEncryption(f, w, block)
  BY <1>3, <1>4 DEF IsRun, IsEncryption, start
<1> QED
  BY <1>5

(* Whatever recursion describes the states has this end. *)
LEMMA EncryptionEnds ==
  ASSUME NEW w, NEW block, NEW f, IsEncryption(f, w, block), NEW g,
         g[0] = XorBlock(block, RoundKeyOf(w, 0)),
         \A round \in 1 .. 10 : g[round] = AesRound(w, round)[g[round - 1]]
  PROVE  g[10] = f[10]
<1> DEFINE Done == {m \in Nat : m <= 10 => g[m] = f[m]}
<1>1. 0 \in Done
  BY DEF IsEncryption
<1>2. ASSUME NEW m \in Nat, m \in Done PROVE m + 1 \in Done
  <2> SUFFICES ASSUME m + 1 <= 10 PROVE g[m + 1] = f[m + 1]
    OBVIOUS
  <2>1. g[m] = f[m] /\ m + 1 \in 1 .. 10 /\ (m + 1) - 1 = m
    BY <1>2
  <2>2. f[m + 1] = AesRound(w, m + 1)[f[(m + 1) - 1]]
    BY <2>1 DEF IsEncryption
  <2>3. g[m + 1] = AesRound(w, m + 1)[g[(m + 1) - 1]]
    BY <2>1
  <2> QED
    BY <2>1, <2>2, <2>3
<1>3. Nat \subseteq Done
  <2> HIDE DEF Done
  <2> QED
    BY <1>1, <1>2, NatSetInduction
<1> QED
  BY <1>3

LEMMA AesEnds ==
  ASSUME NEW key, NEW block, NEW f, IsEncryption(f, AesKeys(key), block)
  PROVE  AES(key, block) = f[10]
<1> DEFINE w == AesKeys(key)
           Unfolds(g) ==
             g = [round \in 0 .. 10 |->
                    IF round = 0 THEN XorBlock(block, RoundKeyOf(w, 0))
                    ELSE AesRound(w, round)[g[round - 1]]]
<1>1. Unfolds(f)
  BY DEF IsEncryption
<1>2. ASSUME NEW g, Unfolds(g) PROVE g[10] = f[10]
  <2>1. /\ g[0] = XorBlock(block, RoundKeyOf(w, 0))
        /\ \A round \in 1 .. 10 : g[round] = AesRound(w, round)[g[round - 1]]
    BY <1>2
  <2> QED
    BY <2>1, EncryptionEnds
<1> HIDE DEF Unfolds
<1>3. Unfolds(CHOOSE g : Unfolds(g))
  BY <1>1
<1>4. AES(key, block) = (CHOOSE g : Unfolds(g))[10]
  BY Zenon DEF AES, Unfolds
<1> QED
  BY <1>2, <1>3, <1>4

LEMMA CipherEnds ==
  ASSUME NEW w \in [1 .. 44 -> Word], NEW block, NEW f, IsEncryption(f, w, block)
  PROVE  Cipher(w, block) = f[10]
<1> DEFINE Unfolds(g) ==
             g = [round \in 0 .. Nr |->
                    IF round = 0 THEN AddRoundKey(block, w, 0)
                    ELSE CipherTurn(w, round)[g[round - 1]]]
<1>1. \A round \in 1 .. 10 : CipherTurn(w, round) = AesRound(w, round)
  BY TurnsAgree
<1>2. AddRoundKey(block, w, 0) = XorBlock(block, RoundKeyOf(w, 0))
  <2>1. 0 \in 0 .. 10
    OBVIOUS
  <2> QED
    BY <2>1, RoundKeyIs
<1>3. Unfolds(f)
  BY <1>1, <1>2 DEF IsEncryption, Nr
<1>4. ASSUME NEW g, Unfolds(g) PROVE g[10] = f[10]
  <2>1. /\ g[0] = XorBlock(block, RoundKeyOf(w, 0))
        /\ \A round \in 1 .. 10 : g[round] = AesRound(w, round)[g[round - 1]]
    BY <1>1, <1>2, <1>4 DEF Nr
  <2> QED
    BY <2>1, EncryptionEnds
<1> HIDE DEF Unfolds
<1>5. Unfolds(CHOOSE g : Unfolds(g))
  BY <1>3
<1>6. Cipher(w, block) = (CHOOSE g : Unfolds(g))[Nr]
  BY Zenon DEF Cipher, Unfolds
<1> QED
  BY <1>4, <1>5, <1>6 DEF Nr

LEMMA MbedEnds ==
  ASSUME NEW w \in [1 .. 44 -> Word], NEW block, NEW f, IsEncryption(f, w, block)
  PROVE  mbedtls_internal_aes_encrypt(w, block) = f[10]
<1> DEFINE Unfolds(g) ==
             g = [round \in 0 .. 10 |->
                    IF round = 0 THEN XorBlock(block, RoundWords(w, 0))
                    ELSE EncryptTurn(w, round)[g[round - 1]]]
<1>1. \A round \in 1 .. 10 : EncryptTurn(w, round) = AesRound(w, round)
  BY TurnsAgree
<1>2. RoundWords(w, 0) = RoundKeyOf(w, 0)
  <2>1. 0 \in 0 .. 10
    OBVIOUS
  <2> QED
    BY <2>1, RoundKeyIs
<1>3. Unfolds(f)
  BY <1>1, <1>2 DEF IsEncryption
<1>4. ASSUME NEW g, Unfolds(g) PROVE g[10] = f[10]
  <2>1. /\ g[0] = XorBlock(block, RoundKeyOf(w, 0))
        /\ \A round \in 1 .. 10 : g[round] = AesRound(w, round)[g[round - 1]]
    BY <1>1, <1>2, <1>4
  <2> QED
    BY <2>1, EncryptionEnds
<1> HIDE DEF Unfolds
<1>5. Unfolds(CHOOSE g : Unfolds(g))
  BY <1>3
<1>6. mbedtls_internal_aes_encrypt(w, block) = (CHOOSE g : Unfolds(g))[10]
  BY Zenon DEF mbedtls_internal_aes_encrypt, Unfolds
<1> QED
  BY <1>4, <1>5, <1>6

(* tinyaes128.c computes AES.                                              *)
THEOREM TinyAesComputesAes ==
  \A key, block \in Block : Cipher(KeyExpansion(key), block) = AES(key, block)
<1> SUFFICES ASSUME NEW key \in Block, NEW block \in Block
             PROVE  Cipher(KeyExpansion(key), block) = AES(key, block)
  OBVIOUS
<1>1. AesKeys(key) \in [1 .. 44 -> Word] /\ KeyExpansion(key) = AesKeys(key)
  BY SchedulesAgree DEF IsSchedule
<1>2. PICK f : IsEncryption(f, AesKeys(key), block)
  BY <1>1, EncryptionExists
<1> QED
  BY <1>1, <1>2, AesEnds, CipherEnds

(* aes.c of mbedTLS computes AES.                                          *)
THEOREM MbedAesComputesAes ==
  \A key, block \in Block :
    mbedtls_internal_aes_encrypt(mbedtls_aes_setkey_enc(key), block) = AES(key, block)
<1> SUFFICES ASSUME NEW key \in Block, NEW block \in Block
             PROVE  mbedtls_internal_aes_encrypt(mbedtls_aes_setkey_enc(key), block)
                      = AES(key, block)
  OBVIOUS
<1>1. AesKeys(key) \in [1 .. 44 -> Word] /\ mbedtls_aes_setkey_enc(key) = AesKeys(key)
  BY SchedulesAgree DEF IsSchedule
<1>2. PICK f : IsEncryption(f, AesKeys(key), block)
  BY <1>1, EncryptionExists
<1> QED
  BY <1>1, <1>2, AesEnds, MbedEnds

-----------------------------------------------------------------------------
(* Decryption.                                                             *)

Factors == {9, 11, 13, 14}

LEMMA MultiplyFour ==
  ASSUME NEW e \in Factors, NEW a \in Byte, NEW b \in Byte, NEW c \in Byte, NEW d \in Byte
  PROVE  Multiply(a (+) b (+) c (+) d, e)
           = Multiply(a, e) (+) Multiply(b, e) (+) Multiply(c, e) (+) Multiply(d, e)
<1>1. a (+) b \in Byte /\ a (+) b (+) c \in Byte
  BY XorType
<1>2. \A x, y \in Byte : Multiply(x (+) y, e) = Multiply(x, e) (+) Multiply(y, e)
  BY MultiplyFacts DEF Factors
<1>3. Multiply((a (+) b (+) c) (+) d, e) = Multiply(a (+) b (+) c, e) (+) Multiply(d, e)
  BY <1>1, <1>2
<1>4. Multiply((a (+) b) (+) c, e) = Multiply(a (+) b, e) (+) Multiply(c, e)
  BY <1>1, <1>2
<1>5. Multiply(a (+) b, e) = Multiply(a, e) (+) Multiply(b, e)
  BY <1>2
<1> QED
  BY <1>3, <1>4, <1>5

(* Sixteen bytes summed by rows and by columns. *)
RowsAreColumns(a1, a2, a3, a4, b1, b2, b3, b4, c1, c2, c3, c4, d1, d2, d3, d4) ==
  (a1 (+) a2 (+) a3 (+) a4) (+) (b1 (+) b2 (+) b3 (+) b4)
    (+) (c1 (+) c2 (+) c3 (+) c4) (+) (d1 (+) d2 (+) d3 (+) d4)
  = (a1 (+) b1 (+) c1 (+) d1) (+) (a2 (+) b2 (+) c2 (+) d2)
      (+) (a3 (+) b3 (+) c3 (+) d3) (+) (a4 (+) b4 (+) c4 (+) d4)

LEMMA Transposed ==
  ASSUME NEW a1 \in Byte, NEW a2 \in Byte, NEW a3 \in Byte, NEW a4 \in Byte,
         NEW b1 \in Byte, NEW b2 \in Byte, NEW b3 \in Byte, NEW b4 \in Byte,
         NEW c1 \in Byte, NEW c2 \in Byte, NEW c3 \in Byte, NEW c4 \in Byte,
         NEW d1 \in Byte, NEW d2 \in Byte, NEW d3 \in Byte, NEW d4 \in Byte
  PROVE  RowsAreColumns(a1, a2, a3, a4, b1, b2, b3, b4, c1, c2, c3, c4, d1, d2, d3, d4)
<1> DEFINE p1 == a1 (+) b1
           p2 == a2 (+) b2
           p3 == a3 (+) b3
           p4 == a4 (+) b4
           q1 == p1 (+) c1
           q2 == p2 (+) c2
           q3 == p3 (+) c3
           q4 == p4 (+) c4
<1>1. p1 \in Byte /\ p2 \in Byte /\ p3 \in Byte /\ p4 \in Byte
  BY XorType
<1>2. q1 \in Byte /\ q2 \in Byte /\ q3 \in Byte /\ q4 \in Byte
  BY <1>1, XorType
<1>3. FourSums(a1, a2, a3, a4, b1, b2, b3, b4)
  BY XorFours
<1>4. FourSums(p1, p2, p3, p4, c1, c2, c3, c4)
  BY <1>1, XorFours
<1>5. FourSums(q1, q2, q3, q4, d1, d2, d3, d4)
  BY <1>2, XorFours
<1> QED
  BY <1>3, <1>4, <1>5 DEF FourSums, RowsAreColumns

(* A row of InvMixColumn on a mixed column, byte by byte of the column.    *)
LEMMA InvRowOfMixed ==
  ASSUME NEW v \in Word,
         NEW e1 \in Factors, NEW e2 \in Factors, NEW e3 \in Factors, NEW e4 \in Factors
  PROVE  InvRow(Mixed(v), <<e1, e2, e3, e4>>)
           = Unmixed(<<e1, e2, e3, e4>>, v[1])[1] (+) Unmixed(<<e1, e2, e3, e4>>, v[2])[2]
             (+) Unmixed(<<e1, e2, e3, e4>>, v[3])[3] (+) Unmixed(<<e1, e2, e3, e4>>, v[4])[4]
<1> DEFINE v1 == v[1]
           v2 == v[2]
           v3 == v[3]
           v4 == v[4]
           x1 == xtime(v[1])
           x2 == xtime(v[2])
           x3 == xtime(v[3])
           x4 == xtime(v[4])
           y1 == x1 (+) v1
           y2 == x2 (+) v2
           y3 == x3 (+) v3
           y4 == x4 (+) v4
           e == <<e1, e2, e3, e4>>
           M(x, f) == Multiply(x, f)
<1>1. /\ v1 \in Byte /\ v2 \in Byte /\ v3 \in Byte /\ v4 \in Byte
      /\ x1 \in Byte /\ x2 \in Byte /\ x3 \in Byte /\ x4 \in Byte
  BY WordBytes, MixedIs
<1>2. Mixed(v) = <<x1 (+) y2 (+) v3 (+) v4, v1 (+) x2 (+) y3 (+) v4,
                   v1 (+) v2 (+) x3 (+) y4, y1 (+) v2 (+) v3 (+) x4>>
  BY DEF Mixed
<1>3. /\ Unmixed(e, v1)[1] = M(x1, e1) (+) M(v1, e2) (+) M(v1, e3) (+) M(y1, e4)
      /\ Unmixed(e, v2)[2] = M(y2, e1) (+) M(x2, e2) (+) M(v2, e3) (+) M(v2, e4)
      /\ Unmixed(e, v3)[3] = M(v3, e1) (+) M(y3, e2) (+) M(x3, e3) (+) M(v3, e4)
      /\ Unmixed(e, v4)[4] = M(v4, e1) (+) M(v4, e2) (+) M(y4, e3) (+) M(x4, e4)
  BY DEF Unmixed, InvRow
<1>4. InvRow(Mixed(v), e)
        = M(x1 (+) y2 (+) v3 (+) v4, e1) (+) M(v1 (+) x2 (+) y3 (+) v4, e2)
          (+) M(v1 (+) v2 (+) x3 (+) y4, e3) (+) M(y1 (+) v2 (+) v3 (+) x4, e4)
  BY <1>2 DEF InvRow
<1> HIDE DEF x1, x2, x3, x4
<1>5. y1 \in Byte /\ y2 \in Byte /\ y3 \in Byte /\ y4 \in Byte
  BY <1>1, XorType
<1> HIDE DEF v1, v2, v3, v4, y1, y2, y3, y4
<1>6. /\ M(x1 (+) y2 (+) v3 (+) v4, e1) = M(x1, e1) (+) M(y2, e1) (+) M(v3, e1) (+) M(v4, e1)
      /\ M(v1 (+) x2 (+) y3 (+) v4, e2) = M(v1, e2) (+) M(x2, e2) (+) M(y3, e2) (+) M(v4, e2)
      /\ M(v1 (+) v2 (+) x3 (+) y4, e3) = M(v1, e3) (+) M(v2, e3) (+) M(x3, e3) (+) M(y4, e3)
      /\ M(y1 (+) v2 (+) v3 (+) x4, e4) = M(y1, e4) (+) M(v2, e4) (+) M(v3, e4) (+) M(x4, e4)
  BY <1>1, <1>5, MultiplyFour
<1>7. \A f \in Factors : \A x \in Byte : M(x, f) \in Byte
  BY MultiplyFacts DEF Factors
<1>8. /\ M(x1, e1) \in Byte /\ M(y2, e1) \in Byte /\ M(v3, e1) \in Byte /\ M(v4, e1) \in Byte
      /\ M(v1, e2) \in Byte /\ M(x2, e2) \in Byte /\ M(y3, e2) \in Byte /\ M(v4, e2) \in Byte
      /\ M(v1, e3) \in Byte /\ M(v2, e3) \in Byte /\ M(x3, e3) \in Byte /\ M(y4, e3) \in Byte
      /\ M(y1, e4) \in Byte /\ M(v2, e4) \in Byte /\ M(v3, e4) \in Byte /\ M(x4, e4) \in Byte
  BY <1>1, <1>5, <1>7
<1> HIDE DEF M
<1>9. RowsAreColumns(M(x1, e1), M(y2, e1), M(v3, e1), M(v4, e1),
                     M(v1, e2), M(x2, e2), M(y3, e2), M(v4, e2),
                     M(v1, e3), M(v2, e3), M(x3, e3), M(y4, e3),
                     M(y1, e4), M(v2, e4), M(v3, e4), M(x4, e4))
  BY <1>8, Transposed
<1>10. InvRow(Mixed(v), e)
         = Unmixed(e, v1)[1] (+) Unmixed(e, v2)[2] (+) Unmixed(e, v3)[3] (+) Unmixed(e, v4)[4]
  BY <1>3, <1>4, <1>6, <1>9 DEF RowsAreColumns
<1> QED
  BY <1>10 DEF v1, v2, v3, v4

LEMMA InvMixColumnUndoes == ASSUME NEW v \in Word PROVE InvMixColumn(Mixed(v)) = v
<1> DEFINE m == Mixed(v)
<1>1. InvMixColumn(m) = <<InvRow(m, <<14, 11, 13, 9>>), InvRow(m, <<9, 14, 11, 13>>),
                          InvRow(m, <<13, 9, 14, 11>>), InvRow(m, <<11, 13, 9, 14>>)>>
  BY DEF InvMixColumn, InvRow
<1> HIDE DEF m
<1>2. v[1] \in Byte /\ v[2] \in Byte /\ v[3] \in Byte /\ v[4] \in Byte
  BY WordBytes
<1>3. 9 \in Factors /\ 11 \in Factors /\ 13 \in Factors /\ 14 \in Factors
  BY DEF Factors
<1>4. \A a \in Byte : /\ a (+) 0 = a /\ 0 (+) a = a /\ 0 \in Byte
  BY XorZero
<1>5. InvRow(m, <<14, 11, 13, 9>>) = v[1]
  <2> DEFINE e == <<14, 11, 13, 9>>
  <2>1. InvRow(m, e)
          = Unmixed(e, v[1])[1] (+) Unmixed(e, v[2])[2] (+) Unmixed(e, v[3])[3] (+) Unmixed(e, v[4])[4]
    BY <1>3, InvRowOfMixed DEF m
  <2>2. \A a \in Byte : Unmixed(e, a) = <<a, 0, 0, 0>>
    BY InverseFacts
  <2> HIDE DEF e
  <2> QED
    BY <1>2, <1>4, <2>1, <2>2 DEF e
<1>6. InvRow(m, <<9, 14, 11, 13>>) = v[2]
  <2> DEFINE e == <<9, 14, 11, 13>>
  <2>1. InvRow(m, e)
          = Unmixed(e, v[1])[1] (+) Unmixed(e, v[2])[2] (+) Unmixed(e, v[3])[3] (+) Unmixed(e, v[4])[4]
    BY <1>3, InvRowOfMixed DEF m
  <2>2. \A a \in Byte : Unmixed(e, a) = <<0, a, 0, 0>>
    BY InverseFacts
  <2> HIDE DEF e
  <2> QED
    BY <1>2, <1>4, <2>1, <2>2 DEF e
<1>7. InvRow(m, <<13, 9, 14, 11>>) = v[3]
  <2> DEFINE e == <<13, 9, 14, 11>>
  <2>1. InvRow(m, e)
          = Unmixed(e, v[1])[1] (+) Unmixed(e, v[2])[2] (+) Unmixed(e, v[3])[3] (+) Unmixed(e, v[4])[4]
    BY <1>3, InvRowOfMixed DEF m
  <2>2. \A a \in Byte : Unmixed(e, a) = <<0, 0, a, 0>>
    BY InverseFacts
  <2> HIDE DEF e
  <2> QED
    BY <1>2, <1>4, <2>1, <2>2 DEF e
<1>8. InvRow(m, <<11, 13, 9, 14>>) = v[4]
  <2> DEFINE e == <<11, 13, 9, 14>>
  <2>1. InvRow(m, e)
          = Unmixed(e, v[1])[1] (+) Unmixed(e, v[2])[2] (+) Unmixed(e, v[3])[3] (+) Unmixed(e, v[4])[4]
    BY <1>3, InvRowOfMixed DEF m
  <2>2. \A a \in Byte : Unmixed(e, a) = <<0, 0, 0, a>>
    BY InverseFacts
  <2> HIDE DEF e
  <2> QED
    BY <1>2, <1>4, <2>1, <2>2 DEF e
<1> QED
  BY <1>1, <1>5, <1>6, <1>7, <1>8, WordBytes DEF m

LEMMA InvMixColumnsUndoes == ASSUME NEW t \in Block PROVE InvMixColumns(AesMixColumns(t)) = t
<1>1. AesMixColumns(t) = <<Mixed(t[1]), Mixed(t[2]), Mixed(t[3]), Mixed(t[4])>>
  BY AesMixColumnsIs
<1>2. InvMixColumns(AesMixColumns(t))
        = <<InvMixColumn(Mixed(t[1])), InvMixColumn(Mixed(t[2])),
            InvMixColumn(Mixed(t[3])), InvMixColumn(Mixed(t[4]))>>
  BY <1>1 DEF InvMixColumns, Four
<1> QED
  BY <1>2, BlockWords, InvMixColumnUndoes

LEMMA InvSubBytesUndoes == ASSUME NEW s \in Block PROVE InvSubBytes(AesSubBytes(s)) = s
<1> DEFINE t == AesSubBytes(s)
           Back(v) == <<getSBoxInvert(v[1]), getSBoxInvert(v[2]),
                        getSBoxInvert(v[3]), getSBoxInvert(v[4])>>
<1>1. InvSubBytes(t) = <<Back(t[1]), Back(t[2]), Back(t[3]), Back(t[4])>>
  BY DEF InvSubBytes, Four
<1>2. t = <<SubWord(s[1]), SubWord(s[2]), SubWord(s[3]), SubWord(s[4])>>
  BY AesSubBytesIs
<1> HIDE DEF t
<1>3. ASSUME NEW w \in Word PROVE Back(SubWord(w)) = w
  <2>1. SubWord(w) = <<At(SBox, w[1]), At(SBox, w[2]), At(SBox, w[3]), At(SBox, w[4])>>
    BY <1>3, SubWordIs
  <2>2. /\ getSBoxInvert(At(SBox, w[1])) = w[1] /\ getSBoxInvert(At(SBox, w[2])) = w[2]
        /\ getSBoxInvert(At(SBox, w[3])) = w[3] /\ getSBoxInvert(At(SBox, w[4])) = w[4]
    BY <1>3, WordBytes, TableFacts
  <2> QED
    BY <1>3, <2>1, <2>2, WordBytes
<1> HIDE DEF Back
<1>4. s[1] \in Word /\ s[2] \in Word /\ s[3] \in Word /\ s[4] \in Word
      /\ s = <<s[1], s[2], s[3], s[4]>>
  BY BlockWords
<1>5. /\ Back(t[1]) = s[1] /\ Back(t[2]) = s[2] /\ Back(t[3]) = s[3] /\ Back(t[4]) = s[4]
  BY <1>2, <1>3, <1>4
<1> QED
  BY <1>1, <1>4, <1>5 DEF t

LEMMA InvShiftRowsUndoes == ASSUME NEW t \in Block PROVE InvShiftRows(AesShiftRows(t)) = t
<1>1. AesShiftRows(t) = ShiftRows(t)
  BY ShiftRowsIs
<1>2. InvShiftRows(ShiftRows(t))
        = << <<t[1][1], t[1][2], t[1][3], t[1][4]>>, <<t[2][1], t[2][2], t[2][3], t[2][4]>>,
             <<t[3][1], t[3][2], t[3][3], t[3][4]>>, <<t[4][1], t[4][2], t[4][3], t[4][4]>> >>
  BY DEF InvShiftRows, ShiftRows
<1>3. /\ t[1] \in Word /\ t[2] \in Word /\ t[3] \in Word /\ t[4] \in Word
      /\ t = <<t[1], t[2], t[3], t[4]>>
  BY BlockWords
<1>4. \A v \in Word : v = <<v[1], v[2], v[3], v[4]>>
  BY WordBytes
<1>5. /\ t[1] = <<t[1][1], t[1][2], t[1][3], t[1][4]>>
      /\ t[2] = <<t[2][1], t[2][2], t[2][3], t[2][4]>>
      /\ t[3] = <<t[3][1], t[3][2], t[3][3], t[3][4]>>
      /\ t[4] = <<t[4][1], t[4][2], t[4][3], t[4][4]>>
  BY <1>3, <1>4, Zenon
<1>6. InvShiftRows(ShiftRows(t)) = <<t[1], t[2], t[3], t[4]>>
  BY <1>2, <1>5
<1> QED
  BY <1>1, <1>3, <1>6

(* The state of the decryption above each round key that is taken off.     *)
Undone(f, block) ==
  [round \in 0 .. 10 |->
     IF round = 0 THEN block ELSE AesShiftRows(AesSubBytes(f[round - 1]))]

LEMMA UndoneStep ==
  ASSUME NEW w \in [1 .. 44 -> Word], NEW block \in Block, NEW f, IsEncryption(f, w, block),
         NEW round \in 0 .. 9
  PROVE  InvCipherTurn(w, round)[Undone(f, block)[round + 1]] = Undone(f, block)[round]
<1> DEFINE s == AesShiftRows(AesSubBytes(f[round]))
           k == RoundKeyOf(w, round)
<1>1. f[round] \in Block /\ (round + 1) - 1 = round /\ round + 1 # 0 /\ round \in 0 .. 10
      /\ round + 1 \in 0 .. 10
  BY DEF IsEncryption
<1>2. Undone(f, block)[round + 1] = s
  BY <1>1 DEF Undone
<1>3. AesSubBytes(f[round]) \in Block
  BY <1>1, AesSubBytesIs
<1>4. s \in Block
  BY <1>3, ShiftRowsIs
<1>5. InvSubBytes(InvShiftRows(s)) = f[round]
  BY <1>1, <1>3, InvShiftRowsUndoes, InvSubBytesUndoes
<1> HIDE DEF s
<1>6. AddRoundKey(f[round], w, round) = XorBlock(f[round], k) /\ k \in Block
  BY <1>1, RoundKeyIs
<1>7. InvCipherTurn(w, round)[s]
        = IF round = 0 THEN XorBlock(f[round], k) ELSE InvMixColumns(XorBlock(f[round], k))
  BY <1>4, <1>5, <1>6 DEF InvCipherTurn
<1>8. CASE round = 0
  <2>1. f[round] = XorBlock(block, k)
    BY <1>8 DEF IsEncryption
  <2>2. XorBlock(XorBlock(block, k), k) = block
    BY <1>6, XorBlockIs
  <2>3. Undone(f, block)[round] = block
    BY <1>8 DEF Undone
  <2> HIDE DEF k
  <2> QED
    BY <1>2, <1>7, <1>8, <2>1, <2>2, <2>3
<1>9. CASE round # 0
  <2> DEFINE t == AesShiftRows(AesSubBytes(f[round - 1]))
  <2>1. round \in 1 .. 9 /\ f[round - 1] \in Block /\ round - 1 \in 0 .. 10
    BY <1>9 DEF IsEncryption
  <2>2. t \in Block
    BY <2>1, AesSubBytesIs, ShiftRowsIs
  <2>3. f[round] = XorBlock(AesMixColumns(t), k)
    <3>1. round \in 1 .. 10 /\ round # 10
      BY <2>1
    <3>2. f[round] = AesRound(w, round)[f[round - 1]]
      BY <3>1 DEF IsEncryption
    <3> QED
      BY <2>1, <3>1, <3>2, RoundIs
  <2>4. Undone(f, block)[round] = t
    BY <1>1, <1>9 DEF Undone
  <2> HIDE DEF t, k
  <2>5. AesMixColumns(t) \in Block /\ InvMixColumns(AesMixColumns(t)) = t
    BY <2>2, AesMixColumnsIs, InvMixColumnsUndoes
  <2>6. XorBlock(f[round], k) = AesMixColumns(t)
    BY <1>6, <2>3, <2>5, XorBlockIs
  <2> QED
    BY <1>2, <1>7, <1>9, <2>4, <2>5, <2>6
<1> QED
  BY <1>8, <1>9

LEMMA InvCipherEnds ==
  ASSUME NEW w \in [1 .. 44 -> Word], NEW block \in Block, NEW f, IsEncryption(f, w, block)
  PROVE  InvCipher(w, f[10]) = block
<1> DEFINE d == Undone(f, block)
           ct == f[10]
           Unfolds(g) ==
             g = [round \in 0 .. Nr |->
                    IF round = Nr THEN AddRoundKey(ct, w, Nr)
                    ELSE InvCipherTurn(w, round)[g[round + 1]]]
<1>1. \A g : Unfolds(g) <=>
        g = [round \in 0 .. 10 |-> IF round = 10 THEN AddRoundKey(ct, w, 10)
                                   ELSE InvCipherTurn(w, round)[g[round + 1]]]
  BY DEF Nr
<1>2. AddRoundKey(ct, w, 10) = d[10]
  <2> DEFINE t == AesShiftRows(AesSubBytes(f[9]))
             k == RoundKeyOf(w, 10)
  <2>1. 10 \in 0 .. 10 /\ 10 \in 1 .. 10 /\ 10 - 1 = 9 /\ f[9] \in Block
    BY DEF IsEncryption
  <2>2. AddRoundKey(ct, w, 10) = XorBlock(ct, k) /\ k \in Block
    BY <2>1, RoundKeyIs
  <2>3. ct = AesRound(w, 10)[f[9]]
    BY <2>1 DEF IsEncryption
  <2>4. ct = XorBlock(t, k)
    BY <2>1, <2>3, RoundIs
  <2>5. t \in Block
    BY <2>1, AesSubBytesIs, ShiftRowsIs
  <2>6. d[10] = t
    BY <2>1 DEF Undone
  <2> HIDE DEF t, k, d, ct
  <2> QED
    BY <2>2, <2>4, <2>5, <2>6, XorBlockIs
<1>3. \A round \in 0 .. 9 : InvCipherTurn(w, round)[d[round + 1]] = d[round]
  BY UndoneStep
<1>4. d = [round \in 0 .. 10 |-> d[round]] /\ d[0] = block
  BY DEF Undone
<1> HIDE DEF d, ct, Unfolds
<1>5. Unfolds(d)
  <2>1. \A round \in 0 .. 10 : d[round] = IF round = 10 THEN AddRoundKey(ct, w, 10)
                                          ELSE InvCipherTurn(w, round)[d[round + 1]]
    BY <1>2, <1>3
  <2>2. d = [round \in 0 .. 10 |-> IF round = 10 THEN AddRoundKey(ct, w, 10)
                                   ELSE InvCipherTurn(w, round)[d[round + 1]]]
    BY <1>4, <2>1
  <2> QED
    BY <1>1, <2>2
<1>6. ASSUME NEW g, Unfolds(g) PROVE g[0] = block
  <2> DEFINE Done == {m \in Nat : m <= 10 => g[10 - m] = d[10 - m]}
  <2>1. /\ g[10] = AddRoundKey(ct, w, 10)
        /\ \A round \in 0 .. 9 : g[round] = InvCipherTurn(w, round)[g[round + 1]]
    BY <1>1, <1>6
  <2>2. 0 \in Done
    BY <1>2, <2>1
  <2>3. ASSUME NEW m \in Nat, m \in Done PROVE m + 1 \in Done
    <3> SUFFICES ASSUME m + 1 <= 10 PROVE g[10 - (m + 1)] = d[10 - (m + 1)]
      OBVIOUS
    <3> DEFINE round == 10 - (m + 1)
    <3>1. round \in 0 .. 9 /\ round + 1 = 10 - m
      OBVIOUS
    <3>2. g[round + 1] = d[round + 1]
      BY <2>3, <3>1
    <3> HIDE DEF round
    <3>3. g[round] = d[round]
      BY <1>3, <2>1, <3>1, <3>2
    <3> QED
      BY <3>3 DEF round
  <2>4. Nat \subseteq Done
    <3> HIDE DEF Done
    <3> QED
      BY <2>2, <2>3, NatSetInduction
  <2>5. g[10 - 10] = d[10 - 10]
    BY <2>4
  <2> QED
    BY <1>4, <2>5
<1>7. Unfolds(CHOOSE g : Unfolds(g))
  BY <1>5
<1>8. InvCipher(w, ct) = (CHOOSE g : Unfolds(g))[0]
  BY Zenon DEF InvCipher, Unfolds
<1> QED
  BY <1>6, <1>7, <1>8 DEF ct

(* The decryption of tinyaes128.c takes an AES block back to its plaintext.*)
THEOREM TinyAesDecrypts ==
  \A key, block \in Block : AES128_ECB_decrypt(AES(key, block), key) = block
<1> SUFFICES ASSUME NEW key \in Block, NEW block \in Block
             PROVE  AES128_ECB_decrypt(AES(key, block), key) = block
  OBVIOUS
<1>1. AesKeys(key) \in [1 .. 44 -> Word] /\ KeyExpansion(key) = AesKeys(key)
  BY SchedulesAgree DEF IsSchedule
<1>2. PICK f : IsEncryption(f, AesKeys(key), block)
  BY <1>1, EncryptionExists
<1>3. AES(key, block) = f[10] /\ InvCipher(AesKeys(key), f[10]) = block
  BY <1>1, <1>2, AesEnds, InvCipherEnds
<1> QED
  BY <1>1, <1>3 DEF AES128_ECB_decrypt

(* So for every set of keys and blocks, the engines of Commands are AES.   *)
LEMMA AllAreAes == AreAes(Keys)
<1>1. Keys \subseteq Block /\ Blocks \subseteq Block
  BY EnginesAssumption
<1>2. ASSUME NEW k \in Keys
      PROVE  /\ KeyIn(TinyKeys(k)) = k /\ KeyIn(MbedKeys(k)) = k
             /\ TinyKeys(k) # ZeroSchedule /\ MbedKeys(k) # NoKey
             /\ \A b \in Blocks : /\ TinyCipher(TinyKeys(k), b) = Fips(k, b)
                                  /\ MbedCipher(MbedKeys(k), b) = Fips(k, b)
                                  /\ TinyDecrypt(k, Fips(k, b)) = b
  <2> DEFINE w == AesKeys(k)
  <2>1. k \in Block
    BY <1>1, <1>2
  <2>2. TinyKeys(k) = KeyExpansion(k) /\ MbedKeys(k) = mbedtls_aes_setkey_enc(k)
    BY <1>2, EnginesAssumption
  <2>3. IsSchedule(w, 44, k) /\ KeyExpansion(k) = w /\ mbedtls_aes_setkey_enc(k) = w
    BY <2>1, SchedulesAgree
  <2>4. w \in [1 .. 44 -> Word]
    BY <2>3 DEF IsSchedule
  <2> HIDE DEF w
  <2>5. KeyIn(w) = k
    BY <2>1, <2>3, BeginsWithKey
  <2>6. w # ZeroSchedule
    BY <2>1, <2>3, NotAllZero, EnginesAssumption
  <2>7. w # NoKey
    BY <2>4, EnginesAssumption
  <2>8. ASSUME NEW b \in Blocks
        PROVE  /\ TinyCipher(TinyKeys(k), b) = Fips(k, b)
               /\ MbedCipher(MbedKeys(k), b) = Fips(k, b)
               /\ TinyDecrypt(k, Fips(k, b)) = b
    <3>1. b \in Block
      BY <1>1, <2>8
    <3>2. /\ TinyCipher(TinyKeys(k), b) = Cipher(TinyKeys(k), b)
          /\ MbedCipher(MbedKeys(k), b) = mbedtls_internal_aes_encrypt(MbedKeys(k), b)
          /\ Fips(k, b) = AES(k, b)
          /\ TinyDecrypt(k, Fips(k, b)) = AES128_ECB_decrypt(Fips(k, b), k)
      BY <1>2, <2>8, EnginesAssumption
    <3>3. /\ Cipher(KeyExpansion(k), b) = AES(k, b)
          /\ mbedtls_internal_aes_encrypt(mbedtls_aes_setkey_enc(k), b) = AES(k, b)
          /\ AES128_ECB_decrypt(AES(k, b), k) = b
      BY <2>1, <3>1, TinyAesComputesAes, MbedAesComputesAes, TinyAesDecrypts
    <3> QED
      BY <2>2, <3>2, <3>3
  <2> QED
    BY <2>2, <2>3, <2>5, <2>6, <2>7, <2>8
<1> QED
  BY <1>2 DEF AreAes

-----------------------------------------------------------------------------
(* The handlers.                                                           *)

USE DEF MODULE_INVALID, MODULE_MBED, MODULE_CUSTOM, MODULE_XOR, MODULE_HWAES,
        MODULE_SWAESHSM, MODULE_SWAES

LEMMA InitInv == Init => CmdInv
<1> SUFFICES ASSUME Init PROVE CmdInv
  OBVIOUS
<1>1. EngineTypes
  BY DEF Init, EngineTypes, Modules
<1>2. PassTypes
  BY DEF Init, PassTypes, Groups
<1>3. HandlerTypes
  BY DEF Init, HandlerTypes
<1>4. pc = "idle" /\ cmd.name = "none" /\ trigger = FALSE /\ mbed = NoKey
  BY DEF Init
<1>5. TriggerInv /\ GroupInv /\ TablesInv
  <2>1. (pc \in {"work", "low", "stopped"}) = FALSE
    BY <1>4
  <2> QED
    BY <1>4, <2>1 DEF TriggerInv, GroupInv, TablesInv
<1>6. BufferInv
  BY <1>4 DEF BufferInv
<1> QED
  BY <1>1, <1>2, <1>3, <1>5, <1>6 DEF CmdInv, TypeOK

-----------------------------------------------------------------------------
(* Every step keeps the types. *)

LEMMA EngineTypesKept ==
  ASSUME EngineTypes, [Next]_vars
  PROVE  EngineTypes'
<1> USE DEF EngineTypes
<1>1. ASSUME NEW mod \in Modules, set_module(mod) PROVE EngineTypes'
  BY <1>1 DEF set_module
<1>2. ASSUME NEW k \in Keys, get_key(k) PROVE EngineTypes'
  <2>1. /\ enc_module' \in Modules /\ ram' \in [key : BOOLEAN, enc : BOOLEAN]
        /\ xor_key' \in {ZeroKey} \cup Keys /\ custom_key' \in {NoKey} \cup Keys
    BY <1>2 DEF get_key
  <2>2. /\ RoundKey' \in {ZeroSchedule} \cup {TinyKeys(c) : c \in Keys}
        /\ mbed' \in {NoKey} \cup {MbedKeys(c) : c \in Keys}
    BY <1>2 DEF get_key
  <2>3. aes_init_done' \in BOOLEAN
    BY <1>2 DEF get_key
  <2> QED
    BY <2>1, <2>2, <2>3
<1>3. ASSUME NEW key \in BOOLEAN, NEW enc \in BOOLEAN, Upload(key, enc) PROVE EngineTypes'
  <2>1. ram' \in [key : BOOLEAN, enc : BOOLEAN]
    BY <1>3 DEF Upload
  <2> QED
    BY <1>3, <2>1 DEF Upload
<1>4. CASE UNCHANGED engines
  BY <1>4 DEF engines
<1>5. ASSUME NEW b \in Blocks, get_pt(b) PROVE UNCHANGED engines
  BY <1>5 DEF get_pt
<1>6. ASSUME NEW group \in 0 .. 4, set_pwgroup(group) PROVE UNCHANGED engines
  BY <1>6 DEF set_pwgroup
<1>7. ASSUME NEW pw \in Passwords, set_pw(pw) PROVE UNCHANGED engines
  BY <1>7 DEF set_pw
<1> QED
  BY <1>1, <1>2, <1>3, <1>4, <1>5, <1>6, <1>7
     DEF Next, vars, TriggerHigh, Encrypt, Crash, Stopped, TriggerLow, simpleserial_put,
         set_pwlock, Challenge, ReturnGroup

LEMMA PassTypesKept ==
  ASSUME PassTypes, HandlerTypes, [Next]_vars
  PROVE  PassTypes'
<1> USE DEF PassTypes, Groups
<1>1. ASSUME NEW group \in 0 .. 4, set_pwgroup(group) PROVE PassTypes'
  BY <1>1 DEF set_pwgroup
<1>2. CASE set_pwlock
  BY <1>2 DEF set_pwlock
<1>3. ASSUME NEW pw \in Passwords, set_pw(pw) PROVE PassTypes'
  BY <1>3 DEF set_pw
<1>4. CASE Challenge
  <2>1. cmd.arg \in Passwords
    BY <1>4 DEF Challenge, HandlerTypes
  <2> DEFINE locked == PASS.PGL[PASS.GRP] /\ cmd.arg # PasswordOf[PASS.GRP]
  <2>2. /\ PASS' = [PASS EXCEPT !.CIN = cmd.arg, !.PGL[PASS.GRP] = locked]
        /\ pwgroup' = pwgroup
    BY <1>4 DEF Challenge, Challenged
  <2>3. locked \in BOOLEAN
    OBVIOUS
  <2> HIDE DEF locked
  <2> QED
    BY <2>1, <2>2, <2>3
<1>5. CASE UNCHANGED <<pwgroup, PASS>>
  BY <1>5
<1>6. ASSUME NEW mod \in Modules, set_module(mod) PROVE UNCHANGED <<pwgroup, PASS>>
  BY <1>6 DEF set_module
<1>7. ASSUME NEW k \in Keys, get_key(k) PROVE UNCHANGED <<pwgroup, PASS>>
  BY <1>7 DEF get_key
<1>8. ASSUME NEW b \in Blocks, get_pt(b) PROVE UNCHANGED <<pwgroup, PASS>>
  BY <1>8 DEF get_pt
<1>9. ASSUME NEW key \in BOOLEAN, NEW enc \in BOOLEAN, Upload(key, enc)
      PROVE UNCHANGED <<pwgroup, PASS>>
  BY <1>9 DEF Upload
<1> QED
  BY <1>1, <1>2, <1>3, <1>4, <1>5, <1>6, <1>7, <1>8, <1>9
     DEF Next, vars, TriggerHigh, Encrypt, Crash, Stopped, TriggerLow, simpleserial_put,
         ReturnGroup

LEMMA HandlerTypesKept ==
  ASSUME HandlerTypes, [Next]_vars
  PROVE  HandlerTypes'
<1> USE DEF HandlerTypes
<1>1. ASSUME NEW mod \in Modules, set_module(mod) PROVE HandlerTypes'
  BY <1>1 DEF set_module, Return
<1>2. ASSUME NEW k \in Keys, get_key(k) PROVE HandlerTypes'
  BY <1>2 DEF get_key, Return
<1>3. ASSUME NEW b \in Blocks, get_pt(b) PROVE HandlerTypes'
  BY <1>3 DEF get_pt
<1>4. ASSUME NEW pw \in Passwords, set_pw(pw) PROVE HandlerTypes'
  BY <1>4 DEF set_pw
<1>5. ASSUME NEW group \in 0 .. 4, set_pwgroup(group) PROVE HandlerTypes'
  BY <1>5 DEF set_pwgroup, Return
<1>6. ASSUME NEW key \in BOOLEAN, NEW enc \in BOOLEAN, Upload(key, enc) PROVE HandlerTypes'
  BY <1>6 DEF Upload, handler
<1>7. CASE TriggerHigh \/ Encrypt \/ Crash \/ TriggerLow
  BY <1>7 DEF TriggerHigh, Encrypt, Crash, TriggerLow
<1>8. CASE simpleserial_put \/ set_pwlock \/ Challenge \/ ReturnGroup
  BY <1>8 DEF simpleserial_put, set_pwlock, Challenge, ReturnGroup, Return
<1>9. CASE UNCHANGED vars
  BY <1>9 DEF vars, handler
<1> QED
  BY <1>1, <1>2, <1>3, <1>4, <1>5, <1>6, <1>7, <1>8, <1>9 DEF Next, Stopped

-----------------------------------------------------------------------------
(* The remaining parts of the invariant.  A handler that returns at once   *)
(* leaves the place idle, where they say nothing but that the pin is low.  *)

LEMMA AtOnce ==
  ASSUME [Next]_vars
  PROVE  \/ pc' = "idle" /\ pc = "idle" /\ trigger' = trigger
         \/ \E b \in Blocks : get_pt(b) /\ pc' # "idle"
         \/ \E pw \in Passwords : set_pw(pw)
         \/ TriggerHigh \/ Encrypt \/ Crash \/ TriggerLow \/ simpleserial_put
         \/ Challenge \/ ReturnGroup
         \/ UNCHANGED vars
<1>1. ASSUME NEW mod \in Modules, set_module(mod)
      PROVE  pc' = "idle" /\ pc = "idle" /\ trigger' = trigger
  BY <1>1 DEF set_module, Return, Called
<1>2. ASSUME NEW k \in Keys, get_key(k)
      PROVE  pc' = "idle" /\ pc = "idle" /\ trigger' = trigger
  BY <1>2 DEF get_key, Return, Called
<1>3. ASSUME NEW group \in 0 .. 4, set_pwgroup(group)
      PROVE  pc' = "idle" /\ pc = "idle" /\ trigger' = trigger
  BY <1>3 DEF set_pwgroup, Return, Called
<1>4. ASSUME set_pwlock PROVE pc' = "idle" /\ pc = "idle" /\ trigger' = trigger
  BY <1>4 DEF set_pwlock, Return, Called
<1>5. ASSUME NEW key \in BOOLEAN, NEW enc \in BOOLEAN, Upload(key, enc)
      PROVE  pc' = "idle" /\ pc = "idle" /\ trigger' = trigger
  BY <1>5 DEF Upload, handler, Called
<1>6. ASSUME NEW b \in Blocks, get_pt(b), pc' = "idle"
      PROVE  pc' = "idle" /\ pc = "idle" /\ trigger' = trigger
  BY <1>6 DEF get_pt, Called
<1> QED
  BY <1>1, <1>2, <1>3, <1>4, <1>5, <1>6 DEF Next, Stopped

LEMMA TriggerInvKept ==
  ASSUME HandlerTypes, TriggerInv, BufferInv, [Next]_vars
  PROVE  TriggerInv'
<1> DEFINE High(p) == p \in {"work", "low", "stopped"}
<1>1. CASE pc' = "idle" /\ pc = "idle" /\ trigger' = trigger
  BY <1>1 DEF TriggerInv
<1>2. ASSUME NEW b \in Blocks, get_pt(b)
      PROVE  trigger' = trigger /\ pc = "idle" /\ pc' \in {"idle", "high", "put"}
  BY <1>2 DEF get_pt, Called
<1>3. ASSUME NEW pw \in Passwords, set_pw(pw)
      PROVE  trigger' = trigger /\ pc = "idle" /\ pc' = "high"
  BY <1>3 DEF set_pw, Called
<1>4. CASE trigger' = trigger /\ pc # "glitch" /\ High(pc) = High(pc')
  BY <1>4 DEF TriggerInv
<1>5. CASE TriggerHigh
  BY <1>5 DEF TriggerHigh, TriggerInv
<1>6. CASE TriggerLow
  <2>1. trigger' = FALSE /\ pc' \in {"put", "return"}
    BY <1>6 DEF TriggerLow
  <2>2. High(pc') = FALSE
    BY <2>1
  <2> QED
    BY <2>1, <2>2 DEF TriggerInv
<1>7. ASSUME Encrypt \/ Crash \/ simpleserial_put \/ Challenge \/ ReturnGroup
      PROVE  trigger' = trigger /\ pc # "glitch" /\ High(pc) = High(pc')
  BY <1>7 DEF Encrypt, Crash, simpleserial_put, Challenge, ReturnGroup, Return
<1>8. CASE UNCHANGED vars
  BY <1>8 DEF vars, handler, TriggerInv
<1>9. ASSUME NEW b \in Blocks, get_pt(b) PROVE TriggerInv'
  <2>1. High(pc) = High(pc') /\ pc # "glitch"
    BY <1>2, <1>9
  <2> QED
    BY <1>2, <1>4, <1>9, <2>1
<1>10. ASSUME NEW pw \in Passwords, set_pw(pw) PROVE TriggerInv'
  <2>1. High(pc) = High(pc') /\ pc # "glitch"
    BY <1>3, <1>10
  <2> QED
    BY <1>3, <1>4, <1>10, <2>1
<1> QED
  BY <1>1, <1>4, <1>5, <1>6, <1>7, <1>8, <1>9, <1>10, AtOnce

LEMMA SameEngines ==
  ASSUME UNCHANGED engines, NEW b
  PROVE  Encrypted(b)' = Encrypted(b)
  BY DEF engines, Encrypted

LEMMA BufferInvKept ==
  ASSUME HandlerTypes, BufferInv, [Next]_vars
  PROVE  BufferInv'
<1>1. CASE pc' = "idle"
  BY <1>1 DEF BufferInv
<1>2. ASSUME NEW b \in Blocks, get_pt(b), pc' # "idle" PROVE BufferInv'
  <2>1. /\ cmd' = [name |-> "p", arg |-> b] /\ pt' = b /\ enc_module' = enc_module
        /\ pc' = IF enc_module \in Available THEN "high" ELSE "put"
    BY <1>2 DEF get_pt, engines
  <2>2. cmd'.name = "p" /\ cmd'.arg = b
    BY <2>1
  <2> QED
    BY <2>1, <2>2 DEF BufferInv, Available
<1>3. ASSUME NEW pw \in Passwords, set_pw(pw) PROVE BufferInv'
  <2>1. cmd'.name = "q" /\ pc' = "high"
    BY <1>3 DEF set_pw
  <2> QED
    BY <2>1 DEF BufferInv
<1>4. CASE TriggerHigh
  BY <1>4 DEF TriggerHigh, BufferInv, engines, Available
<1>5. CASE Encrypt
  <2>1. Encrypted(cmd.arg)' = Encrypted(cmd.arg)
    BY <1>5 DEF Encrypt, engines, Encrypted
  <2>2. /\ cmd.name = "p" /\ UNCHANGED cmd /\ pc = "work" /\ pc' = "low"
        /\ enc_module' = enc_module /\ pt' \in Encrypted(pt)
    BY <1>5 DEF Encrypt, engines
  <2>3. pt = cmd.arg /\ enc_module \in Available
    BY <2>2 DEF BufferInv
  <2> QED
    BY <2>1, <2>2, <2>3 DEF BufferInv, Available
<1>6. CASE Crash
  BY <1>6 DEF Crash, BufferInv
<1>7. CASE TriggerLow
  <2>1. Encrypted(cmd.arg)' = Encrypted(cmd.arg)
    BY <1>7 DEF TriggerLow, engines, Encrypted
  <2>2. /\ UNCHANGED <<cmd, pt, enc_module>> /\ pc = "low"
        /\ pc' = IF cmd.name = "p" THEN "put" ELSE "return"
    BY <1>7 DEF TriggerLow, engines
  <2>3. cmd.name \in {"p", "q"}
    BY <2>2 DEF BufferInv
  <2> QED
    BY <2>1, <2>2, <2>3 DEF BufferInv, Available
<1>8. CASE simpleserial_put \/ ReturnGroup
  BY <1>1, <1>8 DEF simpleserial_put, ReturnGroup, Return
<1>9. CASE Challenge
  <2>1. cmd'.name = "q" /\ pc' = "low"
    BY <1>9 DEF Challenge
  <2> QED
    BY <2>1 DEF BufferInv
<1>10. CASE UNCHANGED vars
  <2>1. Encrypted(cmd.arg)' = Encrypted(cmd.arg)
    BY <1>10 DEF vars, handler, engines, Encrypted
  <2>2. UNCHANGED <<cmd, pt, enc_module, pc>>
    BY <1>10 DEF vars, handler, engines
  <2> QED
    BY <2>1, <2>2 DEF BufferInv, Available
<1> QED
  BY <1>1, <1>2, <1>3, <1>4, <1>5, <1>6, <1>7, <1>8, <1>9, <1>10, AtOnce

LEMMA GroupInvKept ==
  ASSUME PassTypes, GroupInv, [Next]_vars
  PROVE  GroupInv'
<1>1. CASE pc' = "idle"
  BY <1>1 DEF GroupInv
<1>2. ASSUME NEW b \in Blocks, get_pt(b), pc' # "idle" PROVE GroupInv'
  <2>1. cmd'.name = "p"
    BY <1>2 DEF get_pt
  <2> QED
    BY <2>1 DEF GroupInv
<1>3. ASSUME NEW pw \in Passwords, set_pw(pw) PROVE GroupInv'
  BY <1>3 DEF set_pw, GroupInv, PassTypes
<1>4. CASE TriggerHigh
  BY <1>4 DEF TriggerHigh, GroupInv
<1>5. CASE Encrypt \/ Crash \/ TriggerLow \/ simpleserial_put \/ Challenge \/ ReturnGroup
  <2>1. pc' \notin {"high", "work"}
    BY <1>5 DEF Encrypt, Crash, TriggerLow, simpleserial_put, Challenge, ReturnGroup, Return
  <2> QED
    BY <2>1 DEF GroupInv
<1>6. CASE UNCHANGED vars
  BY <1>6 DEF vars, handler, GroupInv
<1> QED
  BY <1>1, <1>2, <1>3, <1>4, <1>5, <1>6, AtOnce

LEMMA TablesInvKept ==
  ASSUME EngineTypes, TablesInv, [Next]_vars
  PROVE  TablesInv'
<1>1. ASSUME NEW mod \in Modules, set_module(mod) PROVE TablesInv'
  BY <1>1 DEF set_module, TablesInv
<1>2. ASSUME NEW k \in Keys, get_key(k) PROVE TablesInv'
  BY <1>2 DEF get_key, TablesInv
<1>3. CASE UNCHANGED <<mbed, aes_init_done>>
  BY <1>3 DEF TablesInv
<1>4. ASSUME \/ \E b \in Blocks : get_pt(b)
             \/ \E key, enc \in BOOLEAN : Upload(key, enc)
             \/ \E group \in 0 .. 4 : set_pwgroup(group)
             \/ \E pw \in Passwords : set_pw(pw)
      PROVE  UNCHANGED <<mbed, aes_init_done>>
  BY <1>4 DEF get_pt, Upload, set_pwgroup, set_pw, engines
<1> QED
  BY <1>1, <1>2, <1>3, <1>4
     DEF Next, vars, engines, TriggerHigh, Encrypt, Crash, Stopped, TriggerLow,
         simpleserial_put, set_pwlock, Challenge, ReturnGroup

LEMMA StepInv == CmdInv /\ [Next]_vars => CmdInv'
  BY EngineTypesKept, PassTypesKept, HandlerTypesKept, TriggerInvKept, BufferInvKept,
     GroupInvKept, TablesInvKept DEF CmdInv, TypeOK

(* Each engine, the password module and the pin keep their invariant,      *)
(* whatever commands come in whatever order.                               *)
THEOREM CommandsInvariant == Spec => []CmdInv
<1>1. Init => CmdInv
  BY InitInv
<1>2. CmdInv /\ [Next]_vars => CmdInv'
  BY StepInv
<1> QED
  BY <1>1, <1>2, PTL DEF Spec

(* The trigger pin is low between two commands. *)
THEOREM TriggerIsLow == Spec => []TriggerLowWhenIdle
<1>1. CmdInv => TriggerLowWhenIdle
  BY DEF CmdInv, TypeOK, HandlerTypes, TriggerInv, TriggerLowWhenIdle
<1> QED
  BY <1>1, CommandsInvariant, PTL

Unlocked ==
  \A g \in Groups : PASS.PGL[g] /\ ~PASS'.PGL[g] =>
    cmd = [name |-> "q", arg |-> PasswordOf[g]] /\ pwgroup = g

LEMMA UnlockStep ==
  ASSUME CmdInv, [Next]_vars
  PROVE  Unlocked
<1> USE DEF Unlocked
<1>0. CmdInv /\ [Next]_vars
  OBVIOUS
<1> USE DEF CmdInv, TypeOK, PassTypes, HandlerTypes, Groups
<1>1. CASE PASS'.PGL = PASS.PGL
  BY <1>1
<1>2. CASE set_pwlock
  <2>1. PASS' = [PASS EXCEPT !.PGL[pwgroup] = TRUE]
    BY <1>2 DEF set_pwlock
  <2> QED
    BY <1>0, <2>1
<1>3. ASSUME NEW pw \in Passwords, set_pw(pw) PROVE PASS'.PGL = PASS.PGL
  BY <1>3 DEF set_pw
<1>4. CASE Challenge
  <2>1. PASS.GRP = pwgroup /\ cmd = [name |-> "q", arg |-> cmd.arg]
    <3>1. cmd.name = "q" /\ PASS.GRP = pwgroup
      BY <1>0, <1>4 DEF Challenge, GroupInv
    <3>2. cmd \in [name : {"q"}, arg : Passwords]
      BY <1>0, <3>1
    <3> QED
      BY <3>1, <3>2
  <2> DEFINE locked == PASS.PGL[PASS.GRP] /\ cmd.arg # PasswordOf[PASS.GRP]
  <2>2. PASS' = [PASS EXCEPT !.CIN = cmd.arg, !.PGL[PASS.GRP] = locked]
    BY <1>4 DEF Challenge, Challenged
  <2>3. locked \in BOOLEAN /\ (PASS.PGL[PASS.GRP] /\ ~locked => cmd.arg = PasswordOf[PASS.GRP])
    OBVIOUS
  <2> HIDE DEF locked
  <2>4. PASS'.PGL = [PASS.PGL EXCEPT ![PASS.GRP] = locked]
    BY <2>2
  <2>5. ASSUME NEW g \in Groups, PASS.PGL[g], ~PASS'.PGL[g]
        PROVE  g = PASS.GRP /\ cmd.arg = PasswordOf[g]
    <3>1. g = PASS.GRP
      <4>1. g # PASS.GRP => PASS'.PGL[g] = PASS.PGL[g]
        BY <2>4
      <4> QED
        BY <2>5, <4>1, Zenon
    <3>2. PASS.PGL \in [Groups -> BOOLEAN]
      BY <1>0
    <3>3. PASS'.PGL[g] = locked
      BY <2>4, <3>1, <3>2
    <3>4. ~locked /\ PASS.PGL[PASS.GRP]
      BY <2>5, <3>1, <3>3, Zenon
    <3> QED
      BY <2>3, <3>1, <3>4
  <2> QED
    BY <2>1, <2>5
<1>5. ASSUME \/ \E mod \in Modules : set_module(mod)
             \/ \E k \in Keys : get_key(k)
             \/ \E b \in Blocks : get_pt(b)
             \/ \E key, enc \in BOOLEAN : Upload(key, enc)
             \/ \E group \in 0 .. 4 : set_pwgroup(group)
      PROVE  PASS' = PASS
  BY <1>5 DEF set_module, get_key, get_pt, Upload, set_pwgroup
<1> QED
  BY <1>0, <1>1, <1>2, <1>3, <1>4, <1>5
     DEF Next, vars, TriggerHigh, Encrypt, Crash, Stopped, TriggerLow, simpleserial_put,
         ReturnGroup

(* Only q with a group's own password, while w had selected the group,     *)
(* unlocks it.                                                             *)
THEOREM UnlockedByPassword == Spec => UnlockedOnlyByPassword
<1>1. CmdInv /\ [Next]_vars => [Unlocked]_vars
  BY UnlockStep
<1> QED
  BY <1>1, CommandsInvariant, PTL DEF Spec, UnlockedOnlyByPassword, Unlocked

-----------------------------------------------------------------------------
(* The commands implement the CipherService; the lemmas need no more of    *)
(* the engines than AreAes(Keys).                                          *)

LEMMA ServiceInit == Init => Service!Init
<1> SUFFICES ASSUME Init PROVE Service!Init
  OBVIOUS
<1>1. enc_module \in Available
  BY DEF Init, Available
<1>2. EngineKeys \in [Available -> (Keys \cup {ZeroKey}) \cup {NoKey}]
  BY DEF Init, EngineKeys, Available
<1> QED
  BY <1>1, <1>2 DEF Service!Init

(* What is in the buffer when it is sent. *)
LEMMA SentAsPromised ==
  ASSUME AreAes(Keys), CmdInv, pc = "put"
  PROVE  Service!Promised(cmd.arg, pt)
<1>1. cmd.name = "p" /\ cmd.arg \in Blocks
  BY DEF CmdInv, TypeOK, HandlerTypes, BufferInv
<1>2. IF enc_module \in Available THEN pt \in Encrypted(cmd.arg) ELSE pt = cmd.arg
  BY <1>1 DEF CmdInv, BufferInv
<1>3. ASSUME enc_module \in Available, EngineKeys[enc_module] # NoKey
      PROVE  pt = EngineEnc(enc_module, EngineKeys[enc_module], cmd.arg)
  <2>1. pt \in Encrypted(cmd.arg)
    BY <1>2, <1>3
  <2>2. CASE enc_module = MODULE_SWAES
    <3>1. RoundKey # ZeroSchedule /\ EngineKeys[enc_module] = KeyIn(RoundKey)
      BY <1>3, <2>2 DEF EngineKeys, Available
    <3>2. PICK k \in Keys : RoundKey = TinyKeys(k)
      BY <3>1 DEF CmdInv, TypeOK, EngineTypes
    <3>3. KeyIn(RoundKey) = k /\ TinyCipher(RoundKey, cmd.arg) = Fips(k, cmd.arg)
      BY <1>1, <3>2 DEF AreAes
    <3> QED
      BY <2>1, <2>2, <3>1, <3>3 DEF Encrypted, EngineEnc
  <2>3. CASE enc_module = MODULE_XOR
    BY <2>1, <2>3 DEF Encrypted, EngineEnc, EngineKeys, Available
  <2>4. CASE enc_module = MODULE_MBED
    <3>1. mbed # NoKey /\ EngineKeys[enc_module] = KeyIn(mbed)
      BY <1>3, <2>4 DEF EngineKeys, Available
    <3>2. PICK k \in Keys : mbed = MbedKeys(k)
      BY <3>1 DEF CmdInv, TypeOK, EngineTypes
    <3>3. KeyIn(mbed) = k /\ MbedCipher(mbed, cmd.arg) = Fips(k, cmd.arg)
      BY <1>1, <3>2 DEF AreAes
    <3>4. aes_init_done
      BY <3>1 DEF CmdInv, TablesInv
    <3> QED
      BY <2>1, <2>4, <3>1, <3>3, <3>4 DEF Encrypted, EngineEnc
  <2>5. CASE enc_module = MODULE_CUSTOM
    <3>1. EngineKeys[enc_module] = custom_key
      BY <2>5 DEF EngineKeys, Available
    <3> QED
      BY <1>3, <2>1, <2>5, <3>1 DEF Encrypted, EngineEnc
  <2> QED
    BY <1>3, <2>2, <2>3, <2>4, <2>5 DEF Available
<1> QED
  BY <1>2, <1>3 DEF Service!Promised

LEMMA KeysAreFunctions ==
  /\ EngineKeys = [e \in Available |-> EngineKeys[e]]
  /\ EngineKeys' = [e \in Available |-> EngineKeys'[e]]
  BY DEF EngineKeys, Available

LEMMA KeySet ==
  ASSUME AreAes(Keys), CmdInv, NEW k \in Keys, get_key(k)
  PROVE  Service!Next \/ UNCHANGED Service!vars
<1>1. UNCHANGED <<enc_module, answer>>
  BY DEF get_key, Return
<1>2. CASE enc_module \in Available /\ (enc_module = MODULE_CUSTOM => ram.key)
  <2>1. /\ RoundKey' = IF enc_module = MODULE_SWAES THEN TinyKeys(k) ELSE RoundKey
        /\ xor_key' = IF enc_module = MODULE_XOR THEN k ELSE xor_key
        /\ mbed' = IF enc_module = MODULE_MBED THEN MbedKeys(k) ELSE mbed
        /\ custom_key' = IF enc_module = MODULE_CUSTOM THEN k ELSE custom_key
    BY <1>2 DEF get_key
  <2>2. /\ TinyKeys(k) # ZeroSchedule /\ KeyIn(TinyKeys(k)) = k
        /\ MbedKeys(k) # NoKey /\ KeyIn(MbedKeys(k)) = k
    BY DEF AreAes
  <2>3. ASSUME NEW e \in Available
        PROVE  EngineKeys'[e] = IF e = enc_module THEN k ELSE EngineKeys[e]
    <3>1. CASE e = MODULE_SWAES
      BY <1>1, <2>1, <2>2, <3>1 DEF EngineKeys, Available
    <3>2. CASE e = MODULE_XOR
      BY <1>1, <2>1, <3>2 DEF EngineKeys, Available
    <3>3. CASE e = MODULE_MBED
      BY <1>1, <2>1, <2>2, <3>3 DEF EngineKeys, Available
    <3>4. CASE e = MODULE_CUSTOM
      BY <1>1, <2>1, <3>4 DEF EngineKeys, Available
    <3> QED
      BY <3>1, <3>2, <3>3, <3>4 DEF Available
  <2>4. EngineKeys' = [EngineKeys EXCEPT ![enc_module] = k]
    BY <2>3, KeysAreFunctions
  <2> QED
    BY <1>1, <1>2, <2>4 DEF Service!Next, Service!SetKey
<1>3. CASE ~(enc_module \in Available /\ (enc_module = MODULE_CUSTOM => ram.key))
  <2>1. UNCHANGED <<RoundKey, xor_key, mbed, custom_key>>
    BY <1>3 DEF get_key, Available
  <2>2. EngineKeys' = EngineKeys
    BY <2>1 DEF EngineKeys
  <2> QED
    BY <1>1, <2>2 DEF Service!vars
<1> QED
  BY <1>2, <1>3

LEMMA ServiceStep ==
  ASSUME AreAes(Keys), CmdInv, [Next]_vars
  PROVE  Service!Next \/ UNCHANGED Service!vars
<1>1. ASSUME NEW mod \in Modules, set_module(mod) PROVE Service!Next
  <2>1. /\ enc_module' = mod /\ UNCHANGED <<RoundKey, xor_key, custom_key, answer>>
        /\ mbed' = IF mod = MODULE_MBED THEN NoKey ELSE mbed
    BY <1>1 DEF set_module, Return
  <2>2. EngineKeys' = IF enc_module' \in {MODULE_MBED}
                        THEN [EngineKeys EXCEPT ![enc_module'] = NoKey] ELSE EngineKeys
    <3>1. ASSUME NEW e \in Available
          PROVE  EngineKeys'[e] = IF e = mod /\ mod = MODULE_MBED THEN NoKey ELSE EngineKeys[e]
      BY <2>1 DEF EngineKeys, Available
    <3>2. CASE mod = MODULE_MBED
      <4>1. EngineKeys' = [EngineKeys EXCEPT ![mod] = NoKey]
        BY <3>1, <3>2, KeysAreFunctions
      <4> QED
        BY <2>1, <3>2, <4>1
    <3>3. CASE mod # MODULE_MBED
      <4>1. EngineKeys' = EngineKeys
        BY <3>1, <3>3, KeysAreFunctions
      <4> QED
        BY <2>1, <3>3, <4>1
    <3> QED
      BY <3>2, <3>3
  <2> QED
    BY <2>1, <2>2 DEF Service!Next, Service!Select
<1>2. ASSUME NEW k \in Keys, get_key(k) PROVE Service!Next \/ UNCHANGED Service!vars
  BY <1>2, KeySet
<1>3. ASSUME NEW key \in BOOLEAN, NEW enc \in BOOLEAN, Upload(key, enc) PROVE Service!Next
  <2>1. /\ UNCHANGED <<enc_module, RoundKey, xor_key, mbed, answer>> /\ custom_key' = NoKey
    BY <1>3 DEF Upload, handler
  <2>2. EngineKeys' = [EngineKeys EXCEPT ![MODULE_CUSTOM] = NoKey]
    <3>1. ASSUME NEW e \in Available
          PROVE  EngineKeys'[e] = IF e = MODULE_CUSTOM THEN NoKey ELSE EngineKeys[e]
      BY <2>1 DEF EngineKeys, Available
    <3> QED
      BY <3>1, KeysAreFunctions
  <2> QED
    BY <2>1, <2>2 DEF Service!Next, Service!Forget, Available
<1>4. CASE simpleserial_put
  <2>1. /\ pc = "put" /\ answer' = [pt |-> cmd.arg, ct |-> pt] /\ UNCHANGED engines
    BY <1>4 DEF simpleserial_put
  <2>2. cmd.arg \in Blocks
    BY <2>1 DEF CmdInv, TypeOK, HandlerTypes, BufferInv
  <2>3. answer' = [pt |-> cmd.arg, ct |-> answer'.ct] /\ answer'.ct = pt
    BY <2>1
  <2>4. Service!Promised(cmd.arg, answer'.ct)
    BY <2>1, <2>3, SentAsPromised
  <2>5. EngineKeys' = EngineKeys /\ enc_module' = enc_module
    BY <2>1 DEF EngineKeys, engines
  <2> QED
    BY <2>2, <2>3, <2>4, <2>5 DEF Service!Next, Service!Encrypt
<1>5. CASE UNCHANGED <<engines, answer>>
  BY <1>5 DEF EngineKeys, engines, Service!vars
<1>6. ASSUME \/ \E b \in Blocks : get_pt(b)
             \/ \E group \in 0 .. 4 : set_pwgroup(group)
             \/ \E pw \in Passwords : set_pw(pw)
             \/ set_pwlock \/ ReturnGroup
      PROVE  UNCHANGED <<engines, answer>>
  BY <1>6 DEF get_pt, set_pwgroup, set_pw, set_pwlock, ReturnGroup, Return
<1> QED
  BY <1>1, <1>2, <1>3, <1>4, <1>5, <1>6
     DEF Next, vars, handler, TriggerHigh, Encrypt, Crash, Stopped, TriggerLow, Challenge

(* h, k and p are the CipherService, for every set of keys and blocks.     *)
THEOREM ServiceImplemented == Spec => ImplementsCipherService
<1>1. Init => Service!Init
  BY ServiceInit
<1>2. CmdInv /\ [Next]_vars => [Service!Next]_(Service!vars)
  BY ServiceStep, AllAreAes
<1> QED
  BY <1>1, <1>2, CommandsInvariant, PTL DEF Spec, ImplementsCipherService, Service!Spec

-----------------------------------------------------------------------------
(* The same in company of g, whose loops drive the pin too.                *)

Places == {"returned", "round", "outer", "inner", "row", "check", "flash", "read"}

LoopTypes ==
  /\ loop \in [at : Places, kind : 0 .. 3, i : Nat, j : Nat, totalcnt : Nat, test : Nat]
  /\ glitches \in 0 .. MaxGlitches /\ ran \in Nat

(* What ran says of i and j as long as no glitch has touched them. *)
OnTrack ==
  CASE loop.at = "outer" -> loop.i <= N /\ ran = loop.i * N
    [] loop.at = "inner" -> loop.i < N /\ loop.j <= N /\ ran = loop.i * N + loop.j
    [] loop.at = "row"   -> loop.i < N /\ loop.j = N /\ ran = loop.i * N + N
    [] loop.at = "check" -> loop.i = N /\ ran = N * N
    [] OTHER -> TRUE

(* Each thing that is off costs a glitch: totalcnt, test, and the loop.    *)
Off(b) == IF b THEN 1 ELSE 0
LoopInv ==
  loop.at \in {"outer", "inner", "row", "check"} =>
    Off(loop.totalcnt # ran) + Off(loop.test # ran) + Off(~OnTrack) <= glitches

GlitchInv ==
  /\ LoopTypes
  /\ pc = "glitch" <=> loop.at # "returned"
  /\ LoopInv

LEMMA ConsoleInitInv == ConsoleInit => CmdInv /\ GlitchInv
<1> SUFFICES ASSUME ConsoleInit PROVE GlitchInv
  BY InitInv DEF ConsoleInit
<1>1. loop = [at |-> "returned", kind |-> 0, i |-> 0, j |-> 0, totalcnt |-> 0, test |-> 0]
      /\ glitches = 0 /\ ran = 0 /\ pc = "idle"
  BY DEF ConsoleInit, Init, Glitches!Init, Glitches!Returned
<1> QED
  BY <1>1, LoopAssumption DEF GlitchInv, LoopTypes, LoopInv, Places

(* g is running, and no command begins or ends a loop of it.               *)
LEMMA CommandsBesideLoops ==
  ASSUME [Next]_vars
  PROVE  pc = "glitch" <=> pc' = "glitch"
  BY AtOnce DEF get_pt, Called, set_pw, TriggerHigh, Encrypt, Crash, TriggerLow,
        simpleserial_put, Challenge, ReturnGroup, Return, vars, handler

(* What g leaves alone. *)
LEMMA LoopsBesideCommands ==
  ASSUME GlitchInv, \/ \E data \in 0 .. 3 : glitch_call(data)
                    \/ GlitchStep
  PROVE  /\ UNCHANGED <<engines, pwgroup, PASS, cmd, pt, answer, menu>>
         /\ pc \in {"idle", "glitch"} /\ pc' \in {"idle", "glitch"}
         /\ pc = "idle" => trigger' = trigger
<1>1. ASSUME NEW data \in 0 .. 3, glitch_call(data)
      PROVE  /\ UNCHANGED <<engines, pwgroup, PASS, cmd, pt, answer, menu>>
             /\ pc = "idle" /\ pc' \in {"idle", "glitch"} /\ trigger' = trigger
  BY <1>1 DEF glitch_call, Called, Return, Glitches!Call
<1> QED
  BY <1>1 DEF GlitchStep

LEMMA CmdInvBesideLoops ==
  ASSUME CmdInv, UNCHANGED <<engines, pwgroup, PASS, cmd, pt, answer, menu>>,
         pc \in {"idle", "glitch"}, pc' \in {"idle", "glitch"},
         trigger' \in BOOLEAN, pc' = "idle" => ~trigger'
  PROVE  CmdInv'
<1>1. EngineTypes'
  BY DEF CmdInv, TypeOK, EngineTypes, engines
<1>2. PassTypes' /\ TablesInv'
  BY DEF CmdInv, TypeOK, PassTypes, TablesInv, engines
<1>3. HandlerTypes'
  BY DEF CmdInv, TypeOK, HandlerTypes
<1>4. BufferInv' /\ GroupInv'
  BY DEF BufferInv, GroupInv
<1>5. TriggerInv'
  <2>1. (pc' \in {"work", "low", "stopped"}) = FALSE
    OBVIOUS
  <2> QED
    BY <1>3, <2>1 DEF TriggerInv, HandlerTypes
<1> QED
  BY <1>1, <1>2, <1>3, <1>4, <1>5 DEF CmdInv, TypeOK

-----------------------------------------------------------------------------
(* The loops, step by step. *)

LEMMA NextMultiple == \A a, b \in Nat : (a + 1) * b = a * b + b
  OBVIOUS

LEMMA LoopTypesKept ==
  ASSUME LoopTypes, trigger \in BOOLEAN, Glitches!Next
  PROVE  /\ LoopTypes' /\ trigger' \in BOOLEAN
         /\ loop'.at = "returned" => trigger' = FALSE
<1> USE LoopAssumption DEF LoopTypes, Places
<1>0. Glitches!Returned
        \in [at : Places, kind : 0 .. 3, i : Nat, j : Nat, totalcnt : Nat, test : Nat]
  BY DEF Glitches!Returned
<1>1. CASE Glitches!Round
  BY <1>1 DEF Glitches!Round
<1>2. CASE Glitches!Outer
  BY <1>2 DEF Glitches!Outer
<1>3. CASE Glitches!Inner
  <2>1. /\ loop' = [loop EXCEPT !.totalcnt = loop.totalcnt + 1, !.test = loop.test + 1,
                                !.j = loop.j + 1]
        /\ ran' = ran + 1 /\ UNCHANGED <<glitches, trigger>> /\ loop.at = "inner"
    BY <1>3 DEF Glitches!Inner
  <2>2. loop.totalcnt + 1 \in Nat /\ loop.test + 1 \in Nat /\ loop.j + 1 \in Nat /\ ran + 1 \in Nat
    OBVIOUS
  <2> QED
    BY <2>1, <2>2
<1>4. CASE Glitches!RowDone
  BY <1>4 DEF Glitches!RowDone
<1>5. CASE Glitches!NextRow
  <2>1. /\ loop' = [loop EXCEPT !.at = "outer", !.i = loop.i + 1]
        /\ UNCHANGED <<glitches, ran>> /\ loop.i + 1 \in Nat
    BY <1>5 DEF Glitches!NextRow
  <2>2. trigger' \in BOOLEAN
    BY <1>5, Zenon DEF Glitches!NextRow
  <2> QED
    BY <2>1, <2>2
<1>6. CASE Glitches!RoundGood
  BY <1>6 DEF Glitches!RoundGood
<1>7. CASE Glitches!ReportRow
  BY <1>0, <1>7 DEF Glitches!ReportRow
<1>8. CASE Glitches!ReportRound
  BY <1>0, <1>8 DEF Glitches!ReportRound
<1>9. CASE Glitches!FlashHigh
  BY <1>9 DEF Glitches!FlashHigh
<1>10. ASSUME NEW wrong \in BOOLEAN, Glitches!FlashRead(wrong)
       PROVE  /\ LoopTypes' /\ trigger' \in BOOLEAN
              /\ loop'.at = "returned" => trigger' = FALSE
  <2>1. glitches' \in 0 .. MaxGlitches
    BY <1>10 DEF Glitches!FlashRead
  <2>2. loop' = [loop EXCEPT !.at = "flash"] /\ trigger' = FALSE /\ UNCHANGED ran
    BY <1>10 DEF Glitches!FlashRead
  <2> QED
    BY <2>1, <2>2
<1>11. ASSUME NEW value \in Nat, NEW counter \in {"i", "j", "totalcnt", "test"},
              Glitches!Disturb(counter, value)
       PROVE  /\ LoopTypes' /\ trigger' \in BOOLEAN
              /\ loop'.at = "returned" => trigger' = FALSE
  BY <1>11 DEF Glitches!Disturb
<1>12. 0 .. N + 1 \subseteq Nat /\ 0 .. N * N + 1 \subseteq Nat
  OBVIOUS
<1> QED
  BY <1>1, <1>2, <1>3, <1>4, <1>5, <1>6, <1>7, <1>8, <1>9, <1>10, <1>11, <1>12 DEF Glitches!Next

Looping == {"outer", "inner", "row", "check"}

(* The loops keep the counters in step with one another. *)
LEMMA StaysOnTrack ==
  ASSUME LoopTypes, loop.at \in Looping, loop'.at \in Looping,
         Glitches!Outer \/ Glitches!Inner \/ Glitches!RowDone \/ Glitches!NextRow
  PROVE  /\ glitches' = glitches
         /\ loop'.totalcnt # ran' => loop.totalcnt # ran
         /\ loop'.test # ran' => loop.test # ran
         /\ OnTrack => OnTrack'
<1> USE LoopAssumption DEF LoopTypes, Looping
<1>1. CASE Glitches!Outer
  <2>1. /\ loop.at = "outer" /\ UNCHANGED <<glitches, ran>>
        /\ loop' = IF loop.i < N THEN [loop EXCEPT !.at = "inner", !.j = 0]
                                 ELSE [loop EXCEPT !.at = "check"]
    BY <1>1 DEF Glitches!Outer
  <2>2. OnTrack => OnTrack'
    <3>1. CASE loop.i < N
      BY <2>1, <3>1 DEF OnTrack
    <3>2. CASE ~(loop.i < N)
      <4>1. loop'.at = "check" /\ loop'.i = loop.i
        BY <2>1, <3>2
      <4> QED
        BY <2>1, <3>2, <4>1 DEF OnTrack
    <3> QED
      BY <3>1, <3>2
  <2> QED
    BY <2>1, <2>2
<1>2. CASE Glitches!Inner
  <2>1. /\ loop.at = "inner" /\ loop.j < N /\ UNCHANGED glitches /\ ran' = ran + 1
        /\ loop' = [loop EXCEPT !.totalcnt = loop.totalcnt + 1, !.test = loop.test + 1,
                                !.j = loop.j + 1]
    BY <1>2 DEF Glitches!Inner
  <2>2. /\ loop'.at = "inner" /\ loop'.i = loop.i /\ loop'.j = loop.j + 1
        /\ loop'.totalcnt = loop.totalcnt + 1 /\ loop'.test = loop.test + 1
    BY <2>1
  <2>3. loop.i * N \in Nat
    OBVIOUS
  <2>4. OnTrack => OnTrack'
    BY <2>1, <2>2, <2>3 DEF OnTrack
  <2> QED
    BY <2>1, <2>2, <2>4
<1>3. CASE Glitches!RowDone
  <2>1. /\ loop.at = "inner" /\ loop.j >= N /\ UNCHANGED <<glitches, ran>>
        /\ loop' = [loop EXCEPT !.at = "row"]
    BY <1>3 DEF Glitches!RowDone
  <2>2. /\ loop'.at = "row" /\ loop'.i = loop.i /\ loop'.j = loop.j
        /\ loop'.totalcnt = loop.totalcnt /\ loop'.test = loop.test
    BY <2>1
  <2>3. OnTrack => loop.j = N
    BY <2>1 DEF OnTrack
  <2>4. OnTrack => OnTrack'
    BY <2>1, <2>2, <2>3 DEF OnTrack
  <2> QED
    BY <2>1, <2>2, <2>4
<1>4. CASE Glitches!NextRow
  <2>1. /\ loop.at = "row" /\ UNCHANGED <<glitches, ran>>
        /\ loop' = [loop EXCEPT !.at = "outer", !.i = loop.i + 1]
    BY <1>4 DEF Glitches!NextRow
  <2>2. /\ loop'.at = "outer" /\ loop'.i = loop.i + 1
        /\ loop'.totalcnt = loop.totalcnt /\ loop'.test = loop.test
    BY <2>1
  <2>3. (loop.i + 1) * N = loop.i * N + N
    BY NextMultiple
  <2>4. OnTrack => OnTrack'
    BY <2>1, <2>2, <2>3 DEF OnTrack
  <2> QED
    BY <2>1, <2>2, <2>4
<1> QED
  BY <1>1, <1>2, <1>3, <1>4

LEMMA LoopInvKept ==
  ASSUME LoopTypes, LoopInv, Glitches!Next, LoopTypes'
  PROVE  LoopInv'
<1> USE DEF Looping
<1> SUFFICES ASSUME loop'.at \in Looping PROVE
      Off(loop'.totalcnt # ran') + Off(loop'.test # ran') + Off(~OnTrack') <= glitches'
  BY DEF LoopInv
<1>1. glitches \in Nat /\ glitches' \in Nat
  BY DEF LoopTypes
<1>2. CASE Glitches!Round
  <2>1. loop' = [loop EXCEPT !.at = "outer", !.i = 0, !.totalcnt = 0, !.test = 0] /\ ran' = 0
    BY <1>2 DEF Glitches!Round
  <2>2. loop'.at = "outer" /\ loop'.i = 0 /\ loop'.totalcnt = 0 /\ loop'.test = 0
    BY <2>1 DEF LoopTypes
  <2>3. OnTrack'
    BY <2>1, <2>2, LoopAssumption DEF OnTrack
  <2> QED
    BY <1>1, <2>1, <2>2, <2>3 DEF Off
<1>3. CASE Glitches!Outer \/ Glitches!Inner \/ Glitches!RowDone \/ Glitches!NextRow
  <2>1. loop.at \in Looping
    BY <1>3 DEF Glitches!Outer, Glitches!Inner, Glitches!RowDone, Glitches!NextRow
  <2>2. Off(loop.totalcnt # ran) + Off(loop.test # ran) + Off(~OnTrack) <= glitches
    BY <2>1 DEF LoopInv
  <2>3. /\ glitches' = glitches
        /\ loop'.totalcnt # ran' => loop.totalcnt # ran
        /\ loop'.test # ran' => loop.test # ran
        /\ OnTrack => OnTrack'
    BY <1>3, <2>1, StaysOnTrack
  <2> QED
    BY <1>1, <2>2, <2>3 DEF Off
<1>4. ASSUME NEW value, NEW counter \in {"i", "j", "totalcnt", "test"},
             Glitches!Disturb(counter, value)
      PROVE  Off(loop'.totalcnt # ran') + Off(loop'.test # ran') + Off(~OnTrack') <= glitches'
  <2>1. /\ loop.at \in Looping /\ loop' = [loop EXCEPT ![counter] = value]
        /\ glitches' = glitches + 1 /\ ran' = ran
    BY <1>4 DEF Glitches!Disturb
  <2>2. Off(loop.totalcnt # ran) + Off(loop.test # ran) + Off(~OnTrack) <= glitches
    BY <2>1 DEF LoopInv
  <2>3. /\ counter # "totalcnt" => loop'.totalcnt = loop.totalcnt
        /\ counter # "test" => loop'.test = loop.test
        /\ counter \notin {"i", "j"} => loop'.at = loop.at /\ loop'.i = loop.i /\ loop'.j = loop.j
    BY <2>1 DEF LoopTypes
  <2>4. counter \notin {"i", "j"} => (OnTrack => OnTrack')
    BY <2>1, <2>3 DEF OnTrack
  <2> QED
    BY <1>1, <2>1, <2>2, <2>3, <2>4 DEF Off
<1>5. ASSUME \/ Glitches!ReportRow \/ Glitches!RoundGood \/ Glitches!ReportRound
             \/ Glitches!FlashHigh \/ \E wrong \in BOOLEAN : Glitches!FlashRead(wrong)
      PROVE  loop'.at \notin Looping
  <2>1. CASE Glitches!ReportRow
    BY <2>1 DEF Glitches!ReportRow, Glitches!Returned
  <2>2. CASE Glitches!ReportRound
    BY <2>2 DEF Glitches!ReportRound, Glitches!Returned
  <2>3. CASE Glitches!RoundGood
    BY <2>3 DEF LoopTypes, Glitches!RoundGood
  <2>4. CASE Glitches!FlashHigh
    BY <2>4 DEF LoopTypes, Glitches!FlashHigh
  <2>5. ASSUME NEW wrong \in BOOLEAN, Glitches!FlashRead(wrong) PROVE loop'.at \notin Looping
    BY <2>5 DEF LoopTypes, Glitches!FlashRead
  <2> QED
    BY <1>5, <2>1, <2>2, <2>3, <2>4, <2>5
<1> QED
  BY <1>2, <1>3, <1>4, <1>5 DEF Glitches!Next

-----------------------------------------------------------------------------
(* All commands together. *)

LEMMA GlitchCallInv ==
  ASSUME CmdInv, GlitchInv, NEW data \in 0 .. 3, glitch_call(data)
  PROVE  CmdInv' /\ GlitchInv'
<1>1. pc = "idle" /\ trigger = FALSE
  <2>1. (pc \in {"work", "low", "stopped"}) = FALSE /\ pc = "idle"
    BY DEF glitch_call, Called
  <2> QED
    BY <2>1 DEF CmdInv, TypeOK, HandlerTypes, TriggerInv
<1>2. /\ UNCHANGED <<engines, pwgroup, PASS, cmd, pt, answer, menu>>
      /\ pc' \in {"idle", "glitch"} /\ trigger' = trigger
  BY <1>1, LoopsBesideCommands
<1>3. CmdInv'
  BY <1>1, <1>2, CmdInvBesideLoops
<1>4. CASE data \in 1 .. 3
  <2>1. /\ pc' = "glitch" /\ glitches' = 0 /\ ran' = 0
        /\ loop' = [at |-> IF data = 3 THEN "flash" ELSE "round", kind |-> data,
                    i |-> 0, j |-> 0, totalcnt |-> 0, test |-> 0]
    BY <1>4 DEF glitch_call, Glitches!Call, Glitches!Returned
  <2>2. loop'.at \in {"flash", "round"} /\ LoopTypes'
    BY <1>4, <2>1, LoopAssumption DEF LoopTypes, Places
  <2> QED
    BY <1>3, <2>1, <2>2 DEF GlitchInv, LoopInv
<1>5. CASE data \notin 1 .. 3
  <2>1. pc' = pc /\ UNCHANGED <<loop, glitches, ran>>
    BY <1>1, <1>5 DEF glitch_call, Return
  <2> QED
    BY <1>3, <2>1 DEF GlitchInv, LoopTypes, LoopInv, OnTrack
<1> QED
  BY <1>4, <1>5

LEMMA GlitchStepInv ==
  ASSUME CmdInv, GlitchInv, GlitchStep
  PROVE  CmdInv' /\ GlitchInv'
<1>1. /\ pc = "glitch" /\ pc' = IF loop'.at = "returned" THEN "idle" ELSE pc
      /\ UNCHANGED <<engines, pwgroup, PASS, cmd, pt, answer, menu>> /\ Glitches!Next
  BY DEF GlitchStep
<1>2. trigger \in BOOLEAN
  BY DEF CmdInv, TypeOK, HandlerTypes
<1>3. LoopTypes' /\ trigger' \in BOOLEAN /\ (loop'.at = "returned" => trigger' = FALSE)
  BY <1>1, <1>2, LoopTypesKept DEF GlitchInv
<1>4. LoopInv'
  BY <1>1, <1>3, LoopInvKept DEF GlitchInv
<1>5. CmdInv'
  BY <1>1, <1>3, CmdInvBesideLoops
<1> QED
  BY <1>1, <1>3, <1>4, <1>5 DEF GlitchInv

LEMMA ConsoleStepInv ==
  CmdInv /\ GlitchInv /\ [ConsoleNext]_all => CmdInv' /\ GlitchInv'
<1> SUFFICES ASSUME CmdInv, GlitchInv, [ConsoleNext]_all PROVE CmdInv' /\ GlitchInv'
  OBVIOUS
<1>1. CASE [Next]_vars /\ UNCHANGED <<loop, seen, glitches, ran>>
  <2>1. CmdInv'
    BY <1>1, StepInv
  <2>2. pc = "glitch" <=> pc' = "glitch"
    BY <1>1, CommandsBesideLoops
  <2> QED
    BY <1>1, <2>1, <2>2 DEF GlitchInv, LoopTypes, LoopInv, OnTrack
<1> QED
  BY <1>1, GlitchCallInv, GlitchStepInv DEF ConsoleNext, all

(* The handlers' invariant in company of g, with that of its loops: what   *)
(* is wrong with the counters never exceeds the number of disturbances.    *)
THEOREM ConsoleInvariance == ConsoleSpec => [](CmdInv /\ GlitchInv)
BY ConsoleInitInv, ConsoleStepInv, PTL DEF ConsoleSpec

(* The trigger pin is low between two commands, the loops included.        *)
THEOREM ConsoleTriggerIsLow == ConsoleSpec => []TriggerLowWhenIdle
<1>1. CmdInv => TriggerLowWhenIdle
  BY DEF CmdInv, TypeOK, HandlerTypes, TriggerInv, TriggerLowWhenIdle
<1> QED
  BY <1>1, ConsoleInvariance, PTL

(* Only q with the selected group's password unlocks a group, with g too.  *)
THEOREM ConsoleUnlockedByPassword == ConsoleSpec => UnlockedOnlyByPassword
<1>1. CmdInv /\ GlitchInv /\ [ConsoleNext]_all => [Unlocked]_vars
  <2> SUFFICES ASSUME CmdInv, GlitchInv, [ConsoleNext]_all PROVE [Unlocked]_vars
    OBVIOUS
  <2>1. CASE [Next]_vars
    BY <2>1, UnlockStep
  <2>2. ASSUME PASS' = PASS PROVE Unlocked
    BY <2>2 DEF Unlocked
  <2> QED
    BY <2>1, <2>2, LoopsBesideCommands DEF ConsoleNext, all
<1> QED
  BY <1>1, ConsoleInvariance, PTL DEF ConsoleSpec, UnlockedOnlyByPassword, Unlocked

(* Whatever key an engine holds, it computes AES under that key: no        *)
(* sequence of commands leaves round keys that belong to no key.           *)
THEOREM EnginesAreAesHolds == ConsoleSpec => []EnginesAreAes
<1>1. CmdInv => EnginesAreAes
  <2> DEFINE held == {RoundKey, mbed} \ {ZeroSchedule, NoKey}
  <2> SUFFICES ASSUME CmdInv PROVE EnginesAreAes
    OBVIOUS
  <2>1. ASSUME NEW schedule \in held PROVE KeyIn(schedule) \in Keys
    <3>1. \/ \E k \in Keys : schedule = TinyKeys(k)
          \/ \E k \in Keys : schedule = MbedKeys(k)
      BY <2>1 DEF CmdInv, TypeOK, EngineTypes
    <3> QED
      BY <3>1, AllAreAes DEF AreAes
  <2>2. {KeyIn(schedule) : schedule \in held} \subseteq Keys
    BY <2>1
  <2> QED
    BY <2>2, AllAreAes DEF EnginesAreAes, AreAes
<1> QED
  BY <1>1, ConsoleInvariance, PTL

(* With all commands too, h, k and p are the CipherService.                *)
THEOREM ConsoleServiceImplemented == ConsoleSpec => ImplementsCipherService
<1>1. ConsoleInit => Service!Init
  BY ServiceInit DEF ConsoleInit
<1>2. CmdInv /\ GlitchInv /\ [ConsoleNext]_all => [Service!Next]_(Service!vars)
  <2> SUFFICES ASSUME CmdInv, GlitchInv, [ConsoleNext]_all PROVE [Service!Next]_(Service!vars)
    OBVIOUS
  <2>1. CASE [Next]_vars
    BY <2>1, ServiceStep, AllAreAes
  <2>2. ASSUME UNCHANGED <<engines, answer>> PROVE UNCHANGED Service!vars
    BY <2>2 DEF EngineKeys, engines, Service!vars
  <2> QED
    BY <2>1, <2>2, LoopsBesideCommands DEF ConsoleNext, all
<1> QED
  BY <1>1, <1>2, ConsoleInvariance, PTL DEF ConsoleSpec, ImplementsCipherService, Service!Spec

-----------------------------------------------------------------------------
(* What the loops print. *)

Reported ==
  /\ seen' \notin {seen, "nothing"} => glitches' > 0
  /\ Glitches!RoundGood /\ loop.kind = 2 => ran = N * N

LEMMA ReportedRightly ==
  ASSUME MaxGlitches <= 2, GlitchInv, Glitches!Next
  PROVE  Reported
<1> USE DEF GlitchInv, LoopTypes
<1>1. glitches \in Nat /\ ran \in Nat /\ N \in Nat
  BY LoopAssumption
<1>2. CASE Glitches!ReportRow
  <2>1. loop.at = "row" /\ loop.j # N /\ glitches' = glitches
    BY <1>2 DEF Glitches!ReportRow
  <2>2. ~OnTrack
    BY <2>1 DEF OnTrack
  <2>3. glitches > 0
    BY <1>1, <2>1, <2>2 DEF LoopInv, Off
  <2>4. ~Glitches!RoundGood
    BY <2>1 DEF Glitches!RoundGood
  <2> QED
    BY <2>1, <2>3, <2>4 DEF Reported
<1>3. CASE Glitches!ReportRound
  <2>1. /\ loop.at = "check" /\ glitches' = glitches /\ loop'.at = "returned"
        /\ loop.i # N \/ loop.totalcnt # N * N \/ loop.test # N * N
    BY <1>3 DEF Glitches!ReportRound, Glitches!CountersWrong, Glitches!Returned
  <2>2. ~OnTrack \/ loop.totalcnt # ran \/ loop.test # ran
    BY <2>1 DEF OnTrack
  <2>3. glitches > 0
    BY <1>1, <2>1, <2>2 DEF LoopInv, Off
  <2>4. ~Glitches!RoundGood
    BY <2>1 DEF Glitches!RoundGood
  <2> QED
    BY <2>1, <2>3, <2>4 DEF Reported
<1>4. CASE Glitches!RoundGood
  <2>1. loop.at = "check" /\ seen' = seen /\ (loop.kind = 2 => ~Glitches!CountersWrong(loop))
    BY <1>4 DEF Glitches!RoundGood
  <2>2. SUFFICES ASSUME loop.kind = 2 PROVE ran = N * N
    BY <2>1 DEF Reported
  <2>3. loop.i = N /\ loop.totalcnt = N * N /\ loop.test = N * N
    BY <2>1, <2>2 DEF Glitches!CountersWrong
  <2>4. SUFFICES ASSUME ran # N * N PROVE FALSE
    OBVIOUS
  <2>5. ~OnTrack /\ loop.totalcnt # ran /\ loop.test # ran
    BY <2>1, <2>3, <2>4 DEF OnTrack
  <2>6. glitches > 2
    BY <1>1, <2>1, <2>5 DEF LoopInv, Off
  <2> QED
    BY <1>1, <2>6, LoopAssumption
<1>5. ASSUME NEW wrong \in BOOLEAN, Glitches!FlashRead(wrong) PROVE Reported
  <2>1. /\ seen' = IF wrong THEN "GLITCH" ELSE seen
        /\ glitches' = glitches + (IF wrong THEN 1 ELSE 0) /\ loop.at = "read"
    BY <1>5 DEF Glitches!FlashRead
  <2>2. ~Glitches!RoundGood
    BY <2>1 DEF Glitches!RoundGood
  <2> QED
    BY <1>1, <2>1, <2>2 DEF Reported
<1>6. CASE seen' = seen /\ ~Glitches!RoundGood
  BY <1>6 DEF Reported
<1>7. ASSUME \/ Glitches!Round \/ Glitches!Outer \/ Glitches!Inner \/ Glitches!RowDone
             \/ Glitches!NextRow \/ Glitches!FlashHigh
      PROVE  seen' = seen /\ ~Glitches!RoundGood
  BY <1>7 DEF Glitches!Round, Glitches!Outer, Glitches!Inner, Glitches!RowDone,
        Glitches!NextRow, Glitches!FlashHigh, Glitches!RoundGood
<1>8. ASSUME NEW value, NEW counter \in {"i", "j", "totalcnt", "test"},
             Glitches!Disturb(counter, value)
      PROVE  Reported
  <2>1. seen' = seen /\ loop' = [loop EXCEPT ![counter] = value]
    BY <1>8 DEF Glitches!Disturb
  <2>2. loop'.at = loop.at
    BY <2>1
  <2>3. Glitches!RoundGood => loop'.at = "round" /\ loop.at = "check"
    BY DEF Glitches!RoundGood
  <2> QED
    BY <2>1, <2>2, <2>3 DEF Reported
<1> QED
  BY <1>2, <1>3, <1>4, <1>5, <1>6, <1>7, <1>8 DEF Glitches!Next

(* With no more than two disturbances of a call, nothing is reported       *)
(* without one, and a round that glitch_example2 takes for good ran its    *)
(* body as often as it should, whatever the length of the loops.           *)
THEOREM ReportsGlitchesHolds ==
  ASSUME MaxGlitches <= 2
  PROVE  ConsoleSpec => ReportsGlitches
<1>1. CmdInv /\ GlitchInv /\ [ConsoleNext]_all => [Reported]_(Glitches!vars)
  <2> SUFFICES ASSUME CmdInv, GlitchInv, [ConsoleNext]_all, ~UNCHANGED Glitches!vars
               PROVE  Reported
    OBVIOUS
  <2>1. CASE UNCHANGED <<loop, seen>>
    BY <2>1 DEF Reported, Glitches!RoundGood, GlitchInv, LoopTypes
  <2>2. ASSUME NEW data \in 0 .. 3, glitch_call(data) PROVE Reported
    <3>1. \/ UNCHANGED <<loop, seen>>
          \/ loop.at = "returned" /\ seen' = "nothing"
      <4>1. CASE data \in 1 .. 3
        BY <2>2, <4>1 DEF glitch_call, Glitches!Call
      <4>2. CASE data \notin 1 .. 3
        BY <2>2, <4>2 DEF glitch_call
      <4> QED
        BY <4>1, <4>2
    <3> QED
      BY <2>1, <3>1 DEF Reported, Glitches!RoundGood
  <2>3. CASE GlitchStep
    BY <2>3, ReportedRightly DEF GlitchStep
  <2> QED
    BY <2>1, <2>2, <2>3 DEF ConsoleNext, all
<1> QED
  BY <1>1, ConsoleInvariance, PTL
     DEF ConsoleSpec, ReportsGlitches, Glitches!ReportsGlitches, Reported
=============================================================================
