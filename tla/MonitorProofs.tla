----------------------------- MODULE MonitorProofs -----------------------------
(***************************************************************************)
(* Proofs about the monitor's dialogues, for every base and width of the   *)
(* numbers, every set of digits and whatever the hosts send.               *)
(***************************************************************************)
EXTENDS Monitor, Recursion, TLAPS

-----------------------------------------------------------------------------
(* The recursive definitions have solutions.                               *)

LEMMA PowerUnfold ==
  /\ Power \in [0 .. Width -> Nat \ {0}]
  /\ \A k \in 0 .. Width : Power[k] = IF k = 0 THEN 1 ELSE Base * Power[k - 1]
<1> DEFINE S == Nat \ {0}
           step == [k \in 1 .. Width |-> [p \in S |-> Base * p]]
           Unfolds(f) == f = [k \in 0 .. Width |-> IF k = 0 THEN 1 ELSE Base * f[k - 1]]
<1>1. step \in [1 .. Width -> [S -> S]] /\ 1 \in S
  <2>1. ASSUME NEW p \in S PROVE Base * p \in S
    BY BaseAssumption
  <2> QED
    BY <2>1
<1>2. PICK f \in [0 .. Width -> S] : f[0] = 1 /\ \A k \in 1 .. Width : f[k] = step[k][f[k - 1]]
  <2> HIDE DEF step, S
  <2>1. \E f : IsRun(f, S, Width, 1, step)
    BY <1>1, BaseAssumption, StepsExist
  <2> QED
    BY <2>1 DEF IsRun
<1>3. ASSUME NEW k \in 0 .. Width PROVE f[k] = IF k = 0 THEN 1 ELSE Base * f[k - 1]
  <2>1. CASE k = 0
    BY <1>2, <2>1
  <2>2. CASE k # 0
    <3>1. k \in 1 .. Width /\ k - 1 \in 0 .. Width
      BY <2>2, BaseAssumption
    <3>2. f[k - 1] \in S /\ f[k] = step[k][f[k - 1]]
      BY <1>2, <3>1
    <3> QED
      BY <2>2, <3>1, <3>2
  <2> QED
    BY <2>1, <2>2
<1>4. Unfolds(f)
  <2>1. f = [k \in 0 .. Width |-> f[k]]
    BY <1>2
  <2> QED
    BY <1>3, <2>1
<1>5. Unfolds(Power)
  <2> HIDE DEF Unfolds
  <2>1. Unfolds(CHOOSE g : Unfolds(g))
    BY <1>4
  <2> QED
    BY <2>1, Zenon DEF Power, Unfolds
<1>6. \A k \in 0 .. Width : Power[k] = IF k = 0 THEN 1 ELSE Base * Power[k - 1]
  BY <1>5, Zenon
<1>7. \A k \in 0 .. Width : Power[k] \in Nat \ {0}
  <2> DEFINE T == {k \in Nat : k <= Width => Power[k] \in Nat \ {0}}
  <2>1. 0 \in T
    BY <1>6, BaseAssumption
  <2>2. ASSUME NEW k \in Nat, k \in T PROVE k + 1 \in T
    <3>1. SUFFICES ASSUME k + 1 <= Width PROVE Power[k + 1] \in Nat \ {0}
      OBVIOUS
    <3>2. k + 1 \in 0 .. Width /\ k + 1 # 0 /\ (k + 1) - 1 = k
      BY <3>1, BaseAssumption
    <3>3. Power[k + 1] = Base * Power[k]
      BY <1>6, <3>2
    <3>4. Power[k] \in Nat \ {0}
      BY <2>2, <3>1, BaseAssumption
    <3> QED
      BY <3>3, <3>4, BaseAssumption
  <2>3. Nat \subseteq T
    <3> HIDE DEF T
    <3> QED
      BY <2>1, <2>2, NatSetInduction
  <2> QED
    BY <2>3, BaseAssumption
<1> QED
  BY <1>5, <1>6, <1>7

Blanks == Newlines \union {"sp"}
Longer(v, c) == IF c \in Blanks THEN v ELSE v * Base + ascii_to_hex(c)

LEMMA HexType == \A c : ascii_to_hex(c) \in 0 .. Base - 1
  BY BaseAssumption, NibbleAssumption DEF ascii_to_hex

LEMMA LongerType == \A v \in Nat : \A c : Longer(v, c) \in Nat
  BY HexType, BaseAssumption DEF Longer

LEMMA ValuesUnfold ==
  ASSUME NEW S, NEW t \in Seq(S)
  PROVE  /\ Values(t) \in [0 .. Len(t) -> Nat]
         /\ Values(t)[0] = 0
         /\ \A i \in 1 .. Len(t) : Values(t)[i] = Longer(Values(t)[i - 1], t[i])
<1> DEFINE n == Len(t)
           step == [k \in 1 .. n |-> [v \in Nat |-> Longer(v, t[k])]]
           Unfolds(f) ==
             f = [i \in 0 .. Len(t) |->
                    IF i = 0 THEN 0
                    ELSE IF t[i] \in Newlines \union {"sp"} THEN f[i - 1]
                    ELSE f[i - 1] * Base + (IF t[i] \in DOMAIN Nibble THEN Nibble[t[i]] ELSE 0)]
<1>1. n \in Nat /\ 0 \in Nat /\ step \in [1 .. n -> [Nat -> Nat]]
  BY LongerType
<1>2. PICK f \in [0 .. n -> Nat] : f[0] = 0 /\ \A k \in 1 .. n : f[k] = step[k][f[k - 1]]
  <2> HIDE DEF step, n
  <2>1. \E f : IsRun(f, Nat, n, 0, step)
    BY <1>1, StepsExist
  <2> QED
    BY <2>1 DEF IsRun
<1>3. ASSUME NEW i \in 1 .. n PROVE f[i] = Longer(f[i - 1], t[i])
  <2>1. i - 1 \in 0 .. n
    BY <1>1
  <2>2. f[i - 1] \in Nat
    <3> HIDE DEF n
    <3> QED
      BY <1>2, <2>1
  <2> QED
    BY <1>2, <2>2
<1>4. Unfolds(f)
  <2>1. f = [i \in 0 .. n |-> f[i]]
    BY <1>2
  <2>2. \A i \in 0 .. n : i = 0 \/ i \in 1 .. n
    BY <1>1
  <2> QED
    BY <1>2, <1>3, <2>1, <2>2 DEF Longer, Blanks, ascii_to_hex
<1>5. Unfolds(Values(t))
  <2> HIDE DEF Unfolds
  <2>1. Unfolds(CHOOSE g : Unfolds(g))
    BY <1>4
  <2> QED
    BY <2>1, Zenon DEF Values, Unfolds
<1>6. Values(t)[0] = 0
  BY <1>1, <1>5
<1>7. \A i \in 1 .. n : Values(t)[i] = Longer(Values(t)[i - 1], t[i])
  <2> TAKE i \in 1 .. n
  <2>1. i \in 0 .. n /\ i # 0
    BY <1>1
  <2> QED
    BY <1>5, <2>1, Zenon DEF Longer, Blanks, ascii_to_hex
<1>8. \A i \in 0 .. n : Values(t)[i] \in Nat
  <2> DEFINE T == {i \in Nat : i <= n => Values(t)[i] \in Nat}
  <2>1. 0 \in T
    BY <1>6
  <2>2. ASSUME NEW i \in Nat, i \in T PROVE i + 1 \in T
    <3>1. SUFFICES ASSUME i + 1 <= n PROVE Values(t)[i + 1] \in Nat
      OBVIOUS
    <3>2. i + 1 \in 1 .. n /\ (i + 1) - 1 = i /\ Values(t)[i] \in Nat
      BY <1>1, <2>2, <3>1
    <3>3. Values(t)[i + 1] = Longer(Values(t)[i], t[i + 1])
      BY <1>7, <3>2
    <3> QED
      BY <3>2, <3>3, LongerType
  <2>3. Nat \subseteq T
    <3> HIDE DEF T
    <3> QED
      BY <2>1, <2>2, NatSetInduction
  <2> QED
    BY <1>1, <2>3
<1> QED
  BY <1>5, <1>6, <1>7, <1>8

LEMMA SumsUnfold ==
  ASSUME NEW digits
  PROVE  /\ Sums(digits)[0] = 0
         /\ \A i \in 1 .. Width :
              Sums(digits)[i] = Sums(digits)[i - 1]
                                + ascii_to_hex(digits[i]) * Power[Width - i]
<1> DEFINE step == [k \in 1 .. Width |->
                      [v \in Nat |-> v + ascii_to_hex(digits[k]) * Power[Width - k]]]
           Unfolds(f) ==
             f = [i \in 0 .. Width |->
                    IF i = 0 THEN 0
                    ELSE f[i - 1] + ascii_to_hex(digits[i]) * Power[Width - i]]
<1>1. step \in [1 .. Width -> [Nat -> Nat]]
  <2>1. ASSUME NEW k \in 1 .. Width, NEW v \in Nat
        PROVE  v + ascii_to_hex(digits[k]) * Power[Width - k] \in Nat
    <3>1. Width - k \in 0 .. Width
      BY BaseAssumption
    <3>2. Power[Width - k] \in Nat
      BY <3>1, PowerUnfold
    <3>3. ascii_to_hex(digits[k]) \in Nat
      BY HexType, BaseAssumption
    <3> QED
      BY <3>2, <3>3
  <2> QED
    BY <2>1
<1>2. PICK f \in [0 .. Width -> Nat] :
        f[0] = 0 /\ \A k \in 1 .. Width : f[k] = step[k][f[k - 1]]
  <2> HIDE DEF step
  <2>1. \E f : IsRun(f, Nat, Width, 0, step)
    BY <1>1, StepsExist, BaseAssumption
  <2> QED
    BY <2>1 DEF IsRun
<1>3. ASSUME NEW i \in 1 .. Width
      PROVE  f[i] = f[i - 1] + ascii_to_hex(digits[i]) * Power[Width - i]
  <2>1. f[i - 1] \in Nat
    BY <1>2, BaseAssumption
  <2> QED
    BY <1>2, <2>1
<1>4. Unfolds(f)
  <2>1. f = [i \in 0 .. Width |-> f[i]]
    BY <1>2
  <2>2. \A i \in 0 .. Width : i = 0 \/ i \in 1 .. Width
    BY BaseAssumption
  <2> QED
    BY <1>2, <1>3, <2>1, <2>2
<1>5. Unfolds(Sums(digits))
  <2> HIDE DEF Unfolds
  <2>1. Unfolds(CHOOSE g : Unfolds(g))
    BY <1>4
  <2> QED
    BY <2>1, Zenon DEF Sums, Unfolds
<1>6. \A i \in 1 .. Width : i \in 0 .. Width /\ i # 0
  BY BaseAssumption
<1>7. 0 \in 0 .. Width
  BY BaseAssumption
<1> QED
  BY <1>5, <1>6, <1>7, Zenon

-----------------------------------------------------------------------------
(* The number that uart_get_u32 makes of its digits.                       *)

LEMMA SpelledEmpty == Spelled(<<>>) = 0
<1>1. <<>> \in Seq(Nat) /\ Len(<<>>) = 0
  OBVIOUS
<1> QED
  BY <1>1, ValuesUnfold DEF Spelled

LEMMA SpelledType ==
  ASSUME NEW S, NEW t \in Seq(S) PROVE Spelled(t) \in Nat
<1>1. Len(t) \in 0 .. Len(t) /\ Values(t) \in [0 .. Len(t) -> Nat]
  BY ValuesUnfold
<1> QED
  BY <1>1 DEF Spelled

(* What comes behind them does not change the value of the first digits.   *)
LEMMA ValuesAgree ==
  ASSUME NEW S, NEW s \in Seq(S), NEW t \in Seq(S),
         Len(s) <= Len(t), \A i \in 1 .. Len(s) : s[i] = t[i]
  PROVE  \A i \in 0 .. Len(s) : Values(s)[i] = Values(t)[i]
<1> DEFINE T == {i \in Nat : i <= Len(s) => Values(s)[i] = Values(t)[i]}
<1>n. Len(s) \in Nat /\ Len(t) \in Nat
  OBVIOUS
<1>1. 0 \in T
  BY ValuesUnfold
<1>2. ASSUME NEW i \in Nat, i \in T PROVE i + 1 \in T
  <2>1. SUFFICES ASSUME i + 1 <= Len(s) PROVE Values(s)[i + 1] = Values(t)[i + 1]
    OBVIOUS
  <2>2. /\ i + 1 \in 1 .. Len(s) /\ i + 1 \in 1 .. Len(t) /\ (i + 1) - 1 = i
        /\ Values(s)[i] = Values(t)[i]
    BY <1>n, <1>2, <2>1
  <2>3. Values(s)[i + 1] = Longer(Values(s)[i], s[i + 1])
    BY <2>2, ValuesUnfold
  <2>4. Values(t)[i + 1] = Longer(Values(t)[i], t[i + 1])
    BY <2>2, ValuesUnfold
  <2> QED
    BY <2>2, <2>3, <2>4
<1>3. Nat \subseteq T
  <2> HIDE DEF T
  <2> QED
    BY <1>1, <1>2, NatSetInduction
<1> QED
  BY <1>n, <1>3

LEMMA SpelledAppend ==
  ASSUME NEW S, NEW t \in Seq(S), NEW c \in S
  PROVE  Spelled(Append(t, c)) = Longer(Spelled(t), c)
<1> DEFINE a == Append(t, c)
<1>1. /\ a \in Seq(S) /\ Len(a) = Len(t) + 1 /\ Len(t) \in Nat /\ a[Len(a)] = c
      /\ \A i \in 1 .. Len(t) : t[i] = a[i]
  OBVIOUS
<1> HIDE DEF a
<1>2. Values(a)[Len(t)] = Values(t)[Len(t)]
  <2>1. \A i \in 0 .. Len(t) : Values(t)[i] = Values(a)[i]
    BY <1>1, ValuesAgree
  <2> QED
    BY <1>1, <2>1
<1>3. Len(a) \in 1 .. Len(a) /\ Len(a) - 1 = Len(t)
  BY <1>1
<1>4. Values(a)[Len(a)] = Longer(Values(a)[Len(a) - 1], a[Len(a)])
  BY <1>1, <1>3, ValuesUnfold
<1> QED
  BY <1>1, <1>2, <1>3, <1>4 DEF Spelled, a

(* The value of i digits, with the weights that ascii_to_u32 gives them.   *)
LEMMA WeightStep ==
  ASSUME NEW i \in 1 .. Width, NEW v \in Nat, NEW h \in Nat
  PROVE  /\ v * Power[Width - (i - 1)] + h * Power[Width - i]
              = (v * Base + h) * Power[Width - i]
<1>1. /\ Width - (i - 1) \in 0 .. Width /\ Width - (i - 1) # 0
      /\ (Width - (i - 1)) - 1 = Width - i /\ Width - i \in 0 .. Width
  BY BaseAssumption
<1>2. Power[Width - (i - 1)] = Base * Power[Width - i] /\ Power[Width - i] \in Nat
  BY <1>1, PowerUnfold
<1> QED
  BY <1>2, BaseAssumption

LEMMA SumsAreValues ==
  ASSUME NEW S, NEW d \in Seq(S), Len(d) = Width, \A i \in 1 .. Width : d[i] \notin Blanks
  PROVE  ascii_to_u32(d) = Spelled(d)
<1> DEFINE T == {i \in Nat : i <= Width => Sums(d)[i] = Values(d)[i] * Power[Width - i]}
<1>1. 0 \in T
  <2>1. Sums(d)[0] = 0 /\ Values(d)[0] = 0
    BY SumsUnfold, ValuesUnfold
  <2>2. Width - 0 \in 0 .. Width
    BY BaseAssumption
  <2>3. Power[Width - 0] \in Nat
    BY <2>2, PowerUnfold
  <2> QED
    BY <2>1, <2>3
<1>2. ASSUME NEW i \in Nat, i \in T PROVE i + 1 \in T
  <2> DEFINE j == i + 1
  <2>1. SUFFICES ASSUME j <= Width PROVE Sums(d)[j] = Values(d)[j] * Power[Width - j]
    OBVIOUS
  <2>2. /\ j \in 1 .. Width /\ j - 1 = i /\ i \in 0 .. Width
        /\ Sums(d)[i] = Values(d)[i] * Power[Width - i]
    BY <1>2, <2>1, BaseAssumption
  <2> HIDE DEF j
  <2>3. Sums(d)[j] = Sums(d)[j - 1] + ascii_to_hex(d[j]) * Power[Width - j]
    BY <2>2, SumsUnfold
  <2>4. Values(d)[j] = Longer(Values(d)[j - 1], d[j])
    BY <2>2, ValuesUnfold
  <2>5. Values(d)[j] = Values(d)[i] * Base + ascii_to_hex(d[j])
    BY <2>2, <2>4 DEF Longer
  <2>6. Values(d)[i] \in Nat
    BY <2>2, ValuesUnfold
  <2>7. ascii_to_hex(d[j]) \in Nat
    BY HexType, BaseAssumption
  <2>8. Values(d)[i] * Power[Width - (j - 1)] + ascii_to_hex(d[j]) * Power[Width - j]
          = (Values(d)[i] * Base + ascii_to_hex(d[j])) * Power[Width - j]
    BY <2>2, <2>6, <2>7, WeightStep
  <2> QED
    BY <2>2, <2>3, <2>5, <2>8
<1>3. Nat \subseteq T
  <2> HIDE DEF T
  <2> QED
    BY <1>1, <1>2, NatSetInduction
<1>4. Sums(d)[Width] = Values(d)[Width] * Power[Width - Width]
  BY <1>3, BaseAssumption
<1>5. Width - Width = 0 /\ 0 \in 0 .. Width /\ Width \in 0 .. Width
  BY BaseAssumption
<1>6. Power[0] = 1
  BY <1>5, PowerUnfold
<1>7. Values(d)[Width] \in Nat
  BY <1>5, ValuesUnfold
<1> QED
  BY <1>4, <1>5, <1>6, <1>7 DEF ascii_to_u32, Spelled

(* As many digits as there are weights spell a number below Top.           *)
LEMMA ValueBelowTop ==
  ASSUME NEW S, NEW d \in Seq(S), Len(d) = Width
  PROVE  Spelled(d) \in 0 .. Top - 1
<1> DEFINE T == {i \in Nat : i <= Width => Values(d)[i] < Power[i]}
<1>1. 0 \in T
  <2>1. Values(d)[0] = 0 /\ Power[0] = 1
    BY ValuesUnfold, PowerUnfold, BaseAssumption
  <2> QED
    BY <2>1
<1>2. ASSUME NEW i \in Nat, i \in T PROVE i + 1 \in T
  <2>1. SUFFICES ASSUME i + 1 <= Width PROVE Values(d)[i + 1] < Power[i + 1]
    OBVIOUS
  <2>2. /\ i + 1 \in 1 .. Width /\ i + 1 \in 0 .. Width /\ i + 1 # 0
        /\ (i + 1) - 1 = i /\ i \in 0 .. Width /\ Values(d)[i] < Power[i]
    BY <1>2, <2>1, BaseAssumption
  <2>3. Values(d)[i + 1] = Longer(Values(d)[i], d[i + 1])
    BY <2>2, ValuesUnfold
  <2>4. Values(d)[i] \in Nat
    BY <2>2, ValuesUnfold
  <2>5. Power[i + 1] = Base * Power[i] /\ Power[i] \in Nat
    BY <2>2, PowerUnfold
  <2>6. ascii_to_hex(d[i + 1]) \in 0 .. Base - 1
    BY HexType
  <2> DEFINE v == Values(d)[i]
             p == Power[i]
             h == ascii_to_hex(d[i + 1])
  <2>7. v \in Nat /\ p \in Nat /\ h \in 0 .. Base - 1 /\ v < p
    BY <2>2, <2>4, <2>5, <2>6
  <2>8. Values(d)[i + 1] = v \/ Values(d)[i + 1] = v * Base + h
    BY <2>3 DEF Longer
  <2>9. v < Base * p /\ v * Base + h < Base * p
    <3> HIDE DEF v, p, h
    <3>1. (v + 1) * Base <= p * Base
      BY <2>7, BaseAssumption
    <3>2. v * Base + Base <= p * Base
      BY <2>7, <3>1, BaseAssumption
    <3>3. v <= v * Base
      BY <2>7, BaseAssumption
    <3> QED
      BY <2>7, <3>2, <3>3, BaseAssumption
  <2> QED
    BY <2>5, <2>8, <2>9
<1>3. Nat \subseteq T
  <2> HIDE DEF T
  <2> QED
    BY <1>1, <1>2, NatSetInduction
<1>4. Values(d)[Width] < Power[Width]
  BY <1>3, BaseAssumption
<1>5. Width \in 0 .. Width
  BY BaseAssumption
<1>6. Power[Width] \in Nat
  BY <1>5, PowerUnfold
<1>7. Spelled(d) \in Nat
  BY SpelledType
<1> QED
  BY <1>4, <1>6, <1>7 DEF Top, Spelled

(* Zeros in front do not change the value.                                 *)
LEMMA PaddedValue ==
  ASSUME NEW S, NEW d \in Seq(S), Len(d) <= Width
  PROVE  /\ PadLeft(d) \in Seq(S \union {"0"}) /\ Len(PadLeft(d)) = Width
         /\ Spelled(PadLeft(d)) = Spelled(d)
<1> DEFINE diff == Width - Len(d)
           p == PadLeft(d)
<1>1. Len(d) \in Nat /\ diff \in 0 .. Width /\ Width \in Nat
  BY BaseAssumption
<1>2. /\ p \in Seq(S \union {"0"}) /\ Len(p) = Width
      /\ \A j \in 1 .. diff : p[j] = "0"
      /\ \A j \in 1 .. Len(d) : p[diff + j] = d[j]
  <2>1. \A j \in 1 .. Width : j > diff => j - diff \in 1 .. Len(d)
    BY <1>1
  <2>2. p = [j \in 1 .. Width |-> IF j > diff THEN d[j - diff] ELSE "0"]
    BY DEF PadLeft
  <2> HIDE DEF p
  <2>3. p \in [1 .. Width -> S \union {"0"}]
    BY <2>1, <2>2
  <2>4. p \in Seq(S \union {"0"}) /\ Len(p) = Width
    BY <1>1, <2>3
  <2>5. \A j \in 1 .. diff : p[j] = "0"
    BY <1>1, <2>2
  <2>6. ASSUME NEW j \in 1 .. Len(d) PROVE p[diff + j] = d[j]
    <3>1. diff + j \in 1 .. Width /\ diff + j > diff /\ (diff + j) - diff = j
      BY <1>1
    <3> HIDE DEF diff
    <3> QED
      BY <2>2, <3>1
  <2> QED
    BY <2>4, <2>5, <2>6
<1> HIDE DEF p
<1>3. \A j \in 0 .. diff : Values(p)[j] = 0
  <2> DEFINE T == {j \in Nat : j <= diff => Values(p)[j] = 0}
  <2>1. 0 \in T
    BY <1>2, ValuesUnfold
  <2>2. ASSUME NEW j \in Nat, j \in T PROVE j + 1 \in T
    <3>1. SUFFICES ASSUME j + 1 <= diff PROVE Values(p)[j + 1] = 0
      OBVIOUS
    <3>2. /\ j + 1 \in 1 .. diff /\ j + 1 \in 1 .. Len(p) /\ (j + 1) - 1 = j
          /\ Values(p)[j] = 0
      BY <1>1, <1>2, <2>2, <3>1
    <3>3. Values(p)[j + 1] = Longer(0, "0")
      <4>1. Values(p)[j + 1] = Longer(Values(p)[(j + 1) - 1], p[j + 1])
        BY <1>2, <3>2, ValuesUnfold
      <4> QED
        BY <1>2, <3>2, <4>1
    <3>4. ascii_to_hex("0") = 0
      BY ZeroAssumption DEF ascii_to_hex
    <3> QED
      BY <3>3, <3>4, BaseAssumption DEF Longer
  <2>3. Nat \subseteq T
    <3> HIDE DEF T
    <3> QED
      BY <2>1, <2>2, NatSetInduction
  <2> QED
    BY <1>1, <2>3
<1>4. \A j \in 0 .. Len(d) : Values(p)[diff + j] = Values(d)[j]
  <2> DEFINE T == {j \in Nat : j <= Len(d) => Values(p)[diff + j] = Values(d)[j]}
  <2>1. 0 \in T
    <3>1. Values(p)[diff] = 0 /\ Values(d)[0] = 0 /\ diff + 0 = diff
      BY <1>1, <1>3, ValuesUnfold
    <3> QED
      BY <3>1
  <2>2. ASSUME NEW j \in Nat, j \in T PROVE j + 1 \in T
    <3>1. SUFFICES ASSUME j + 1 <= Len(d)
                   PROVE  Values(p)[diff + (j + 1)] = Values(d)[j + 1]
      OBVIOUS
    <3>2. /\ j + 1 \in 1 .. Len(d) /\ (j + 1) - 1 = j
          /\ diff + (j + 1) \in 1 .. Len(p) /\ (diff + (j + 1)) - 1 = diff + j
          /\ Values(p)[diff + j] = Values(d)[j]
      BY <1>1, <1>2, <2>2, <3>1
    <3> HIDE DEF diff
    <3>3. Values(p)[diff + (j + 1)] = Longer(Values(p)[(diff + (j + 1)) - 1], p[diff + (j + 1)])
      BY <1>2, <3>2, ValuesUnfold
    <3>4. Values(d)[j + 1] = Longer(Values(d)[(j + 1) - 1], d[j + 1])
      BY <3>2, ValuesUnfold
    <3> QED
      BY <1>2, <3>2, <3>3, <3>4
  <2>3. Nat \subseteq T
    <3> HIDE DEF T
    <3> QED
      BY <2>1, <2>2, NatSetInduction
  <2> QED
    BY <1>1, <2>3
<1>5. Len(d) \in 0 .. Len(d) /\ diff + Len(d) = Width
  BY <1>1
<1>6. Values(p)[Width] = Values(d)[Len(d)]
  <2> HIDE DEF diff
  <2> QED
    BY <1>4, <1>5
<1>7. Spelled(p) = Spelled(d)
  BY <1>2, <1>6 DEF Spelled
<1> QED
  BY <1>2, <1>7 DEF p

(* ascii_to_u32 returns what at most Width digits spell.                   *)
LEMMA ConversionExact ==
  ASSUME NEW S, NEW d \in Seq(S), Len(d) <= Width,
         \A i \in 1 .. Len(d) : d[i] \notin Blanks
  PROVE  /\ ascii_to_u32(PadLeft(d)) = Spelled(d)
         /\ ascii_to_u32(PadLeft(d)) \in 0 .. Top - 1
<1> DEFINE p == PadLeft(d)
<1>1. p \in Seq(S \union {"0"}) /\ Len(p) = Width /\ Spelled(p) = Spelled(d)
  BY PaddedValue
<1>2. \A i \in 1 .. Width : p[i] \notin Blanks
  <2> TAKE i \in 1 .. Width
  <2>1. p[i] = "0" \/ \E j \in 1 .. Len(d) : p[i] = d[j]
    <3>1. p[i] = IF i > Width - Len(d) THEN d[i - (Width - Len(d))] ELSE "0"
      BY DEF PadLeft
    <3>2. i > Width - Len(d) => i - (Width - Len(d)) \in 1 .. Len(d)
      BY BaseAssumption
    <3> QED
      BY <3>1, <3>2
  <2> QED
    BY <2>1 DEF Blanks, Newlines
<1> HIDE DEF p
<1>3. ascii_to_u32(p) = Spelled(p)
  <2> DEFINE SS == S \union {"0"}
  <2>1. p \in Seq(SS)
    BY <1>1
  <2> HIDE DEF SS
  <2> QED
    BY <1>1, <1>2, <2>1, SumsAreValues
<1>4. Spelled(p) \in 0 .. Top - 1
  <2> DEFINE SS == S \union {"0"}
  <2>1. p \in Seq(SS)
    BY <1>1
  <2> HIDE DEF SS
  <2> QED
    BY <1>1, <2>1, ValueBelowTop
<1> QED
  BY <1>1, <1>3, <1>4 DEF p

-----------------------------------------------------------------------------
(* Types.                                                                  *)

HostType ==
  /\ host \in Hosts /\ rx \in Chars \union {NoChar} /\ outbox \in Seq(Chars)
  /\ expects \in {"C", "A", "L", "B", "R"}
  /\ want = [cmd |-> want.cmd, addr |-> want.addr, arg |-> want.arg,
             stored |-> want.stored]
  /\ want.arg \in Nat
DialogueType ==
  /\ prompt \in {"none", "C", "A", "L", "B", "R"} /\ second \in BOOLEAN
  /\ pc \in {"left", "flush", "command", "number", "data", "ready", "dump", "run", "gone"}
  /\ ch \in {NoChar} \union Prompted \union InLine
RegisterType ==
  /\ addr \in 0 .. Top - 1 /\ len \in 0 .. Top - 1
  /\ stored \in Seq(Nat \X Chars)
  /\ IF pc = "data" THEN Len(stored) < len ELSE stored = <<>>

(* The digits of the number spell what has been taken for it so far.       *)
NumberType ==
  /\ started \in BOOLEAN
  /\ buf \in Seq(Chars \ Blanks) /\ Len(buf) < Width
  /\ text \in Seq(Chars)
  /\ Spelled(buf) = Spelled(text)

NInv == HostType /\ DialogueType /\ RegisterType /\ NumberType

LEMMA TopType == Top \in Nat /\ Top > 0
<1>1. Width \in 0 .. Width
  BY BaseAssumption
<1> QED
  BY <1>1, PowerUnfold DEF Top

LEMMA TypeOfNInv == NInv => TypeOK
<1> SUFFICES ASSUME NInv PROVE TypeOK
  OBVIOUS
<1>1. buf \in Seq(Chars) /\ Len(buf) < Width
  BY DEF NInv, NumberType
<1>2. Len(stored) <= Top
  <2>1. CASE pc = "data"
    BY <2>1, TopType DEF NInv, RegisterType
  <2>2. CASE pc # "data"
    BY <2>2, TopType DEF NInv, RegisterType
  <2> QED
    BY <2>1, <2>2
<1> QED
  BY <1>1, <1>2 DEF NInv, HostType, DialogueType, RegisterType, NumberType, TypeOK

(* Before the first character. *)
LEMMA EmptyNumber ==
  \A S : <<>> \in Seq(S) /\ Len(<<>>) < Width
<1>1. 0 < Width
  BY BaseAssumption
<1> QED
  BY <1>1

LEMMA NInvInit == Init => NInv
<1> SUFFICES ASSUME Init PROVE NInv
  OBVIOUS
<1>1. HostType
  BY DEF Init, HostType, NoJob
<1>2. DialogueType
  BY DEF Init, DialogueType
<1>3. RegisterType
  BY TopType DEF Init, RegisterType
<1>4. NumberType
  <2>1. started = FALSE /\ buf = <<>> /\ text = <<>>
    BY DEF Init
  <2> QED
    BY <2>1, EmptyNumber DEF NumberType
<1> QED
  BY <1>1, <1>2, <1>3, <1>4 DEF NInv

-----------------------------------------------------------------------------
(* What a host has in its outbox are characters. *)

LEMMA NumbersType ==
  ASSUME NEW n \in Numbers
  PROVE  /\ n \in Seq(Chars) /\ n \in Seq(Chars \ Blanks)
         /\ Len(n) \in 1 .. Width /\ Spelled(n) \in Nat
<1>1. n \in Seq(DOMAIN Nibble) /\ Len(n) \in 1 .. Width
  BY NumbersAssumption
<1>2. DOMAIN Nibble \subseteq Chars \ Blanks
  BY DigitsAssumption DEF Chars, Blanks
<1>3. n \in Seq(Chars) /\ n \in Seq(Chars \ Blanks)
  BY <1>1, <1>2
<1> QED
  BY <1>1, <1>3, SpelledType

LEMMA ConcatType ==
  ASSUME NEW S, NEW s \in Seq(S), NEW t \in Seq(S)
  PROVE  /\ s \o t \in Seq(S) /\ Len(s \o t) = Len(s) + Len(t)
         /\ \A i \in 1 .. Len(s) : (s \o t)[i] = s[i]
         /\ \A i \in 1 .. Len(t) : (s \o t)[Len(s) + i] = t[i]
  OBVIOUS

LEMMA EndsType ==
  /\ \A end \in CommandEnds : end \in Seq(Chars)
  /\ \A n, upload : \A end \in NumberEnds(n, upload) : end \in Seq(Chars)
  /\ <<"lf">> \in Seq(Chars) /\ <<"cr">> \in Seq(Chars)
<1>1. <<"lf">> \in Seq(Chars) /\ <<"cr">> \in Seq(Chars) /\ <<>> \in Seq(Chars)
  <2>1. "lf" \in Chars /\ "cr" \in Chars
    BY DEF Chars, Newlines
  <2> QED
    BY <2>1
<1> QED
  BY <1>1 DEF CommandEnds, NumberEnds

LEMMA CommandsType ==
  ASSUME NEW c \in Prompted \union InLine \union {"q"}
  PROVE  <<c>> \in Seq(Chars) /\ <<c, "sp">> \in Seq(Chars)
  BY DEF Chars

LEMMA HostStepType == NInv /\ Host => NInv'
<1> SUFFICES ASSUME NInv, Host PROVE NInv'
  OBVIOUS
<1>u. UNCHANGED <<pc, ch, second, number, addr, len, stored>>
  BY DEF Host, HostSend, HostReady, HostQuits, FreeSend, HostCommands,
         HostCommandsInLine, HostAddress, HostLength, HostData
<1>r. RegisterType' /\ NumberType'
  BY <1>u DEF NInv, RegisterType, NumberType, number
<1>q. HostType' /\ prompt' \in {prompt, "none"} => NInv'
  BY <1>u, <1>r DEF NInv, DialogueType
<1>t. HostType
  BY DEF NInv
<1>1. CASE HostSend
  <2>1. Head(outbox) \in Chars /\ Tail(outbox) \in Seq(Chars)
    BY <1>1, <1>t DEF HostSend, HostType
  <2> QED
    BY <1>1, <1>t, <1>q, <2>1 DEF HostSend, HostType
<1>2. CASE HostReady
  <2>1. <<"r">> \in Seq(Chars)
    BY CommandsType DEF InLine
  <2> QED
    BY <1>2, <1>t, <1>q, <2>1 DEF HostReady, HostType, Answers
<1>3. ASSUME NEW end \in CommandEnds, HostQuits(end) PROVE NInv'
  <2>1. <<"q">> \o end \in Seq(Chars)
    BY CommandsType, EndsType, ConcatType
  <2> QED
    BY <1>3, <1>t, <1>q, <2>1 DEF HostQuits, HostType
<1>4. ASSUME NEW c \in Free, FreeSend(c) PROVE NInv'
  <2>1. c \in Chars
    BY DEF Chars
  <2> QED
    BY <1>4, <1>t, <1>q, <2>1 DEF FreeSend, HostType, hostVars
<1>5. ASSUME NEW c \in Prompted, NEW end \in CommandEnds, HostCommands(c, end)
      PROVE  NInv'
  <2>1. <<c>> \o end \in Seq(Chars)
    BY CommandsType, EndsType, ConcatType
  <2>2. want' = [cmd |-> c, addr |-> 0, arg |-> 0, stored |-> <<>>]
    BY <1>5 DEF HostCommands, NoJob
  <2>3. /\ want'.cmd = c /\ want'.addr = 0 /\ want'.arg = 0 /\ want'.stored = <<>>
        /\ want'.arg \in Nat
    BY <2>2
  <2>4. /\ outbox' \in Seq(Chars) /\ expects' = "A" /\ prompt' = "none"
        /\ UNCHANGED <<host, rx>>
    BY <1>5, <2>1 DEF HostCommands
  <2>5. HostType'
    BY <1>t, <2>2, <2>3, <2>4 DEF HostType
  <2> QED
    BY <1>q, <2>4, <2>5
<1>6. ASSUME NEW c \in InLine, NEW n \in Numbers, NEW m \in Numbers,
             NEW end \in {<<"lf">>, <<"cr">>}, HostCommandsInLine(c, n, m, end)
      PROVE  NInv'
  <2> DEFINE more == IF c = "w" THEN <<"sp">> \o m ELSE <<>>
  <2>1. /\ <<c, "sp">> \in Seq(Chars) /\ n \in Seq(Chars) /\ m \in Seq(Chars)
        /\ <<"sp">> \in Seq(Chars) /\ end \in Seq(Chars)
    <3>1. <<c, "sp">> \in Seq(Chars) /\ end \in Seq(Chars)
      BY CommandsType, EndsType
    <3>2. "sp" \in Chars
      BY DEF Chars
    <3> QED
      BY <3>1, <3>2, NumbersType
  <2>2. more \in Seq(Chars)
    BY <2>1, ConcatType
  <2>3. outbox' \in Seq(Chars)
    <3> HIDE DEF more
    <3>1. <<c, "sp">> \o n \in Seq(Chars)
      BY <2>1, ConcatType
    <3>2. <<c, "sp">> \o n \o more \in Seq(Chars)
      BY <2>2, <3>1, ConcatType
    <3>3. <<c, "sp">> \o n \o more \o end \in Seq(Chars)
      BY <2>1, <3>2, ConcatType
    <3> QED
      BY <1>6, <3>3 DEF HostCommandsInLine, more
  <2>4. /\ want' = [cmd |-> c, addr |-> want'.addr, arg |-> want'.arg,
                    stored |-> want'.stored]
        /\ want'.arg \in Nat
    BY <1>6, NumbersType DEF HostCommandsInLine
  <2> QED
    BY <1>6, <1>t, <1>q, <2>3, <2>4 DEF HostCommandsInLine, HostType
<1>7. ASSUME NEW n \in Numbers, NEW end \in NumberEnds(n, FALSE), HostAddress(n, end)
      PROVE  NInv'
  <2>1. n \o end \in Seq(Chars)
    BY NumbersType, EndsType, ConcatType
  <2> QED
    BY <1>7, <1>t, <1>q, <2>1 DEF HostAddress, HostType, Answers
<1>8. ASSUME NEW n \in Numbers, NEW end \in NumberEnds(n, want.cmd = "u"),
             HostLength(n, end)
      PROVE  NInv'
  <2>1. n \o end \in Seq(Chars) /\ Spelled(n) \in Nat
    BY NumbersType, EndsType, ConcatType
  <2> QED
    BY <1>8, <1>t, <1>q, <2>1 DEF HostLength, HostType, Answers
<1>9. ASSUME NEW data \in [1 .. want.arg -> Bytes], HostData(data) PROVE NInv'
  <2>1. data \in Seq(Chars)
    <3>1. Bytes \subseteq Chars
      BY DEF Chars
    <3>2. data \in [1 .. want.arg -> Chars] /\ want.arg \in Nat
      BY <1>t, <3>1 DEF HostType
    <3> QED
      BY <3>2
  <2>2. HostType'
    BY <1>9, <1>t, <2>1 DEF HostData, HostType, Answers
  <2> QED
    BY <1>9, <1>q, <2>2 DEF HostData, Answers
<1> QED
  BY <1>1, <1>2, <1>3, <1>4, <1>5, <1>6, <1>7, <1>8, <1>9 DEF Host

-----------------------------------------------------------------------------
(* The monitor's steps. *)

(* uart_get_u32 returns what its characters spell, which fits a number.    *)
LEMMA NumberValue ==
  ASSUME NInv, NEW c \in Chars, NumberIsOver(c)
  PROVE  /\ uart_get_u32(c) = Spelled(Append(text, c))
         /\ uart_get_u32(c) \in 0 .. Top - 1
<1>t. /\ buf \in Seq(Chars \ Blanks) /\ Len(buf) < Width /\ text \in Seq(Chars)
      /\ Spelled(buf) = Spelled(text) /\ Len(buf) \in Nat
  BY DEF NInv, NumberType
<1>1. Spelled(Append(text, c)) = Longer(Spelled(text), c)
  BY <1>t, SpelledAppend
<1> DEFINE D == Chars \ Blanks
<1>2. CASE c \in Newlines
  <2>1. uart_get_u32(c) = ascii_to_u32(PadLeft(buf))
    BY <1>2 DEF uart_get_u32
  <2>2. \A i \in 1 .. Len(buf) : buf[i] \notin Blanks
    BY <1>t
  <2>3. /\ ascii_to_u32(PadLeft(buf)) = Spelled(buf)
        /\ ascii_to_u32(PadLeft(buf)) \in 0 .. Top - 1
    <3>1. buf \in Seq(D) /\ Len(buf) <= Width
      BY <1>t, BaseAssumption
    <3> HIDE DEF D
    <3> QED
      BY <2>2, <3>1, ConversionExact
  <2> QED
    BY <1>1, <1>2, <1>t, <2>1, <2>3 DEF Longer, Blanks
<1>3. CASE c \notin Newlines
  <2>1. c \notin Blanks /\ Len(buf) = Width - 1
    BY <1>3 DEF NumberIsOver, Skipped, Blanks
  <2> DEFINE d == Append(buf, c)
  <2>2. d \in Seq(D) /\ Len(d) = Width /\ \A i \in 1 .. Len(d) : d[i] \notin Blanks
    BY <1>t, <2>1, BaseAssumption
  <2>3. uart_get_u32(c) = ascii_to_u32(PadLeft(d))
    BY <1>3 DEF uart_get_u32
  <2>4. /\ ascii_to_u32(PadLeft(d)) = Spelled(d)
        /\ ascii_to_u32(PadLeft(d)) \in 0 .. Top - 1
    <3>1. Len(d) <= Width
      BY <2>2, BaseAssumption
    <3> HIDE DEF D, d
    <3> QED
      BY <2>2, <3>1, ConversionExact
  <2>5. Spelled(d) = Longer(Spelled(buf), c)
    <3>1. buf \in Seq(D) /\ c \in D
      BY <1>t, <2>1
    <3> HIDE DEF D
    <3> QED
      BY <3>1, SpelledAppend
  <2> QED
    BY <1>1, <1>t, <2>3, <2>4, <2>5
<1> QED
  BY <1>2, <1>3

LEMMA GetNumberType == GetNumber => NumberType'
<1> SUFFICES ASSUME GetNumber PROVE NumberType'
  OBVIOUS
<1>1. started' = FALSE /\ buf' = <<>> /\ text' = <<>>
  BY DEF GetNumber
<1> QED
  BY <1>1, EmptyNumber DEF NumberType

LEMMA NumberGoesOnType ==
  ASSUME NInv, NEW c \in Chars, ~NumberIsOver(c), NumberGoesOn(c)
  PROVE  NumberType'
<1> DEFINE D == Chars \ Blanks
<1>t. /\ buf \in Seq(D) /\ Len(buf) < Width /\ text \in Seq(Chars)
      /\ Spelled(buf) = Spelled(text) /\ Len(buf) \in Nat
  BY DEF NInv, NumberType
<1>1. started' = TRUE /\ text' = Append(text, c) /\ text' \in Seq(Chars)
  BY <1>t DEF NumberGoesOn
<1>2. Spelled(text') = Longer(Spelled(text), c)
  BY <1>1, <1>t, SpelledAppend
<1>3. CASE Skipped(c)
  <2>1. buf' = buf /\ c \in Blanks
    BY <1>3 DEF NumberGoesOn, Skipped, Blanks, Newlines
  <2> QED
    BY <1>1, <1>2, <1>t, <2>1 DEF NumberType, Longer
<1>4. CASE ~Skipped(c)
  <2>1. buf' = Append(buf, c) /\ c \in D /\ Len(buf) # Width - 1
    BY <1>4 DEF NumberGoesOn, NumberIsOver, Skipped, Blanks
  <2>2. buf' \in Seq(D) /\ Len(buf') < Width
    BY <1>t, <2>1, BaseAssumption
  <2>3. Spelled(buf') = Longer(Spelled(buf), c)
    <3> HIDE DEF D
    <3> QED
      BY <1>t, <2>1, SpelledAppend
  <2> QED
    BY <1>1, <1>2, <1>t, <2>2, <2>3 DEF NumberType
<1> QED
  BY <1>3, <1>4

LEMMA CarriedType ==
  ASSUME NEW a, NEW n, NEW data, Carried(a, n, data)
  PROVE  RegisterType' /\ DialogueType'
<1>1. /\ pc' = "command" /\ prompt' = "C" /\ ch' = NoChar /\ second' = FALSE
      /\ addr' = 0 /\ len' = 0 /\ stored' = <<>>
  BY DEF Carried
<1>2. DialogueType'
  BY <1>1 DEF DialogueType
<1>3. 0 \in 0 .. Top - 1 /\ <<>> \in Seq(Nat \X Chars)
  BY TopType
<1>4. RegisterType'
  BY <1>1, <1>3 DEF RegisterType
<1> QED
  BY <1>2, <1>4

LEMMA HostUntouched ==
  ASSUME HostType, UNCHANGED hostVars, rx' \in {rx, NoChar} PROVE HostType'
  BY DEF HostType, hostVars

LEMMA RegistersUntouched ==
  ASSUME RegisterType, UNCHANGED <<addr, len, stored>>, pc # "data", pc' # "data"
  PROVE  RegisterType'
  BY DEF RegisterType

LEMMA NumberUntouched ==
  ASSUME NumberType, UNCHANGED number PROVE NumberType'
  BY DEF NumberType, number

LEMMA MonitorStepType == NInv /\ (Monitor \/ Enter \/ LeftOver) => NInv'
<1> SUFFICES ASSUME NInv, Monitor \/ Enter \/ LeftOver PROVE NInv'
  OBVIOUS
<1>t. HostType /\ DialogueType /\ RegisterType /\ NumberType
  BY DEF NInv
<1>h. HostType'
  <2>1. UNCHANGED hostVars /\ rx' \in {rx, NoChar}
    BY DEF Monitor, Enter, LeftOver, FlushTake, FlushDone, Dump, Run, RunForEver,
           Command, Number, Data, Ready, Takes
  <2> QED
    BY <1>t, <2>1, HostUntouched
<1>q. DialogueType' /\ RegisterType' /\ NumberType' => NInv'
  BY <1>h DEF NInv
<1>1. CASE Enter \/ LeftOver \/ FlushTake \/ RunForEver
  <2>1. DialogueType'
    BY <1>1, <1>t DEF Enter, LeftOver, FlushTake, RunForEver, DialogueType
  <2>2. /\ UNCHANGED <<addr, len, stored>> /\ pc # "data" /\ pc' # "data"
        /\ UNCHANGED number
    BY <1>1 DEF Enter, LeftOver, FlushTake, RunForEver
  <2> QED
    BY <1>t, <1>q, <2>1, <2>2, RegistersUntouched, NumberUntouched
<1>2. CASE FlushDone
  <2>1. DialogueType'
    BY <1>2, <1>t DEF FlushDone, DialogueType
  <2>2. UNCHANGED <<addr, len, stored>> /\ pc # "data" /\ pc' # "data"
    BY <1>2 DEF FlushDone
  <2>3. NumberType'
    BY <1>2, <1>t, GetNumberType, NumberUntouched DEF FlushDone
  <2> QED
    BY <1>t, <1>q, <2>1, <2>2, <2>3, RegistersUntouched
<1>3. CASE Dump \/ Run
  <2>1. \E a, n, data : Carried(a, n, data)
    BY <1>3 DEF Dump, Run
  <2> QED
    BY <1>3, <1>t, <1>q, <2>1, CarriedType, NumberUntouched DEF Dump, Run
<1>4. ASSUME NEW c \in Chars, Command(c) PROVE NInv'
  <2>1. DialogueType'
    BY <1>4, <1>t DEF Command, DialogueType
  <2>2. UNCHANGED <<addr, len, stored>> /\ pc # "data" /\ pc' # "data"
    BY <1>4 DEF Command
  <2>3. NumberType'
    BY <1>4, <1>t, GetNumberType, NumberUntouched DEF Command
  <2> QED
    BY <1>t, <1>q, <2>1, <2>2, <2>3, RegistersUntouched
<1>5. ASSUME NEW c \in Chars, Number(c) PROVE NInv'
  <2> DEFINE v == uart_get_u32(c)
  <2>1. CASE ~NumberIsOver(c)
    <3>1. NumberGoesOn(c) /\ ch' = ch /\ pc = "number"
      BY <1>5, <2>1 DEF Number
    <3>2. DialogueType'
      BY <1>t, <3>1 DEF NumberGoesOn, DialogueType
    <3>3. UNCHANGED <<addr, len, stored>> /\ pc # "data" /\ pc' # "data"
      BY <3>1 DEF NumberGoesOn
    <3> QED
      BY <1>q, <1>t, <2>1, <3>1, <3>2, <3>3, NumberGoesOnType, RegistersUntouched
  <2>2. CASE NumberIsOver(c)
    <3>1. v \in 0 .. Top - 1
      BY <2>2, NumberValue
    <3>2. /\ GetNumber /\ pc = "number" /\ stored = <<>>
          /\ IF second THEN SecondNumber(v) ELSE FirstNumber(v)
      BY <1>5, <1>t, <2>2 DEF Number, RegisterType
    <3> HIDE DEF v
    <3>3. CASE \E a, n, data : Carried(a, n, data)
      BY <1>q, <3>2, <3>3, CarriedType, GetNumberType
    <3>4. CASE FirstNumber(v) /\ ch # "r"
      <4>1. DialogueType' /\ pc' # "data"
        BY <1>t, <3>4 DEF FirstNumber, DialogueType
      <4>2. RegisterType'
        BY <1>t, <3>1, <3>2, <3>4, <4>1 DEF FirstNumber, RegisterType
      <4> QED
        BY <1>q, <3>2, <4>1, <4>2, GetNumberType
    <3>5. CASE SecondNumber(v) /\ ch # "w" /\ ~(ch = "u" /\ v = 0)
      <4>1. DialogueType' /\ len' = v /\ UNCHANGED <<addr, stored>>
            /\ (pc' = "data" => v # 0)
        BY <1>t, <3>5 DEF SecondNumber, DialogueType
      <4>2. RegisterType'
        BY <1>t, <3>1, <3>2, <4>1 DEF RegisterType
      <4> QED
        BY <1>q, <3>2, <4>1, <4>2, GetNumberType
    <3> QED
      BY <3>2, <3>3, <3>4, <3>5 DEF FirstNumber, SecondNumber
  <2> QED
    BY <2>1, <2>2
<1>6. ASSUME NEW c \in Chars, Data(c) PROVE NInv'
  <2> DEFINE entry == <<(addr + Len(stored)) % Top, c>>
             all == Append(stored, entry)
  <2>1. /\ pc = "data" /\ UNCHANGED number
        /\ IF Len(all) = len
             THEN Carried(addr, len, all)
             ELSE stored' = all /\ UNCHANGED <<pc, prompt, ch, second, addr, len, done>>
    BY <1>6 DEF Data, hostVars
  <2>2. /\ addr \in 0 .. Top - 1 /\ len \in 0 .. Top - 1
        /\ stored \in Seq(Nat \X Chars) /\ Len(stored) < len /\ Len(stored) \in Nat
    BY <1>t, <2>1 DEF RegisterType
  <2>3. entry \in Nat \X Chars
    <3>1. (addr + Len(stored)) % Top \in Nat
      BY <2>2, TopType
    <3> QED
      BY <3>1
  <2> HIDE DEF entry
  <2>4. all \in Seq(Nat \X Chars) /\ Len(all) = Len(stored) + 1
    <3> DEFINE P == Nat \X Chars
    <3>1. stored \in Seq(P) /\ entry \in P
      BY <2>2, <2>3
    <3> HIDE DEF P
    <3>2. Append(stored, entry) \in Seq(P) /\ Len(Append(stored, entry)) = Len(stored) + 1
      BY <3>1
    <3> QED
      BY <3>2 DEF P
  <2> HIDE DEF all
  <2>5. CASE Len(all) = len
    BY <1>q, <1>t, <2>1, <2>5, CarriedType, NumberUntouched
  <2>6. CASE Len(all) # len
    <3>1. RegisterType'
      BY <2>1, <2>2, <2>4, <2>6, TopType DEF RegisterType
    <3>2. DialogueType'
      BY <1>t, <2>1, <2>6 DEF DialogueType
    <3> QED
      BY <1>q, <1>t, <2>1, <3>1, <3>2, NumberUntouched
  <2> QED
    BY <2>5, <2>6
<1>7. ASSUME NEW c \in Chars, Ready(c) PROVE NInv'
  <2>1. DialogueType'
    BY <1>7, <1>t DEF Ready, DialogueType
  <2>2. UNCHANGED <<addr, len, stored>> /\ pc # "data" /\ pc' # "data" /\ UNCHANGED number
    BY <1>7 DEF Ready
  <2> QED
    BY <1>t, <1>q, <2>1, <2>2, RegistersUntouched, NumberUntouched
<1> QED
  BY <1>1, <1>2, <1>3, <1>4, <1>5, <1>6, <1>7 DEF Monitor

LEMMA NInvStep == NInv /\ [Next]_vars => NInv'
<1> SUFFICES ASSUME NInv, [Next]_vars PROVE NInv'
  OBVIOUS
<1>1. CASE UNCHANGED vars
  BY <1>1 DEF vars, hostVars, number, NInv, HostType, DialogueType, RegisterType,
              NumberType
<1> QED
  BY <1>1, HostStepType, MonitorStepType DEF Next

(* The digits that uart_get_u32 holds spell the number that its characters *)
(* have spelled so far, and all variables keep their types.                *)
THEOREM NumberInvariance == Spec => []NInv
  BY NInvInit, NInvStep, PTL DEF Spec

(* Type correctness: the digits never fill the eight bytes they are kept   *)
(* in before the number is taken, numbers keep to their width, and an      *)
(* upload writes no more than it was told to.                              *)
THEOREM TypeCorrect == Spec => []TypeOK
  BY TypeOfNInv, NumberInvariance, PTL

(* Whatever is typed, uart_get_u32 returns the number that is spelled.     *)
THEOREM NumberExactHolds == Spec => []NumberExact
<1>1. NInv => NumberExact
  BY NumberValue DEF NumberExact
<1> QED
  BY <1>1, NumberInvariance, PTL

-----------------------------------------------------------------------------
(* The dialogue with a careful host.                                       *)

(* The characters that are on their way to the monitor.                    *)
Pending == (IF rx = NoChar THEN <<>> ELSE <<rx>>) \o outbox

(* They are s, after at most one character of a set.                       *)
Ahead(set, s) == Pending = s \/ \E x \in set : Pending = <<x>> \o s

Job(c, a, n, data) == [cmd |-> c, addr |-> a, arg |-> n, stored |-> data]

(* The part of a command line that follows the first number.               *)
More(c, m, end) == (IF c = "w" THEN <<"sp">> \o m ELSE <<>>) \o end
LineJob(c, n, m) ==
  IF c = "w" THEN Job(c, Spelled(n), Spelled(m), << <<Spelled(n), Spelled(m)>> >>)
  ELSE Job(c, Spelled(n), 0, <<>>)

LineEnds == {<<"lf">>, <<"cr">>}
QuickEnds == {<<>>, <<"lf">>}
CarefulEnds(n, upload) ==
  IF Len(n) < Width THEN LineEnds ELSE IF upload THEN {<<>>} ELSE QuickEnds

(* The number n is being read, and tail follows it.                        *)
Reading(n, tail) ==
  \/ \E rest \in Seq(Chars) : n = buf \o rest /\ Pending = rest \o tail
  \/ buf = <<>> /\ Pending = <<"sp">> \o (n \o tail)
  \/ buf = <<>> /\ ~started /\ Pending = <<"lf">> \o (n \o tail)

(* The monitor has left, or is about to come back. *)
AwayInv ==
  /\ pc = "left" => prompt = "none" /\ expects = "C" /\ ~second
  /\ pc = "gone" => prompt = "none"
  /\ pc = "flush" /\ ch = NoChar =>
       prompt = "none" /\ expects = "C" /\ ~second /\ Pending = <<>>

(* It waits for a command, or the command is on its way.                   *)
CommandInv ==
  pc = "command" =>
    /\ ~second
    /\ \/ prompt = "C" /\ expects = "C" /\ Ahead(Newlines, <<>>)
       \/ /\ prompt = "none" /\ expects = "C"
          /\ \E end \in QuickEnds : Ahead(Newlines, <<"q">> \o end)
       \/ /\ prompt = "none" /\ expects = "A" /\ done = NoJob
          /\ \E c \in Prompted, end \in QuickEnds :
               want = Job(c, 0, 0, <<>>) /\ Ahead(Newlines, <<c>> \o end)
       \/ /\ prompt = "none" /\ expects = "C" /\ done = NoJob
          /\ \E c \in InLine, n \in Numbers, m \in Numbers, end \in LineEnds :
               /\ c = "w" => Len(n) = Width
               /\ want = LineJob(c, n, m)
               /\ Ahead(Newlines, <<c>> \o (<<"sp">> \o (n \o More(c, m, end))))

(* The end of the line before the number may still have to come.           *)
FlushInv ==
  pc = "flush" /\ ch # NoChar =>
    /\ prompt = "none" /\ done = NoJob /\ Ahead({"lf"}, <<>>)
    /\ IF second
         THEN ch \in {"u", "d"} /\ expects = "L" /\ want = Job(ch, addr, 0, <<>>)
         ELSE ch \in Prompted /\ expects = "A" /\ want = Job(ch, 0, 0, <<>>)

(* The number is prompted for and not answered yet.                        *)
Unanswered ==
  /\ buf = <<>> /\ Ahead(IF started THEN {} ELSE {"lf"}, <<>>)
  /\ IF second
       THEN prompt = "L" /\ expects = "L" /\ want = Job(ch, addr, 0, <<>>)
       ELSE prompt = "A" /\ expects = "A" /\ want = Job(ch, 0, 0, <<>>)

Answered ==
  /\ prompt = "none"
  /\ \E n \in Numbers : \E end \in CarefulEnds(n, second /\ ch = "u") :
       /\ Reading(n, end)
       /\ IF second
            THEN /\ want = Job(ch, addr, Spelled(n), <<>>)
                 /\ expects = IF ch = "d" THEN "R" ELSE IF Spelled(n) = 0 THEN "C" ELSE "B"
            ELSE /\ want = Job(ch, Spelled(n), 0, <<>>)
                 /\ expects = IF ch = "e" THEN "C" ELSE "L"

Listed ==
  /\ prompt = "none" /\ expects = "C"
  /\ IF second
       THEN \E m \in Numbers, end \in LineEnds :
              /\ ch = "w" /\ want = Job(ch, addr, Spelled(m), << <<addr, Spelled(m)>> >>)
              /\ Reading(m, end)
       ELSE \E n \in Numbers, m \in Numbers, end \in LineEnds :
              /\ ch = "w" => Len(n) = Width
              /\ want = LineJob(ch, n, m)
              /\ Reading(n, More(ch, m, end))

NumberInv ==
  pc = "number" =>
    /\ done = NoJob
    /\ \/ ch \in Prompted /\ (second => ch # "e") /\ (Unanswered \/ Answered)
       \/ ch \in InLine /\ Listed

(* The bytes still to come are the ones still to be stored.                *)
DataInv ==
  pc = "data" =>
    /\ done = NoJob /\ ch = "u"
    /\ \/ /\ prompt = "B" /\ expects = "B" /\ stored = <<>> /\ Pending = <<>>
          /\ want = Job("u", addr, len, <<>>)
       \/ /\ prompt = "none" /\ expects = "C"
          /\ want = Job("u", addr, len, want.stored)
          /\ Len(want.stored) = len /\ want.stored \in Seq(Nat \X Chars)
          /\ Len(stored) + Len(Pending) = len
          /\ \A i \in 1 .. Len(stored) : stored[i] = want.stored[i]
          /\ \A i \in 1 .. Len(Pending) :
               want.stored[Len(stored) + i]
                 = <<(addr + (Len(stored) + i) - 1) % Top, Pending[i]>>

DumpInv ==
  /\ pc = "ready" =>
       /\ done = NoJob /\ ch = "d" /\ want = Job("d", addr, len, <<>>)
       /\ \/ prompt = "R" /\ expects = "R" /\ Ahead({"lf"}, <<>>)
          \/ prompt = "none" /\ expects = "C" /\ Ahead({"lf"}, <<"r">>)
  /\ pc = "dump" =>
       /\ done = NoJob /\ ch = "d" /\ want = Job("d", addr, len, <<>>)
       /\ prompt = "none" /\ expects = "C" /\ Pending = <<>>

RunInv ==
  pc = "run" =>
    /\ done = NoJob /\ ch = "e" /\ want = Job("e", addr, 0, <<>>)
    /\ prompt = "none" /\ expects = "C" /\ Ahead({"lf"}, <<>>)

DoneInv == done # NoJob => done = want
DInv ==
  /\ DoneInv /\ AwayInv /\ CommandInv /\ FlushInv
  /\ NumberInv /\ DataInv /\ DumpInv /\ RunInv

JInv == (buf # <<>> => started) /\ (host = "careful" => DInv)

-----------------------------------------------------------------------------
(* Characters on their way. *)

LEMMA FirstOfText ==
  ASSUME NEW S, NEW a, NEW b, NEW s \in Seq(S), NEW t \in Seq(S),
         <<a>> \o s = <<b>> \o t
  PROVE  a = b /\ s = t
<1>1. Len(<<a>> \o s) = 1 + Len(s) /\ Len(<<b>> \o t) = 1 + Len(t)
  OBVIOUS
<1>2. (<<a>> \o s)[1] = a /\ (<<b>> \o t)[1] = b
  OBVIOUS
<1>3. Len(s) = Len(t)
  BY <1>1
<1>4. \A i \in 1 .. Len(s) : (<<a>> \o s)[i + 1] = s[i] /\ (<<b>> \o t)[i + 1] = t[i]
  BY <1>3
<1>5. s = t
  BY <1>3, <1>4
<1> QED
  BY <1>2, <1>5

LEMMA NonEmptyText ==
  ASSUME NEW S, NEW s \in Seq(S), s # <<>>
  PROVE  /\ Head(s) \in S /\ Tail(s) \in Seq(S) /\ s = <<Head(s)>> \o Tail(s)
         /\ Len(s) = Len(Tail(s)) + 1 /\ Head(s) = s[1]
         /\ \A i \in 1 .. Len(Tail(s)) : Tail(s)[i] = s[i + 1]
  OBVIOUS

LEMMA EmptyText ==
  ASSUME NEW S, NEW s \in Seq(S) PROVE <<>> \o s = s /\ s \o <<>> = s
  OBVIOUS

LEMMA ConsText ==
  ASSUME NEW S, NEW a, NEW s \in Seq(S)
  PROVE  /\ Head(<<a>> \o s) = a /\ Tail(<<a>> \o s) = s /\ <<a>> \o s # <<>>
         /\ Len(<<a>> \o s) = Len(s) + 1
  OBVIOUS

LEMMA TextAssociates ==
  ASSUME NEW S, NEW r \in Seq(S), NEW s \in Seq(S), NEW t \in Seq(S)
  PROVE  (r \o s) \o t = r \o (s \o t)
  OBVIOUS

LEMMA PendingType == HostType => Pending \in Seq(Chars)
<1> SUFFICES ASSUME HostType PROVE Pending \in Seq(Chars)
  OBVIOUS
<1>1. outbox \in Seq(Chars) /\ rx \in Chars \union {NoChar}
  BY DEF HostType
<1>2. (IF rx = NoChar THEN <<>> ELSE <<rx>>) \in Seq(Chars)
  BY <1>1
<1> QED
  BY <1>1, <1>2, ConcatType DEF Pending

(* What has been sent is still on its way. *)
LEMMA SendKeeps == HostType /\ HostSend => Pending' = Pending
<1> SUFFICES ASSUME HostType, HostSend PROVE Pending' = Pending
  OBVIOUS
<1>1. /\ rx = NoChar /\ outbox # <<>> /\ outbox \in Seq(Chars)
      /\ rx' = Head(outbox) /\ outbox' = Tail(outbox)
  BY DEF HostType, HostSend
<1>2. Head(outbox) # NoChar
  <2>1. NoChar \notin Chars
    BY DigitsAssumption, MaxTextAssumption
    DEF Chars, NoChar, Newlines, Prompted, InLine
  <2> QED
    BY <1>1, <2>1, NonEmptyText
<1>3. outbox = <<Head(outbox)>> \o Tail(outbox) /\ <<>> \o outbox = outbox
  BY <1>1, NonEmptyText, EmptyText
<1> QED
  BY <1>1, <1>2, <1>3 DEF Pending

(* What the host adds comes last. *)
LEMMA AddsBehind ==
  ASSUME HostType, outbox = <<>>, NEW set, set \subseteq Chars, Ahead(set, <<>>),
         rx' = rx, NEW s \in Seq(Chars), outbox' = s
  PROVE  Pending' = s \/ \E x \in set : Pending' = <<x>> \o s
<1> DEFINE r == IF rx = NoChar THEN <<>> ELSE <<rx>>
<1>1. r \in Seq(Chars)
  BY DEF HostType
<1>2. Pending = r /\ Pending' = r \o s
  <2>1. r \o <<>> = r
    BY <1>1
  <2> QED
    BY <2>1 DEF Pending
<1>3. CASE Pending = <<>>
  BY <1>2, <1>3, EmptyText
<1>4. ASSUME NEW x \in set, Pending = <<x>> \o <<>>
      PROVE  \E y \in set : Pending' = <<y>> \o s
  <2>1. <<x>> \o <<>> = <<x>>
    OBVIOUS
  <2> QED
    BY <1>2, <1>4, <2>1
<1> QED
  BY <1>3, <1>4 DEF Ahead

(* What the monitor takes comes first. *)
LEMMA TakesFirst ==
  ASSUME HostType, NEW c \in Chars, Takes(c), outbox' = outbox
  PROVE  Pending' \in Seq(Chars) /\ Pending = <<c>> \o Pending'
<1>1. outbox \in Seq(Chars) /\ rx = c /\ c # NoChar /\ rx' = NoChar
  BY DEF HostType, Takes
<1>2. <<>> \o outbox = outbox
  BY <1>1, EmptyText
<1>3. Pending' = outbox
  BY <1>1, <1>2 DEF Pending
<1> QED
  BY <1>1, <1>3 DEF Pending

LEMMA TakesOfPending ==
  ASSUME HostType, NEW c \in Chars, Takes(c), outbox' = outbox,
         NEW x, NEW s \in Seq(Chars), Pending = <<x>> \o s
  PROVE  c = x /\ Pending' = s
<1>1. Pending' \in Seq(Chars) /\ Pending = <<c>> \o Pending'
  BY TakesFirst
<1>2. <<c>> \o Pending' = <<x>> \o s
  BY <1>1
<1> QED
  BY <1>1, <1>2, FirstOfText

LEMMA TakesAhead ==
  ASSUME HostType, NEW c \in Chars, Takes(c), outbox' = outbox,
         NEW set, NEW s \in Seq(Chars), Ahead(set, s)
  PROVE  \/ c \in set /\ Pending' = s
         \/ Pending = s /\ s = <<c>> \o Pending'
<1>1. CASE Pending = s
  BY <1>1, TakesFirst
<1>2. ASSUME NEW x \in set, Pending = <<x>> \o s PROVE c \in set /\ Pending' = s
  <2>1. c = x /\ Pending' = s
    BY <1>2, TakesOfPending
  <2> QED
    BY <2>1
<1> QED
  BY <1>1, <1>2 DEF Ahead

LEMMA NothingToTake ==
  ASSUME HostType, NEW c \in Chars, Takes(c), outbox' = outbox PROVE Pending # <<>>
<1>1. Pending' \in Seq(Chars) /\ Pending = <<c>> \o Pending'
  BY TakesFirst
<1> QED
  BY <1>1, ConsText

-----------------------------------------------------------------------------
(* Reading a number that is on its way. *)

(* A number that is shorter than Width has an end of line behind it. *)
Terminated(n, tail) ==
  Len(n) < Width => \E x \in Newlines : \E t \in Seq(Chars) : tail = <<x>> \o t

LEMMA SplitDigit ==
  ASSUME NEW S, NEW s \in Seq(S), NEW rest \in Seq(S), rest # <<>>
  PROVE  s \o rest = Append(s, Head(rest)) \o Tail(rest)
<1> DEFINE h == Head(rest)
           r == Tail(rest)
<1>1. h \in S /\ r \in Seq(S) /\ rest = <<h>> \o r
  BY NonEmptyText
<1> HIDE DEF h, r
<1>2. <<h>> \in Seq(S) /\ Append(s, h) = s \o <<h>>
  BY <1>1
<1>3. (s \o <<h>>) \o r = s \o (<<h>> \o r)
  BY <1>1, <1>2, TextAssociates
<1> QED
  BY <1>1, <1>2, <1>3 DEF h, r

(* The next character, while digits are left of the number: one of them.   *)
LEMMA DigitNext ==
  ASSUME NInv, NEW n \in Numbers, NEW tail \in Seq(Chars),
         NEW rest \in Seq(Chars), n = buf \o rest, rest # <<>>,
         Pending = rest \o tail,
         NEW c \in Chars, Takes(c), outbox' = outbox
  PROVE  /\ c \notin Blanks /\ Tail(rest) \in Seq(Chars) /\ c = Head(rest)
         /\ Pending' = Tail(rest) \o tail
         /\ Len(n) = Len(buf) + 1 + Len(Tail(rest))
<1>t. buf \in Seq(Chars \ Blanks) /\ buf \in Seq(Chars) /\ HostType
  BY DEF NInv, NumberType
<1> DEFINE h == Head(rest)
           r == Tail(rest)
<1>1. /\ h \in Chars /\ r \in Seq(Chars) /\ rest = <<h>> \o r /\ Len(rest) = Len(r) + 1
      /\ h = rest[1]
  BY NonEmptyText
<1> HIDE DEF h, r
<1>2. Pending = <<h>> \o (r \o tail) /\ r \o tail \in Seq(Chars)
  <2>1. <<h>> \in Seq(Chars)
    BY <1>1
  <2> QED
    BY <1>1, <2>1, TextAssociates, ConcatType
<1>3. c = h /\ Pending' = r \o tail
  BY <1>2, <1>t, TakesOfPending
<1>4. Len(n) = Len(buf) + 1 + Len(r) /\ n[Len(buf) + 1] = h
  <2>1. Len(n) = Len(buf) + Len(rest) /\ n[Len(buf) + 1] = rest[1]
    <3>1. 1 \in 1 .. Len(rest)
      BY <1>1
    <3> QED
      BY <1>t, <3>1, ConcatType
  <2> QED
    BY <1>1, <2>1, <1>t
<1>5. h \notin Blanks
  <2>1. n \in Seq(Chars \ Blanks)
    BY NumbersType
  <2>2. Len(buf) + 1 \in 1 .. Len(n)
    BY <1>1, <1>4, <1>t
  <2> QED
    BY <1>4, <2>1, <2>2
<1> QED
  BY <1>1, <1>3, <1>4, <1>5 DEF h, r

(* After the digits of a shorter number: the end of its line.              *)
LEMMA TerminatorNext ==
  ASSUME NInv, buf # <<>> => started, NEW n \in Numbers, NEW tail \in Seq(Chars),
         Terminated(n, tail), n = buf, Pending = tail,
         NEW c \in Chars, Takes(c), outbox' = outbox
  PROVE  /\ Len(n) < Width /\ c \in Newlines /\ ~Skipped(c) /\ tail = <<c>> \o Pending'
<1>t. Len(buf) < Width /\ HostType
  BY DEF NInv, NumberType
<1>1. started
  <2>1. Len(n) \in 1 .. Width
    BY NumbersType
  <2>2. n # <<>>
    <3>1. SUFFICES ASSUME n = <<>> PROVE FALSE
      OBVIOUS
    <3>2. Len(n) = 0
      BY <3>1
    <3> QED
      BY <2>1, <3>2, BaseAssumption
  <2> QED
    BY <2>2
<1>2. PICK x \in Newlines : \E t \in Seq(Chars) : tail = <<x>> \o t
  BY <1>t DEF Terminated
<1>3. PICK t \in Seq(Chars) : tail = <<x>> \o t
  BY <1>2
<1>4. c = x /\ Pending' = t
  BY <1>3, <1>t, TakesOfPending
<1> QED
  BY <1>t, <1>1, <1>3, <1>4 DEF Skipped, Newlines

LEMMA ReadingCases ==
  ASSUME NInv, buf # <<>> => started, NEW n \in Numbers, NEW tail \in Seq(Chars),
         Terminated(n, tail), Reading(n, tail),
         NEW c \in Chars, Takes(c), outbox' = outbox
  PROVE  \/ \E rest \in Seq(Chars) :
              /\ c \notin Blanks /\ n = Append(buf, c) \o rest
              /\ Pending' = rest \o tail /\ Len(n) = Len(buf) + 1 + Len(rest)
         \/ /\ n = buf /\ Len(n) < Width /\ c \in Newlines /\ ~Skipped(c)
            /\ tail = <<c>> \o Pending'
         \/ Skipped(c) /\ buf = <<>> /\ Pending' = n \o tail
<1>t. HostType /\ n \o tail \in Seq(Chars)
  BY NumbersType, ConcatType DEF NInv
<1>1. ASSUME NEW rest \in Seq(Chars), n = buf \o rest, Pending = rest \o tail, rest # <<>>
      PROVE  \E r \in Seq(Chars) :
               /\ c \notin Blanks /\ n = Append(buf, c) \o r
               /\ Pending' = r \o tail /\ Len(n) = Len(buf) + 1 + Len(r)
  <2>1. c \notin Blanks /\ Tail(rest) \in Seq(Chars) /\ c = Head(rest)
    BY <1>1, DigitNext
  <2>2. buf \o rest = Append(buf, c) \o Tail(rest)
    <3>1. buf \in Seq(Chars)
      BY DEF NInv, NumberType
    <3> QED
      BY <1>1, <2>1, <3>1, SplitDigit
  <2>3. Pending' = Tail(rest) \o tail
    BY <1>1, DigitNext
  <2>4. Len(n) = Len(buf) + 1 + Len(Tail(rest))
    BY <1>1, DigitNext
  <2> QED
    BY <1>1, <2>1, <2>2, <2>3, <2>4
<1>2. ASSUME n = buf \o <<>>, Pending = <<>> \o tail
      PROVE  /\ n = buf /\ Len(n) < Width /\ c \in Newlines /\ ~Skipped(c)
             /\ tail = <<c>> \o Pending'
  <2>1. n = buf /\ Pending = tail
    <3>1. buf \in Seq(Chars \ Blanks)
      BY DEF NInv, NumberType
    <3> QED
      BY <1>2, <3>1, EmptyText
  <2> QED
    BY <2>1, TerminatorNext
<1>3. ASSUME buf = <<>>, Pending = <<"sp">> \o (n \o tail)
      PROVE  Skipped(c) /\ Pending' = n \o tail
  BY <1>3, <1>t, TakesOfPending DEF Skipped
<1>4. ASSUME buf = <<>>, ~started, Pending = <<"lf">> \o (n \o tail)
      PROVE  Skipped(c) /\ Pending' = n \o tail
  BY <1>4, <1>t, TakesOfPending DEF Skipped
<1> QED
  BY <1>1, <1>2, <1>3, <1>4 DEF Reading

LEMMA ReadingGoesOn ==
  ASSUME NInv, buf # <<>> => started, NEW n \in Numbers, NEW tail \in Seq(Chars),
         Terminated(n, tail), Reading(n, tail),
         NEW c \in Chars, Takes(c), outbox' = outbox,
         ~NumberIsOver(c), NumberGoesOn(c)
  PROVE  Reading(n, tail)'
<1>1. buf' = IF Skipped(c) THEN buf ELSE Append(buf, c)
  BY DEF NumberGoesOn
<1>2. ASSUME NEW rest \in Seq(Chars), c \notin Blanks, n = Append(buf, c) \o rest,
             Pending' = rest \o tail
      PROVE  Reading(n, tail)'
  BY <1>1, <1>2 DEF Reading, Skipped, Blanks, Newlines
<1>3. CASE Skipped(c) /\ buf = <<>> /\ Pending' = n \o tail
  <2>1. n \in Seq(Chars) /\ n = <<>> \o n
    BY NumbersType, EmptyText
  <2> QED
    BY <1>1, <1>3, <2>1 DEF Reading
<1>4. CASE c \in Newlines /\ ~Skipped(c)
  BY <1>4 DEF NumberIsOver
<1> QED
  BY <1>2, <1>3, <1>4, ReadingCases

LEMMA ReadingIsOver ==
  ASSUME NInv, buf # <<>> => started, NEW n \in Numbers, NEW tail \in Seq(Chars),
         Terminated(n, tail), Reading(n, tail),
         NEW c \in Chars, Takes(c), outbox' = outbox, NumberIsOver(c)
  PROVE  /\ uart_get_u32(c) = Spelled(n)
         /\ Pending' \in Seq(Chars)
         /\ IF Len(n) < Width THEN tail = <<c>> \o Pending' /\ c \in Newlines
                              ELSE Pending' = tail
<1>t. /\ buf \in Seq(Chars \ Blanks) /\ buf \in Seq(Chars) /\ text \in Seq(Chars)
      /\ Spelled(buf) = Spelled(text) /\ Len(buf) \in Nat
  BY DEF NInv, NumberType
<1>v. uart_get_u32(c) = Longer(Spelled(buf), c) /\ Pending' \in Seq(Chars)
  <2>1. uart_get_u32(c) = Spelled(Append(text, c))
    BY NumberValue
  <2>2. Spelled(Append(text, c)) = Longer(Spelled(text), c)
    BY <1>t, SpelledAppend
  <2> QED
    BY <1>t, <2>1, <2>2, TakesFirst DEF NInv
<1>1. ASSUME NEW rest \in Seq(Chars), c \notin Blanks, n = Append(buf, c) \o rest,
             Pending' = rest \o tail, Len(n) = Len(buf) + 1 + Len(rest)
      PROVE  uart_get_u32(c) = Spelled(n) /\ Len(n) = Width /\ Pending' = tail
  <2>1. Len(buf) = Width - 1
    BY <1>1 DEF NumberIsOver, Blanks
  <2>2. Len(rest) = 0 /\ Len(n) = Width
    <3>1. Len(n) \in 1 .. Width
      BY NumbersType
    <3> QED
      BY <1>1, <2>1, <3>1, BaseAssumption
  <2>3. rest = <<>>
    BY <2>2
  <2>4. Append(buf, c) \in Seq(Chars)
    BY <1>t
  <2>5. n = Append(buf, c) /\ Pending' = tail
    BY <1>1, <2>3, <2>4, EmptyText
  <2>6. Spelled(Append(buf, c)) = Longer(Spelled(buf), c)
    BY <1>t, SpelledAppend
  <2> QED
    BY <1>v, <2>2, <2>5, <2>6
<1>2. CASE /\ n = buf /\ Len(n) < Width /\ c \in Newlines /\ tail = <<c>> \o Pending'
  <2>1. Longer(Spelled(buf), c) = Spelled(buf)
    BY <1>2 DEF Longer, Blanks
  <2> QED
    BY <1>2, <1>v, <2>1
<1>3. CASE Skipped(c)
  BY <1>3 DEF NumberIsOver
<1>4. \/ \E rest \in Seq(Chars) :
            /\ c \notin Blanks /\ n = Append(buf, c) \o rest
            /\ Pending' = rest \o tail /\ Len(n) = Len(buf) + 1 + Len(rest)
      \/ /\ n = buf /\ Len(n) < Width /\ c \in Newlines /\ ~Skipped(c)
         /\ tail = <<c>> \o Pending'
      \/ Skipped(c) /\ buf = <<>> /\ Pending' = n \o tail
  BY ReadingCases
<1>5. CASE \E rest \in Seq(Chars) :
             /\ c \notin Blanks /\ n = Append(buf, c) \o rest
             /\ Pending' = rest \o tail /\ Len(n) = Len(buf) + 1 + Len(rest)
  <2>1. uart_get_u32(c) = Spelled(n) /\ Len(n) = Width /\ Pending' = tail
    BY <1>1, <1>5
  <2>2. ~(Len(n) < Width)
    BY <2>1, BaseAssumption
  <2> QED
    BY <1>v, <2>1, <2>2
<1> QED
  BY <1>2, <1>3, <1>4, <1>5, <1>v

-----------------------------------------------------------------------------
(* Steps of the dialogue. *)

(* Only what is said of the next place has to be shown. *)
LEMMA NextPlace ==
  /\ pc' = "left" /\ DoneInv' /\ AwayInv' => DInv'
  /\ pc' = "gone" /\ DoneInv' /\ AwayInv' => DInv'
  /\ pc' = "flush" /\ DoneInv' /\ AwayInv' /\ FlushInv' => DInv'
  /\ pc' = "command" /\ DoneInv' /\ CommandInv' => DInv'
  /\ pc' = "number" /\ DoneInv' /\ NumberInv' => DInv'
  /\ pc' = "data" /\ DoneInv' /\ DataInv' => DInv'
  /\ pc' \in {"ready", "dump"} /\ DoneInv' /\ DumpInv' => DInv'
  /\ pc' = "run" /\ DoneInv' /\ RunInv' => DInv'
  BY DEF DInv, AwayInv, CommandInv, FlushInv, NumberInv, DataInv, DumpInv, RunInv

(* A prompt that was not answered yet tells where the monitor is.          *)
LEMMA PromptPlace ==
  ASSUME DInv, DialogueType
  PROVE  /\ prompt = "C" => pc = "command" /\ ~second /\ Ahead(Newlines, <<>>)
         /\ prompt = "A" =>
              /\ pc = "number" /\ ~second /\ ch \in Prompted /\ done = NoJob
              /\ Unanswered
         /\ prompt = "L" =>
              /\ pc = "number" /\ second /\ ch \in {"u", "d"} /\ done = NoJob
              /\ Unanswered
         /\ prompt = "B" =>
              /\ pc = "data" /\ ch = "u" /\ done = NoJob
              /\ stored = <<>> /\ Pending = <<>> /\ want = Job("u", addr, len, <<>>)
         /\ prompt = "R" =>
              /\ pc = "ready" /\ ch = "d" /\ done = NoJob
              /\ Ahead({"lf"}, <<>>) /\ want = Job("d", addr, len, <<>>)
<1>1. CASE pc \in {"left", "gone", "flush", "run", "dump"}
  BY <1>1 DEF DInv, AwayInv, FlushInv, RunInv, DumpInv
<1>2. CASE pc = "command"
  BY <1>2 DEF DInv, CommandInv
<1>3. CASE pc = "number"
  BY <1>3 DEF DInv, NumberInv, Unanswered, Answered, Listed, Prompted
<1>4. CASE pc = "data"
  BY <1>4 DEF DInv, DataInv
<1>5. CASE pc = "ready"
  BY <1>5 DEF DInv, DumpInv
<1> QED
  BY <1>1, <1>2, <1>3, <1>4, <1>5 DEF DialogueType

(* The host's steps. *)

LEMMA SendJob ==
  ASSUME HostType, DInv, HostSend PROVE DInv'
<1>1. Pending' = Pending
  BY SendKeeps
<1>2. UNCHANGED <<host, expects, want, pc, prompt, ch, second, started, buf, text,
                  addr, len, stored, done>>
  BY DEF HostSend, number
<1>3. DoneInv' /\ AwayInv'
  BY <1>1, <1>2 DEF DInv, DoneInv, AwayInv
<1>4. CommandInv' /\ FlushInv'
  BY <1>1, <1>2 DEF DInv, CommandInv, FlushInv, Ahead
<1>5. NumberInv'
  BY <1>1, <1>2 DEF DInv, NumberInv, Unanswered, Answered, Listed, Reading, Ahead
<1>6. DataInv' /\ DumpInv' /\ RunInv'
  BY <1>1, <1>2 DEF DInv, DataInv, DumpInv, RunInv, Ahead
<1> QED
  BY <1>3, <1>4, <1>5, <1>6 DEF DInv

LEMMA CharTypes ==
  /\ Newlines \subseteq Chars /\ {"lf"} \subseteq Chars /\ {} \subseteq Chars
  /\ \A end \in QuickEnds \union LineEnds : end \in Seq(Chars)
  /\ \A n, upload : CarefulEnds(n, upload) \subseteq QuickEnds \union LineEnds
<1>1. "lf" \in Chars /\ "cr" \in Chars /\ Newlines \subseteq Chars
  BY DEF Chars, Newlines
<1>2. <<>> \in Seq(Chars) /\ <<"lf">> \in Seq(Chars) /\ <<"cr">> \in Seq(Chars)
  BY <1>1
<1> QED
  BY <1>1, <1>2 DEF QuickEnds, LineEnds, CarefulEnds

(* What the host adds, when at most the end of a line is on its way.       *)
LEMMA AddsBehindNone ==
  ASSUME HostType, outbox = <<>>, Pending = <<>>,
         rx' = rx, NEW s \in Seq(Chars), outbox' = s
  PROVE  Pending' = s
<1> DEFINE set == {}
<1>1. set \subseteq Chars /\ Ahead(set, <<>>) /\ ~\E x \in set : TRUE
  BY DEF Ahead
<1> HIDE DEF set
<1>2. Pending' = s \/ \E x \in set : Pending' = <<x>> \o s
  BY <1>1, AddsBehind
<1> QED
  BY <1>1, <1>2

LEMMA AddsBehindLf ==
  ASSUME HostType, outbox = <<>>, Ahead({"lf"}, <<>>),
         rx' = rx, NEW s \in Seq(Chars), outbox' = s
  PROVE  Pending' = s \/ Pending' = <<"lf">> \o s
<1> DEFINE set == {"lf"}
<1>1. set \subseteq Chars /\ Ahead(set, <<>>) /\ \A x \in set : x = "lf"
  BY CharTypes
<1> HIDE DEF set
<1>2. Pending' = s \/ \E x \in set : Pending' = <<x>> \o s
  BY <1>1, AddsBehind
<1> QED
  BY <1>1, <1>2

LEMMA CommandsJob ==
  ASSUME HostType, DialogueType, DInv, host = "careful",
         NEW c \in Prompted, NEW end \in CommandEnds, HostCommands(c, end)
  PROVE  DInv'
<1>1. pc = "command" /\ ~second /\ Ahead(Newlines, <<>>)
  BY PromptPlace DEF HostCommands
<1>2. end \in QuickEnds
  BY DEF CommandEnds, QuickEnds
<1> DEFINE s == <<c>> \o end
<1>3. s \in Seq(Chars)
  BY <1>2, CharTypes, CommandsType, ConcatType
<1>4. Pending' = s \/ \E x \in Newlines : Pending' = <<x>> \o s
  <2>1. outbox = <<>> /\ outbox' = s /\ rx' = rx
    BY DEF HostCommands
  <2> HIDE DEF s
  <2> QED
    BY <1>1, <1>3, <2>1, CharTypes, AddsBehind
<1>5. want' = Job(c, 0, 0, <<>>) /\ done' = NoJob /\ expects' = "A" /\ prompt' = "none"
      /\ pc' = "command" /\ ~second'
  BY <1>1 DEF HostCommands, NoJob, Job
<1>6. CommandInv'
  <2>1. \E d \in Prompted, e \in QuickEnds :
          want' = Job(d, 0, 0, <<>>)
          /\ (Pending' = <<d>> \o e \/ \E x \in Newlines : Pending' = <<x>> \o (<<d>> \o e))
    BY <1>2, <1>4, <1>5
  <2> QED
    BY <1>5, <2>1 DEF CommandInv, Ahead
<1>7. DoneInv'
  BY <1>5 DEF DoneInv
<1> QED
  BY <1>5, <1>6, <1>7, NextPlace

LEMMA InLineJob ==
  ASSUME HostType, DialogueType, DInv, host = "careful",
         NEW c \in InLine, NEW n \in Numbers, NEW m \in Numbers, NEW end \in LineEnds,
         HostCommandsInLine(c, n, m, end)
  PROVE  DInv'
<1>1. pc = "command" /\ ~second /\ Ahead(Newlines, <<>>)
  BY PromptPlace DEF HostCommandsInLine
<1> DEFINE more == IF c = "w" THEN <<"sp">> \o m ELSE <<>>
           s == <<c>> \o (<<"sp">> \o (n \o More(c, m, end)))
<1>2. /\ n \in Seq(Chars) /\ end \in Seq(Chars) /\ more \in Seq(Chars)
      /\ <<c>> \in Seq(Chars) /\ <<"sp">> \in Seq(Chars)
  <2>1. n \in Seq(Chars) /\ m \in Seq(Chars) /\ end \in Seq(Chars)
    BY NumbersType, CharTypes
  <2>2. <<c>> \in Seq(Chars) /\ <<"sp">> \in Seq(Chars)
    <3>1. "sp" \in Chars
      BY DEF Chars
    <3> QED
      BY <3>1, CommandsType
  <2> QED
    BY <2>1, <2>2, ConcatType
<1>3. outbox' = s /\ s \in Seq(Chars)
  <2>1. outbox' = <<c, "sp">> \o n \o more \o end
    BY DEF HostCommandsInLine
  <2>2. <<c, "sp">> = <<c>> \o <<"sp">> /\ More(c, m, end) = more \o end
    BY DEF More
  <2> HIDE DEF more
  <2> DEFINE rest == more \o end
  <2>3. rest \in Seq(Chars) /\ n \o rest \in Seq(Chars)
        /\ <<"sp">> \o (n \o rest) \in Seq(Chars)
    BY <1>2, ConcatType
  <2>4. <<c>> \o <<"sp">> \in Seq(Chars) /\ (<<c>> \o <<"sp">>) \o n \in Seq(Chars)
    BY <1>2, ConcatType
  <2>5. <<c>> \o <<"sp">> \o n \o more \o end = (<<c>> \o <<"sp">> \o n) \o rest
    BY <1>2, <2>4, TextAssociates
  <2>6. (<<c>> \o <<"sp">> \o n) \o rest = (<<c>> \o <<"sp">>) \o (n \o rest)
    BY <1>2, <2>3, <2>4, TextAssociates
  <2>7. (<<c>> \o <<"sp">>) \o (n \o rest) = <<c>> \o (<<"sp">> \o (n \o rest))
    BY <1>2, <2>3, TextAssociates
  <2>8. <<c>> \o (<<"sp">> \o (n \o rest)) \in Seq(Chars)
    BY <1>2, <2>3, ConcatType
  <2> QED
    BY <2>1, <2>2, <2>5, <2>6, <2>7, <2>8
<1>4. Pending' = s \/ \E x \in Newlines : Pending' = <<x>> \o s
  <2>1. outbox = <<>> /\ rx' = rx
    BY DEF HostCommandsInLine
  <2> HIDE DEF s
  <2> QED
    BY <1>1, <1>3, <2>1, CharTypes, AddsBehind
<1>5. want' = LineJob(c, n, m) /\ done' = NoJob /\ expects' = "C" /\ prompt' = "none"
      /\ pc' = "command" /\ ~second' /\ (c = "w" => Len(n) = Width)
  BY <1>1 DEF HostCommandsInLine, LineJob, Job
<1>6. CommandInv'
  BY <1>4, <1>5 DEF CommandInv, Ahead
<1>7. DoneInv'
  BY <1>5 DEF DoneInv
<1> QED
  BY <1>5, <1>6, <1>7, NextPlace

LEMMA QuitsJob ==
  ASSUME HostType, DialogueType, DInv, host = "careful",
         NEW end \in CommandEnds, HostQuits(end)
  PROVE  DInv'
<1>1. pc = "command" /\ ~second /\ Ahead(Newlines, <<>>)
  BY PromptPlace DEF HostQuits
<1>2. end \in QuickEnds
  BY DEF CommandEnds, QuickEnds
<1> DEFINE s == <<"q">> \o end
<1>3. s \in Seq(Chars)
  BY <1>2, CharTypes, CommandsType, ConcatType
<1>4. Pending' = s \/ \E x \in Newlines : Pending' = <<x>> \o s
  <2>1. outbox = <<>> /\ outbox' = s /\ rx' = rx
    BY DEF HostQuits
  <2> HIDE DEF s
  <2> QED
    BY <1>1, <1>3, <2>1, CharTypes, AddsBehind
<1>5. expects' = "C" /\ prompt' = "none" /\ pc' = "command" /\ ~second'
      /\ UNCHANGED <<want, done>>
  BY <1>1 DEF HostQuits
<1>6. CommandInv'
  BY <1>2, <1>4, <1>5 DEF CommandInv, Ahead
<1>7. DoneInv'
  BY <1>5 DEF DoneInv, DInv
<1> QED
  BY <1>5, <1>6, <1>7, NextPlace

(* The answer to the prompt for a number. *)
LEMMA AnswerIsRead ==
  ASSUME HostType, Unanswered, outbox = <<>>, NEW n \in Numbers,
         NEW end \in Seq(Chars), outbox' = n \o end, rx' = rx,
         UNCHANGED <<started, buf>>
  PROVE  Reading(n, end)'
<1> DEFINE s == n \o end
<1>1. s \in Seq(Chars) /\ n \in Seq(Chars) /\ n = <<>> \o n
  BY NumbersType, ConcatType, EmptyText
<1>2. buf' = <<>>
  BY DEF Unanswered
<1>3. CASE started
  <2>1. Pending = <<>>
    BY <1>3 DEF Unanswered, Ahead
  <2>2. Pending' = s
    <3> HIDE DEF s
    <3>1. outbox' = s
      BY DEF s
    <3> QED
      BY <1>1, <2>1, <3>1, AddsBehindNone
  <2> QED
    BY <1>1, <1>2, <2>2 DEF Reading
<1>4. CASE ~started
  <2>1. Ahead({"lf"}, <<>>)
    BY <1>4 DEF Unanswered
  <2>2. Pending' = s \/ Pending' = <<"lf">> \o s
    <3> HIDE DEF s
    <3>1. outbox' = s
      BY DEF s
    <3> QED
      BY <1>1, <2>1, <3>1, AddsBehindLf
  <2> QED
    BY <1>1, <1>2, <1>4, <2>2 DEF Reading
<1> QED
  BY <1>3, <1>4

LEMMA EndsCareful ==
  ASSUME host = "careful"
  PROVE  \A n, upload : NumberEnds(n, upload) = CarefulEnds(n, upload)
  BY DEF NumberEnds, CarefulEnds, LineEnds, QuickEnds

LEMMA AddressJob ==
  ASSUME HostType, DialogueType, DInv, host = "careful",
         NEW n \in Numbers, NEW end \in NumberEnds(n, FALSE), HostAddress(n, end)
  PROVE  DInv'
<1>1. pc = "number" /\ ~second /\ ch \in Prompted /\ done = NoJob /\ Unanswered
  BY PromptPlace DEF HostAddress, Answers
<1>2. end \in CarefulEnds(n, FALSE) /\ end \in Seq(Chars)
  BY EndsCareful, CharTypes
<1>3. Reading(n, end)'
  BY <1>1, <1>2, AnswerIsRead DEF HostAddress, Answers, number
<1>4. want = Job(ch, 0, 0, <<>>)
  BY <1>1 DEF Unanswered
<1>5. /\ want' = Job(ch, Spelled(n), 0, <<>>)
      /\ expects' = IF ch = "e" THEN "C" ELSE "L"
      /\ prompt' = "none" /\ UNCHANGED <<pc, ch, second, addr, done>>
  BY <1>4 DEF HostAddress, Answers, Job
<1>6. NumberInv'
  <2>1. Answered'
    BY <1>1, <1>2, <1>3, <1>5 DEF Answered
  <2> QED
    BY <1>1, <1>5, <2>1 DEF NumberInv
<1>7. DoneInv'
  BY <1>1, <1>5 DEF DoneInv
<1> QED
  BY <1>1, <1>5, <1>6, <1>7, NextPlace

LEMMA LengthJob ==
  ASSUME HostType, DialogueType, DInv, host = "careful",
         NEW n \in Numbers, NEW end \in NumberEnds(n, want.cmd = "u"),
         HostLength(n, end)
  PROVE  DInv'
<1>1. pc = "number" /\ second /\ ch \in {"u", "d"} /\ done = NoJob /\ Unanswered
  BY PromptPlace DEF HostLength, Answers
<1>2. want = Job(ch, addr, 0, <<>>) /\ want.cmd = ch
  BY <1>1 DEF Unanswered, Job
<1>3. end \in CarefulEnds(n, ch = "u") /\ end \in Seq(Chars)
  BY <1>2, EndsCareful, CharTypes
<1>4. Reading(n, end)'
  BY <1>1, <1>3, AnswerIsRead DEF HostLength, Answers, number
<1>5. /\ want' = Job(ch, addr, Spelled(n), <<>>)
      /\ expects' = IF ch = "d" THEN "R" ELSE IF Spelled(n) = 0 THEN "C" ELSE "B"
      /\ prompt' = "none" /\ UNCHANGED <<pc, ch, second, addr, done>>
  BY <1>2 DEF HostLength, Answers, Job
<1>6. NumberInv'
  <2>1. Answered'
    BY <1>1, <1>3, <1>4, <1>5 DEF Answered
  <2> QED
    BY <1>1, <1>5, <2>1 DEF NumberInv, Prompted
<1>7. DoneInv'
  BY <1>1, <1>5 DEF DoneInv
<1> QED
  BY <1>1, <1>5, <1>6, <1>7, NextPlace

LEMMA DataSent ==
  ASSUME HostType, RegisterType, DialogueType, DInv, host = "careful",
         NEW data \in [1 .. want.arg -> Bytes], HostData(data)
  PROVE  DInv'
<1>1. /\ pc = "data" /\ ch = "u" /\ done = NoJob /\ stored = <<>> /\ Pending = <<>>
      /\ want = Job("u", addr, len, <<>>)
  BY PromptPlace DEF HostData, Answers
<1>2. addr \in Nat /\ len \in Nat /\ want.addr = addr /\ want.arg = len
  BY <1>1, TopType DEF RegisterType, Job
<1>3. data \in Seq(Chars) /\ Len(data) = len /\ \A i \in 1 .. len : data[i] \in Chars
  <2>1. Bytes \subseteq Chars
    BY DEF Chars
  <2> QED
    BY <1>2, <2>1
<1> DEFINE kept == [i \in 1 .. Len(data) |-> <<(addr + i - 1) % Top, data[i]>>]
<1>4. want' = Job("u", addr, len, kept)
  BY <1>1, <1>2 DEF HostData, Job
<1>5. kept \in Seq(Nat \X Chars) /\ Len(kept) = len
  <2>1. \A i \in 1 .. len : (addr + i - 1) % Top \in Nat
    <3>1. SUFFICES ASSUME NEW i \in 1 .. len PROVE (addr + i - 1) % Top \in Nat
      OBVIOUS
    <3>2. addr + i - 1 \in Nat
      BY <1>2
    <3> QED
      BY <3>2, TopType
  <2>2. \A i \in 1 .. len : kept[i] \in Nat \X Chars
    BY <1>3, <2>1
  <2>3. kept \in [1 .. len -> Nat \X Chars]
    BY <1>3, <2>2
  <2> QED
    BY <1>2, <2>3
<1>6. Pending' = data
  <2>1. outbox = <<>> /\ outbox' = data /\ rx' = rx
    BY DEF HostData, Answers
  <2> QED
    BY <1>1, <1>3, <2>1, AddsBehindNone
<1>7. expects' = "C" /\ prompt' = "none" /\ UNCHANGED <<pc, ch, addr, len, stored, done>>
  BY DEF HostData, Answers
<1>8. DataInv'
  <2>1. \A i \in 1 .. Len(data) : kept[0 + i] = <<(addr + (0 + i) - 1) % Top, data[i]>>
    <3>1. SUFFICES ASSUME NEW i \in 1 .. Len(data)
                   PROVE  kept[0 + i] = <<(addr + (0 + i) - 1) % Top, data[i]>>
      OBVIOUS
    <3>2. 0 + i = i
      OBVIOUS
    <3> QED
      BY <3>2
  <2>2. want'.stored = kept /\ Len(stored') = 0
    BY <1>1, <1>4, <1>7 DEF Job
  <2> HIDE DEF kept
  <2>3. want' = Job("u", addr', len', want'.stored)
    BY <1>4, <1>7, <2>2
  <2>4. Len(want'.stored) = len' /\ want'.stored \in Seq(Nat \X Chars)
    BY <1>5, <1>7, <2>2
  <2>5. Len(stored') + Len(Pending') = len'
    BY <1>2, <1>3, <1>6, <1>7, <2>2
  <2>6. \A i \in 1 .. Len(Pending') :
           want'.stored[Len(stored') + i]
             = <<(addr' + (Len(stored') + i) - 1) % Top, Pending'[i]>>
    BY <1>6, <1>7, <2>1, <2>2
  <2> QED
    BY <1>1, <1>7, <2>2, <2>3, <2>4, <2>5, <2>6 DEF DataInv
<1>9. DoneInv'
  BY <1>1, <1>7 DEF DoneInv
<1> QED
  BY <1>1, <1>7, <1>8, <1>9, NextPlace

LEMMA ReadyJob ==
  ASSUME HostType, DialogueType, DInv, host = "careful", HostReady
  PROVE  DInv'
<1>1. /\ pc = "ready" /\ ch = "d" /\ done = NoJob
      /\ Ahead({"lf"}, <<>>) /\ want = Job("d", addr, len, <<>>)
  BY PromptPlace DEF HostReady, Answers
<1>2. Pending' = <<"r">> \/ Pending' = <<"lf">> \o <<"r">>
  <2>1. outbox = <<>> /\ outbox' = <<"r">> /\ rx' = rx
    BY DEF HostReady, Answers
  <2>2. <<"r">> \in Seq(Chars)
    BY CommandsType DEF InLine
  <2> QED
    BY <1>1, <2>1, <2>2, AddsBehindLf
<1>3. expects' = "C" /\ prompt' = "none" /\ UNCHANGED <<want, pc, ch, addr, len, done>>
  BY DEF HostReady, Answers
<1>4. DumpInv'
  BY <1>1, <1>2, <1>3 DEF DumpInv, Ahead
<1>5. DoneInv'
  BY <1>1, <1>3 DEF DoneInv
<1> QED
  BY <1>1, <1>3, <1>4, <1>5, NextPlace

LEMMA HostJob ==
  ASSUME NInv, DInv, host = "careful", Host
  PROVE  DInv'
<1>t. HostType /\ DialogueType /\ RegisterType
  BY DEF NInv
<1>1. ~\E c \in Free : FreeSend(c)
  BY DEF FreeSend
<1> QED
  BY <1>t, <1>1, SendJob, CommandsJob, InLineJob, QuitsJob, AddressJob, LengthJob,
     DataSent, ReadyJob
  DEF Host, LineEnds

(* The monitor's steps. *)

LEMMA EndsTerminate ==
  /\ \A n : \A end \in LineEnds : Terminated(n, end)
  /\ \A n, upload : \A end \in CarefulEnds(n, upload) : Terminated(n, end)
<1>1. /\ <<>> \in Seq(Chars)
      /\ <<"lf">> = <<"lf">> \o <<>> /\ <<"cr">> = <<"cr">> \o <<>>
  OBVIOUS
<1>2. \A end \in LineEnds : \E x \in Newlines : \E t \in Seq(Chars) : end = <<x>> \o t
  BY <1>1 DEF LineEnds, Newlines
<1> QED
  BY <1>2 DEF Terminated, CarefulEnds

LEMMA MoreTerminates ==
  ASSUME NEW c \in InLine, NEW n \in Numbers, NEW m \in Numbers, NEW end \in LineEnds,
         c = "w" => Len(n) = Width
  PROVE  More(c, m, end) \in Seq(Chars) /\ Terminated(n, More(c, m, end))
<1>1. m \in Seq(Chars) /\ end \in Seq(Chars)
  BY NumbersType, CharTypes
<1>2. CASE c = "w"
  <2>1. <<"sp">> \in Seq(Chars)
    <3>1. "sp" \in Chars
      BY DEF Chars
    <3> QED
      BY <3>1
  <2>2. More(c, m, end) \in Seq(Chars)
    BY <1>1, <1>2, <2>1, ConcatType DEF More
  <2>3. ~(Len(n) < Width)
    BY <1>2, BaseAssumption
  <2> QED
    BY <2>2, <2>3 DEF Terminated
<1>3. CASE c # "w"
  <2>1. More(c, m, end) = end
    BY <1>1, <1>3, EmptyText DEF More
  <2> QED
    BY <1>1, <2>1, EndsTerminate
<1> QED
  BY <1>2, <1>3

(* At most the end of the line is left of a number that was answered.      *)
LEMMA AfterCareful ==
  ASSUME NInv, buf # <<>> => started, NEW n \in Numbers, NEW upload \in BOOLEAN,
         NEW end \in CarefulEnds(n, upload), Reading(n, end),
         NEW c \in Chars, Takes(c), outbox' = outbox, NumberIsOver(c)
  PROVE  /\ uart_get_u32(c) = Spelled(n)
         /\ Pending' = <<>> \/ (~upload /\ Pending' = <<"lf">> \o <<>>)
<1>1. end \in Seq(Chars) /\ Len(n) \in Nat /\ Width \in Nat
  BY CharTypes, NumbersType, BaseAssumption
<1>e. <<>> \in Seq(Chars)
  OBVIOUS
<1>2. end \in LineEnds => \E x \in Newlines : end = <<x>> \o <<>>
  <2>1. <<"lf">> = <<"lf">> \o <<>> /\ <<"cr">> = <<"cr">> \o <<>>
    OBVIOUS
  <2> QED
    BY <2>1 DEF LineEnds, Newlines
<1>3. Terminated(n, end)
  BY <1>e, <1>2 DEF Terminated, CarefulEnds
<1>4. /\ uart_get_u32(c) = Spelled(n) /\ Pending' \in Seq(Chars)
      /\ IF Len(n) < Width THEN end = <<c>> \o Pending' ELSE Pending' = end
  BY <1>1, <1>3, ReadingIsOver
<1>5. CASE Len(n) < Width
  <2>1. end \in LineEnds
    BY <1>5 DEF CarefulEnds
  <2>2. PICK x \in Newlines : end = <<x>> \o <<>>
    BY <1>2, <2>1
  <2>3. <<c>> \o Pending' = <<x>> \o <<>>
    BY <1>4, <1>5, <2>2
  <2>4. Pending' \in Seq(Chars)
    BY <1>4
  <2>5. Pending' = <<>>
    BY <1>e, <2>3, <2>4, FirstOfText, Zenon
  <2> QED
    BY <1>4, <2>5
<1>6. CASE ~(Len(n) < Width)
  <2>1. <<"lf">> = <<"lf">> \o <<>>
    OBVIOUS
  <2> QED
    BY <1>4, <1>6, <2>1 DEF CarefulEnds, QuickEnds
<1> QED
  BY <1>5, <1>6

LEMMA AfterLine ==
  ASSUME NInv, buf # <<>> => started, NEW n \in Numbers,
         NEW end \in LineEnds, Reading(n, end),
         NEW c \in Chars, Takes(c), outbox' = outbox, NumberIsOver(c)
  PROVE  /\ uart_get_u32(c) = Spelled(n)
         /\ Pending' = <<>> \/ \E x \in Newlines : Pending' = <<x>> \o <<>>
<1>1. end \in Seq(Chars) /\ Len(n) \in Nat /\ Width \in Nat
  BY CharTypes, NumbersType, BaseAssumption
<1>2. PICK x \in Newlines : end = <<x>> \o <<>>
  <2>1. <<"lf">> = <<"lf">> \o <<>> /\ <<"cr">> = <<"cr">> \o <<>>
    OBVIOUS
  <2> QED
    BY <2>1 DEF LineEnds, Newlines
<1>3. <<>> \in Seq(Chars)
  OBVIOUS
<1>4. Terminated(n, end)
  BY <1>2, <1>3 DEF Terminated
<1>5. /\ uart_get_u32(c) = Spelled(n) /\ Pending' \in Seq(Chars)
      /\ IF Len(n) < Width THEN end = <<c>> \o Pending' ELSE Pending' = end
  BY <1>1, <1>4, ReadingIsOver
<1>6. CASE Len(n) < Width
  <2>1. <<c>> \o Pending' = <<x>> \o <<>>
    BY <1>2, <1>5, <1>6
  <2>2. Pending' = <<>>
    BY <1>3, <1>5, <2>1, FirstOfText
  <2> QED
    BY <1>5, <2>2
<1>7. CASE ~(Len(n) < Width)
  BY <1>2, <1>5, <1>7
<1> QED
  BY <1>6, <1>7

(* An operation that is carried out as it was asked for, with nothing but  *)
(* ends of lines behind it.                                                *)
LEMMA CarriedJob ==
  ASSUME NEW a, NEW n, NEW data, Carried(a, n, data),
         host = "careful", want = Job(ch, a, n, data), expects = "C",
         UNCHANGED hostVars,
         Pending' = <<>> \/ \E x \in Newlines : Pending' = <<x>> \o <<>>
  PROVE  DInv'
<1>1. /\ pc' = "command" /\ prompt' = "C" /\ ~second' /\ expects' = "C" /\ want' = want
      /\ done' = [cmd |-> ch, addr |-> a, arg |-> n, stored |-> data]
  BY DEF Carried, hostVars
<1>2. DoneInv'
  BY <1>1 DEF DoneInv, Job
<1>3. CommandInv'
  BY <1>1 DEF CommandInv, Ahead
<1> QED
  BY <1>1, <1>2, <1>3, NextPlace

LEMMA CommandJob ==
  ASSUME HostType, DInv, host = "careful", NEW c \in Chars, Command(c)
  PROVE  DInv'
<1>1. /\ pc = "command" /\ Takes(c) /\ outbox' = outbox /\ ~second /\ ~second'
      /\ UNCHANGED <<host, expects, want, prompt, done, addr>>
  BY DEF Command, hostVars, DInv, CommandInv
<1>2. DoneInv'
  BY <1>1 DEF DoneInv, DInv
<1>3. c \in Newlines => pc' = "command"
  BY <1>1 DEF Command, Newlines, Prompted, InLine
<1>4. CASE prompt = "C" /\ expects = "C" /\ Ahead(Newlines, <<>>)
  <2>1. c \in Newlines /\ Pending' = <<>>
    <3>1. <<>> \in Seq(Chars)
      OBVIOUS
    <3>2. Pending' \in Seq(Chars)
      BY <1>1, TakesFirst
    <3>3. <<c>> \o Pending' # <<>>
      BY <3>2, ConsText
    <3> QED
      BY <1>1, <1>4, <3>1, <3>3, TakesAhead
  <2>2. CommandInv'
    BY <1>1, <1>4, <2>1 DEF CommandInv, Ahead
  <2> QED
    BY <1>2, <1>3, <2>1, <2>2, NextPlace
<1>5. ASSUME prompt = "none", expects = "C", NEW end \in QuickEnds,
             Ahead(Newlines, <<"q">> \o end)
      PROVE  DInv'
  <2>1. end \in Seq(Chars) /\ <<"q">> \o end \in Seq(Chars)
    BY CharTypes, CommandsType, ConcatType
  <2>2. CASE c \in Newlines /\ Pending' = <<"q">> \o end
    <3>1. CommandInv'
      BY <1>1, <1>5, <2>2 DEF CommandInv, Ahead
    <3> QED
      BY <1>2, <1>3, <2>2, <3>1, NextPlace
  <2>3. CASE Pending = <<"q">> \o end
    <3>1. c = "q"
      BY <1>1, <2>1, <2>3, TakesOfPending
    <3>2. pc' = "left"
      BY <3>1 DEF Command, Prompted, InLine
    <3>3. AwayInv'
      BY <1>1, <1>5, <3>2 DEF AwayInv
    <3> QED
      BY <1>2, <3>2, <3>3, NextPlace
  <2> QED
    BY <1>1, <1>5, <2>1, <2>2, <2>3, TakesAhead
<1>6. ASSUME prompt = "none", expects = "A", done = NoJob,
             NEW d \in Prompted, NEW end \in QuickEnds,
             want = Job(d, 0, 0, <<>>), Ahead(Newlines, <<d>> \o end)
      PROVE  DInv'
  <2>1. end \in Seq(Chars) /\ <<d>> \o end \in Seq(Chars)
    BY CharTypes, CommandsType, ConcatType
  <2>2. CASE c \in Newlines /\ Pending' = <<d>> \o end
    <3>1. CommandInv'
      BY <1>1, <1>6, <2>2 DEF CommandInv, Ahead
    <3> QED
      BY <1>2, <1>3, <2>2, <3>1, NextPlace
  <2>3. CASE Pending = <<d>> \o end
    <3>1. c = d /\ Pending' = end
      BY <1>1, <2>1, <2>3, TakesOfPending
    <3>2. pc' = "flush" /\ ch' = d /\ ch' # NoChar
      BY <3>1 DEF Command, Prompted, InLine, NoChar
    <3>3. Pending' = <<>> \/ Pending' = <<"lf">> \o <<>>
      <4>1. <<"lf">> = <<"lf">> \o <<>>
        OBVIOUS
      <4> QED
        BY <3>1, <4>1 DEF QuickEnds
    <3>4. AwayInv' /\ FlushInv'
      BY <1>1, <1>6, <3>2, <3>3 DEF AwayInv, FlushInv, Ahead
    <3> QED
      BY <1>2, <3>2, <3>4, NextPlace
  <2> QED
    BY <1>1, <1>6, <2>1, <2>2, <2>3, TakesAhead
<1>7. ASSUME prompt = "none", expects = "C", done = NoJob,
             NEW d \in InLine, NEW n \in Numbers, NEW m \in Numbers, NEW end \in LineEnds,
             d = "w" => Len(n) = Width, want = LineJob(d, n, m),
             Ahead(Newlines, <<d>> \o (<<"sp">> \o (n \o More(d, m, end))))
      PROVE  DInv'
  <2> DEFINE s == <<"sp">> \o (n \o More(d, m, end))
  <2>1. s \in Seq(Chars) /\ <<d>> \o s \in Seq(Chars)
    <3>1. /\ n \in Seq(Chars) /\ m \in Seq(Chars) /\ end \in Seq(Chars)
          /\ <<"sp">> \in Seq(Chars) /\ <<d>> \in Seq(Chars)
      <4>1. "sp" \in Chars
        BY DEF Chars
      <4> QED
        BY <4>1, NumbersType, CharTypes, CommandsType
    <3>2. More(d, m, end) \in Seq(Chars)
      BY <3>1, ConcatType DEF More
    <3>3. s \in Seq(Chars)
      BY <3>1, <3>2, ConcatType
    <3> QED
      BY <3>1, <3>3, ConcatType
  <2>2. CASE c \in Newlines /\ Pending' = <<d>> \o s
    <3>1. CommandInv'
      BY <1>1, <1>7, <2>2 DEF CommandInv, Ahead
    <3> QED
      BY <1>2, <1>3, <2>2, <3>1, NextPlace
  <2>3. CASE Pending = <<d>> \o s
    <3>1. c = d /\ Pending' = s
      <4> HIDE DEF s
      <4> QED
        BY <1>1, <2>1, <2>3, TakesOfPending
    <3>2. pc' = "number" /\ ch' = d /\ buf' = <<>>
      BY <3>1 DEF Command, Prompted, InLine, GetNumber
    <3>3. Reading(n, More(d, m, end))'
      BY <3>1, <3>2 DEF Reading
    <3>4. Listed'
      BY <1>1, <1>7, <3>2, <3>3 DEF Listed
    <3>5. NumberInv'
      BY <1>1, <1>7, <3>2, <3>4 DEF NumberInv
    <3> QED
      BY <1>2, <3>2, <3>5, NextPlace
  <2> QED
    <3> HIDE DEF s
    <3>1. Ahead(Newlines, <<d>> \o s)
      BY <1>7 DEF s
    <3> QED
      BY <1>1, <2>1, <2>2, <2>3, <3>1, TakesAhead
<1> QED
  BY <1>1, <1>4, <1>5, <1>6, <1>7 DEF DInv, CommandInv

(* A number goes on. *)
LEMMA GoesOnJob ==
  ASSUME NInv, JInv, host = "careful",
         NEW c \in Chars, Number(c), ~NumberIsOver(c)
  PROVE  DInv'
<1>1. /\ pc = "number" /\ Takes(c) /\ outbox' = outbox /\ NumberGoesOn(c)
      /\ UNCHANGED <<host, expects, want, ch, pc, second, prompt, addr, len, stored, done>>
  BY DEF Number, NumberGoesOn, hostVars
<1>2. (buf # <<>> => started) /\ HostType /\ NumberInv /\ DoneInv
  BY DEF JInv, NInv, DInv
<1>3. ASSUME ch \in Prompted, second => ch # "e", Unanswered PROVE NumberInv'
  <2>1. Pending # <<>>
    BY <1>1, <1>2, NothingToTake
  <2>2. ~started /\ Pending = <<"lf">> \o <<>>
    BY <1>3, <2>1 DEF Unanswered, Ahead
  <2>3. c = "lf" /\ Pending' = <<>>
    <3>1. <<>> \in Seq(Chars)
      OBVIOUS
    <3> QED
      BY <1>1, <1>2, <2>2, <3>1, TakesOfPending
  <2>4. buf' = <<>>
    BY <1>1, <1>3, <2>2, <2>3 DEF NumberGoesOn, Skipped, Unanswered
  <2>5. Unanswered'
    BY <1>1, <1>3, <2>3, <2>4 DEF Unanswered, Ahead
  <2> QED
    BY <1>1, <1>2, <1>3, <2>5 DEF NumberInv
<1>4. ASSUME ch \in Prompted, second => ch # "e", Answered PROVE NumberInv'
  <2>1. PICK n \in Numbers : \E end \in CarefulEnds(n, second /\ ch = "u") :
          /\ Reading(n, end)
          /\ IF second
               THEN /\ want = Job(ch, addr, Spelled(n), <<>>)
                    /\ expects = IF ch = "d" THEN "R" ELSE IF Spelled(n) = 0 THEN "C" ELSE "B"
               ELSE /\ want = Job(ch, Spelled(n), 0, <<>>)
                    /\ expects = IF ch = "e" THEN "C" ELSE "L"
    BY <1>4 DEF Answered
  <2>2. PICK end \in CarefulEnds(n, second /\ ch = "u") :
          /\ Reading(n, end)
          /\ IF second
               THEN /\ want = Job(ch, addr, Spelled(n), <<>>)
                    /\ expects = IF ch = "d" THEN "R" ELSE IF Spelled(n) = 0 THEN "C" ELSE "B"
               ELSE /\ want = Job(ch, Spelled(n), 0, <<>>)
                    /\ expects = IF ch = "e" THEN "C" ELSE "L"
    BY <2>1
  <2>3. end \in Seq(Chars) /\ Terminated(n, end)
    BY CharTypes, EndsTerminate
  <2>4. Reading(n, end)'
    BY <1>1, <1>2, <2>2, <2>3, ReadingGoesOn
  <2>5. Answered'
    BY <1>1, <1>4, <2>2, <2>4 DEF Answered
  <2> QED
    BY <1>1, <1>2, <1>4, <2>5 DEF NumberInv
<1>5. ASSUME ch \in InLine, Listed, second PROVE NumberInv'
  <2>1. PICK m \in Numbers, end \in LineEnds :
          /\ ch = "w" /\ want = Job(ch, addr, Spelled(m), << <<addr, Spelled(m)>> >>)
          /\ Reading(m, end)
    BY <1>5 DEF Listed
  <2>2. end \in Seq(Chars) /\ Terminated(m, end)
    BY CharTypes, EndsTerminate
  <2>3. Reading(m, end)'
    BY <1>1, <1>2, <2>1, <2>2, ReadingGoesOn
  <2>4. Listed'
    BY <1>1, <1>5, <2>1, <2>3 DEF Listed
  <2> QED
    BY <1>1, <1>2, <1>5, <2>4 DEF NumberInv
<1>6. ASSUME ch \in InLine, Listed, ~second PROVE NumberInv'
  <2>1. PICK n \in Numbers, m \in Numbers, end \in LineEnds :
          /\ ch = "w" => Len(n) = Width
          /\ want = LineJob(ch, n, m) /\ Reading(n, More(ch, m, end))
    BY <1>6 DEF Listed
  <2> DEFINE tail == More(ch, m, end)
  <2>2. tail \in Seq(Chars) /\ Terminated(n, tail)
    BY <1>6, <2>1, MoreTerminates
  <2>3. Reading(n, tail)'
    <3> DEFINE t == tail
    <3> HIDE DEF tail
    <3> QED
      BY <1>1, <1>2, <2>1, <2>2, ReadingGoesOn DEF tail
  <2>4. Reading(n, More(ch, m, end))'
    BY <1>1, <2>3
  <2>5. Listed'
    BY <1>1, <1>6, <2>1, <2>4 DEF Listed
  <2> QED
    BY <1>1, <1>2, <1>6, <2>5 DEF NumberInv
<1>7. NumberInv'
  BY <1>1, <1>2, <1>3, <1>4, <1>5, <1>6 DEF NumberInv
<1> QED
  BY <1>1, <1>2, <1>7, NextPlace DEF DoneInv

(* A number ends only when it was answered. *)
LEMMA OverIsAnswered ==
  ASSUME HostType, NEW c \in Chars, Takes(c), outbox' = outbox, NumberIsOver(c)
  PROVE  ~Unanswered
<1> SUFFICES ASSUME Unanswered PROVE FALSE
  OBVIOUS
<1>1. Pending # <<>>
  BY NothingToTake
<1>2. ~started /\ Pending = <<"lf">> \o <<>>
  BY <1>1 DEF Unanswered, Ahead
<1>3. <<>> \in Seq(Chars)
  OBVIOUS
<1>4. c = "lf"
  BY <1>2, <1>3, TakesOfPending
<1> QED
  BY <1>2, <1>4 DEF NumberIsOver, Skipped

(* The address that was prompted for is over. *)
LEMMA AddressOverJob ==
  ASSUME NInv, JInv, host = "careful", NEW c \in Chars, Number(c), NumberIsOver(c),
         ch \in Prompted, ~second
  PROVE  DInv'
<1>1. /\ pc = "number" /\ Takes(c) /\ outbox' = outbox /\ FirstNumber(uart_get_u32(c))
      /\ UNCHANGED <<host, expects, want>>
  BY DEF Number, hostVars
<1>2. (buf # <<>> => started) /\ HostType /\ NumberInv /\ DoneInv
  BY DEF JInv, NInv, DInv
<1>3. done = NoJob /\ Answered
  BY <1>1, <1>2, OverIsAnswered DEF NumberInv, Prompted, InLine
<1>4. PICK n \in Numbers : \E end \in CarefulEnds(n, FALSE) :
        /\ Reading(n, end)
        /\ want = Job(ch, Spelled(n), 0, <<>>)
        /\ expects = IF ch = "e" THEN "C" ELSE "L"
  BY <1>3 DEF Answered
<1>5. PICK end \in CarefulEnds(n, FALSE) :
        /\ Reading(n, end)
        /\ want = Job(ch, Spelled(n), 0, <<>>)
        /\ expects = IF ch = "e" THEN "C" ELSE "L"
  BY <1>4
<1>6. /\ uart_get_u32(c) = Spelled(n)
      /\ Pending' = <<>> \/ Pending' = <<"lf">> \o <<>>
  BY <1>1, <1>2, <1>5, AfterCareful
<1>7. prompt = "none"
  BY <1>3 DEF Answered
<1>8. CASE ch \in {"u", "d"}
  <2>1. /\ pc' = "flush" /\ addr' = Spelled(n) /\ second' = TRUE
        /\ UNCHANGED <<prompt, ch, done>>
    BY <1>1, <1>6, <1>8 DEF FirstNumber
  <2>2. ch # NoChar
    BY <1>8 DEF NoChar
  <2>3. FlushInv'
    BY <1>1, <1>3, <1>5, <1>6, <1>7, <1>8, <2>1 DEF FlushInv, Ahead
  <2>4. AwayInv'
    BY <2>1, <2>2 DEF AwayInv
  <2>5. DoneInv'
    BY <1>3, <2>1 DEF DoneInv
  <2> QED
    BY <2>1, <2>3, <2>4, <2>5, NextPlace
<1>9. CASE ch = "e"
  <2>1. pc' = "run" /\ addr' = Spelled(n) /\ UNCHANGED <<prompt, ch, done>>
    BY <1>1, <1>6, <1>9 DEF FirstNumber
  <2>2. RunInv'
    BY <1>1, <1>3, <1>5, <1>6, <1>7, <1>9, <2>1 DEF RunInv, Ahead
  <2>3. DoneInv'
    BY <1>3, <2>1 DEF DoneInv
  <2> QED
    BY <2>1, <2>2, <2>3, NextPlace
<1> QED
  BY <1>8, <1>9 DEF Prompted

(* The length that was prompted for is over. *)
LEMMA LengthOverJob ==
  ASSUME NInv, JInv, host = "careful", NEW c \in Chars, Number(c), NumberIsOver(c),
         ch \in Prompted, second
  PROVE  DInv'
<1>1. /\ pc = "number" /\ Takes(c) /\ outbox' = outbox /\ SecondNumber(uart_get_u32(c))
      /\ UNCHANGED hostVars
  BY DEF Number, hostVars
<1>2. (buf # <<>> => started) /\ HostType /\ NumberInv /\ DoneInv
  BY DEF JInv, NInv, DInv
<1>3. done = NoJob /\ Answered /\ ch \in {"u", "d"}
  BY <1>1, <1>2, OverIsAnswered DEF NumberInv, Prompted, InLine
<1>4. PICK n \in Numbers : \E end \in CarefulEnds(n, ch = "u") :
        /\ Reading(n, end)
        /\ want = Job(ch, addr, Spelled(n), <<>>)
        /\ expects = IF ch = "d" THEN "R" ELSE IF Spelled(n) = 0 THEN "C" ELSE "B"
  BY <1>3 DEF Answered
<1>5. PICK end \in CarefulEnds(n, ch = "u") :
        /\ Reading(n, end)
        /\ want = Job(ch, addr, Spelled(n), <<>>)
        /\ expects = IF ch = "d" THEN "R" ELSE IF Spelled(n) = 0 THEN "C" ELSE "B"
  BY <1>4
<1>6. /\ uart_get_u32(c) = Spelled(n)
      /\ Pending' = <<>> \/ (ch # "u" /\ Pending' = <<"lf">> \o <<>>)
  <2> DEFINE upload == ch = "u"
  <2>1. upload \in BOOLEAN /\ end \in CarefulEnds(n, upload) /\ Reading(n, end)
    BY <1>5
  <2> HIDE DEF upload
  <2>2. /\ uart_get_u32(c) = Spelled(n)
        /\ Pending' = <<>> \/ (~upload /\ Pending' = <<"lf">> \o <<>>)
    BY <1>1, <1>2, <2>1, AfterCareful
  <2> QED
    BY <2>2 DEF upload
<1>7. prompt = "none"
  BY <1>3 DEF Answered
<1>8. CASE ch = "u" /\ Spelled(n) = 0
  <2>1. Carried(addr, 0, <<>>)
    BY <1>1, <1>6, <1>8 DEF SecondNumber
  <2>2. want = Job(ch, addr, 0, <<>>) /\ expects = "C"
    BY <1>5, <1>8
  <2> QED
    BY <1>1, <1>6, <1>8, <2>1, <2>2, CarriedJob
<1>9. CASE ch = "u" /\ Spelled(n) # 0
  <2>1. /\ pc' = "data" /\ prompt' = "B" /\ len' = Spelled(n)
        /\ UNCHANGED <<ch, addr, stored, done, expects, want>>
    BY <1>1, <1>6, <1>9 DEF SecondNumber, hostVars
  <2>2. stored = <<>>
    BY <1>1 DEF NInv, RegisterType
  <2>3. Pending' = <<>> /\ expects = "B" /\ want = Job("u", addr, Spelled(n), <<>>)
    BY <1>5, <1>6, <1>9
  <2>4. DataInv'
    BY <1>3, <1>9, <2>1, <2>2, <2>3 DEF DataInv
  <2>5. DoneInv'
    BY <1>3, <2>1 DEF DoneInv
  <2> QED
    BY <2>1, <2>4, <2>5, NextPlace
<1>10. CASE ch = "d"
  <2>1. /\ pc' = "ready" /\ prompt' = "R" /\ len' = Spelled(n)
        /\ UNCHANGED <<ch, addr, stored, done, expects, want>>
    BY <1>1, <1>6, <1>10 DEF SecondNumber, hostVars
  <2>2. DumpInv'
    BY <1>3, <1>5, <1>6, <1>10, <2>1 DEF DumpInv, Ahead
  <2>3. DoneInv'
    BY <1>3, <2>1 DEF DoneInv
  <2> QED
    BY <2>1, <2>2, <2>3, NextPlace
<1> QED
  BY <1>3, <1>8, <1>9, <1>10

(* A number of a command line is over. *)
LEMMA LineOverJob ==
  ASSUME NInv, JInv, host = "careful", NEW c \in Chars, Number(c), NumberIsOver(c),
         ch \in InLine
  PROVE  DInv'
<1>1. /\ pc = "number" /\ Takes(c) /\ outbox' = outbox /\ GetNumber
      /\ IF second THEN SecondNumber(uart_get_u32(c)) ELSE FirstNumber(uart_get_u32(c))
      /\ UNCHANGED hostVars
  BY DEF Number, hostVars
<1>2. (buf # <<>> => started) /\ HostType /\ NumberInv /\ DoneInv
  BY DEF JInv, NInv, DInv
<1>3. done = NoJob /\ Listed /\ prompt = "none" /\ expects = "C" /\ ch \in {"w", "r"}
  BY <1>1, <1>2 DEF NumberInv, Prompted, InLine, Listed
<1>4. CASE second
  <2>1. PICK m \in Numbers, end \in LineEnds :
          /\ ch = "w" /\ want = Job(ch, addr, Spelled(m), << <<addr, Spelled(m)>> >>)
          /\ Reading(m, end)
    BY <1>3, <1>4 DEF Listed
  <2>2. /\ uart_get_u32(c) = Spelled(m)
        /\ Pending' = <<>> \/ \E x \in Newlines : Pending' = <<x>> \o <<>>
    BY <1>1, <1>2, <2>1, AfterLine
  <2>3. Carried(addr, Spelled(m), << <<addr, Spelled(m)>> >>)
    BY <1>1, <1>4, <2>1, <2>2 DEF SecondNumber
  <2> QED
    BY <1>1, <1>3, <2>1, <2>2, <2>3, CarriedJob
<1>5. CASE ~second
  <2>1. PICK n \in Numbers, m \in Numbers, end \in LineEnds :
          /\ ch = "w" => Len(n) = Width
          /\ want = LineJob(ch, n, m)
          /\ Reading(n, More(ch, m, end))
    BY <1>3, <1>5 DEF Listed
  <2>2. /\ m \in Seq(Chars) /\ end \in Seq(Chars) /\ <<"sp">> \in Seq(Chars)
        /\ Len(n) \in Nat /\ Width \in Nat
    <3>1. "sp" \in Chars
      BY DEF Chars
    <3> QED
      BY <3>1, NumbersType, CharTypes, BaseAssumption
  <2>3. CASE ch = "r"
    <3>1. More(ch, m, end) = end
      BY <2>2, <2>3, EmptyText DEF More
    <3>2. Reading(n, end)
      BY <2>1, <3>1
    <3>3. /\ uart_get_u32(c) = Spelled(n)
          /\ Pending' = <<>> \/ \E x \in Newlines : Pending' = <<x>> \o <<>>
      BY <1>1, <1>2, <3>2, AfterLine
    <3>4. Carried(Spelled(n), 0, <<>>)
      BY <1>1, <1>5, <2>3, <3>3 DEF FirstNumber
    <3>5. want = Job(ch, Spelled(n), 0, <<>>)
      BY <2>1, <2>3 DEF LineJob
    <3> QED
      BY <1>1, <1>3, <3>3, <3>4, <3>5, CarriedJob
  <2>4. CASE ch = "w"
    <3> DEFINE tail == More(ch, m, end)
    <3>1. tail \in Seq(Chars) /\ Terminated(n, tail) /\ Reading(n, tail) /\ ~(Len(n) < Width)
      BY <1>3, <2>1, <2>2, <2>4, MoreTerminates DEF InLine
    <3>2. tail = <<"sp">> \o (m \o end)
      <4>1. tail = (<<"sp">> \o m) \o end
        BY <2>4 DEF More
      <4> HIDE DEF tail
      <4> QED
        BY <2>2, <4>1, TextAssociates
    <3>3. uart_get_u32(c) = Spelled(n) /\ Pending' = <<"sp">> \o (m \o end)
      <4> HIDE DEF tail
      <4>1. uart_get_u32(c) = Spelled(n) /\ Pending' = tail
        BY <1>1, <1>2, <3>1, ReadingIsOver
      <4> QED
        BY <3>2, <4>1
    <3>4. /\ pc' = "number" /\ addr' = Spelled(n) /\ second' = TRUE /\ buf' = <<>>
          /\ UNCHANGED <<prompt, ch, done, expects, want>>
      BY <1>1, <1>5, <2>4, <3>3 DEF FirstNumber, GetNumber, hostVars
    <3>5. Reading(m, end)'
      BY <3>3, <3>4 DEF Reading
    <3>6. want' = Job(ch', addr', Spelled(m), << <<addr', Spelled(m)>> >>)
      BY <2>1, <2>4, <3>4 DEF LineJob
    <3>7. Listed'
      BY <1>3, <2>4, <3>4, <3>5, <3>6 DEF Listed
    <3>8. NumberInv' /\ DoneInv'
      BY <1>3, <2>4, <3>4, <3>7 DEF NumberInv, DoneInv, InLine
    <3> QED
      BY <3>4, <3>8, NextPlace
  <2> QED
    BY <1>3, <2>3, <2>4
<1> QED
  BY <1>4, <1>5

LEMMA NumberJob ==
  ASSUME NInv, JInv, host = "careful", NEW c \in Chars, Number(c)
  PROVE  DInv'
<1>1. ch \in Prompted \/ ch \in InLine
  BY DEF Number, JInv, DInv, NumberInv
<1> QED
  BY <1>1, GoesOnJob, AddressOverJob, LengthOverJob, LineOverJob

(* A byte of an upload is stored. *)
LEMMA DataJob ==
  ASSUME NInv, JInv, host = "careful", NEW c \in Chars, Data(c)
  PROVE  DInv'
<1> DEFINE entry == <<(addr + Len(stored)) % Top, c>>
           all == Append(stored, entry)
<1>1. /\ pc = "data" /\ Takes(c) /\ outbox' = outbox /\ UNCHANGED hostVars
      /\ IF Len(all) = len
           THEN Carried(addr, len, all)
           ELSE stored' = all /\ UNCHANGED <<pc, prompt, ch, second, addr, len, done>>
  BY DEF Data, hostVars
<1>2. HostType /\ DataInv /\ stored \in Seq(Nat \X Chars) /\ addr \in Nat /\ len \in Nat
  BY TopType DEF JInv, NInv, DInv, RegisterType
<1>3. Pending # <<>>
  BY <1>1, <1>2, NothingToTake
<1>4. /\ done = NoJob /\ ch = "u" /\ prompt = "none" /\ expects = "C"
      /\ want = Job("u", addr, len, want.stored)
      /\ Len(want.stored) = len /\ want.stored \in Seq(Nat \X Chars)
      /\ Len(stored) + Len(Pending) = len
      /\ \A i \in 1 .. Len(stored) : stored[i] = want.stored[i]
      /\ \A i \in 1 .. Len(Pending) :
           want.stored[Len(stored) + i]
             = <<(addr + (Len(stored) + i) - 1) % Top, Pending[i]>>
  BY <1>1, <1>2, <1>3 DEF DataInv
<1>5. Pending' \in Seq(Chars) /\ Pending = <<c>> \o Pending'
  BY <1>1, <1>2, TakesFirst
<1>6. /\ Len(Pending) = Len(Pending') + 1 /\ Pending[1] = c
      /\ \A i \in 1 .. Len(Pending') : Pending[i + 1] = Pending'[i]
  BY <1>5
<1>7. /\ Len(all) = Len(stored) + 1 /\ all[Len(stored) + 1] = entry
      /\ \A i \in 1 .. Len(stored) : all[i] = stored[i]
  BY <1>2
<1>8. want.stored[Len(stored) + 1] = entry
  <2>1. 1 \in 1 .. Len(Pending)
    BY <1>5, <1>6
  <2>2. addr + (Len(stored) + 1) - 1 = addr + Len(stored)
    BY <1>2
  <2> QED
    BY <1>4, <1>6, <2>1, <2>2
<1>9. \A i \in 1 .. Len(all) : all[i] = want.stored[i]
  <2> SUFFICES ASSUME NEW i \in 1 .. Len(all) PROVE all[i] = want.stored[i]
    OBVIOUS
  <2> HIDE DEF entry, all
  <2>1. Len(stored) \in Nat
    BY <1>2
  <2>2. i \in 1 .. Len(stored) \/ i = Len(stored) + 1
    BY <1>7, <2>1
  <2>3. \A k \in 1 .. Len(stored) : stored[k] = want.stored[k]
    BY <1>4
  <2> QED
    BY <1>7, <1>8, <2>2, <2>3
<1>10. CASE Len(all) = len
  <2>1. all = want.stored
    <3> DEFINE P == Nat \X Chars
    <3>1. entry \in P
      BY <1>2, TopType
    <3>2. stored \in Seq(P) /\ want.stored \in Seq(P)
      BY <1>2, <1>4
    <3> HIDE DEF P, entry
    <3>3. all \in Seq(P)
      BY <3>1, <3>2
    <3> HIDE DEF all
    <3> QED
      BY <1>4, <1>9, <1>10, <3>2, <3>3
  <2>2. Pending' = <<>>
    BY <1>2, <1>4, <1>5, <1>6, <1>7, <1>10
  <2>3. Carried(addr, len, want.stored)
    BY <1>1, <1>10, <2>1
  <2> QED
    BY <1>1, <1>4, <2>2, <2>3, CarriedJob
<1>11. CASE Len(all) # len
  <2>1. stored' = all /\ UNCHANGED <<pc, prompt, ch, second, addr, len, done, expects, want>>
    BY <1>1, <1>11 DEF hostVars
  <2>2. Len(stored') + Len(Pending') = len
    BY <1>2, <1>4, <1>5, <1>6, <1>7, <2>1
  <2>3. \A i \in 1 .. Len(Pending') :
           want.stored[Len(stored') + i]
             = <<(addr + (Len(stored') + i) - 1) % Top, Pending'[i]>>
    <3> SUFFICES ASSUME NEW i \in 1 .. Len(Pending')
                 PROVE  want.stored[Len(stored') + i]
                          = <<(addr + (Len(stored') + i) - 1) % Top, Pending'[i]>>
      OBVIOUS
    <3>1. i + 1 \in 1 .. Len(Pending) /\ Pending[i + 1] = Pending'[i]
      BY <1>5, <1>6
    <3>2. Len(stored') + i = Len(stored) + (i + 1)
      BY <1>2, <1>5, <1>7, <2>1
    <3> QED
      BY <1>4, <3>1, <3>2
  <2>4. DataInv'
    BY <1>1, <1>4, <1>9, <2>1, <2>2, <2>3 DEF DataInv
  <2>5. DoneInv'
    BY <1>4, <2>1 DEF DoneInv
  <2> QED
    BY <1>1, <2>1, <2>4, <2>5, NextPlace
<1> QED
  BY <1>10, <1>11

(* The host's r starts a dump. *)
LEMMA ReadyReadJob ==
  ASSUME HostType, DInv, NEW c \in Chars, Ready(c)
  PROVE  DInv'
<1>1. /\ pc = "ready" /\ Takes(c) /\ outbox' = outbox
      /\ pc' = (IF c = "r" THEN "dump" ELSE "ready")
      /\ UNCHANGED <<expects, want, prompt, ch, addr, len, done>>
  BY DEF Ready, hostVars
<1>2. done = NoJob /\ ch = "d" /\ want = Job("d", addr, len, <<>>)
  BY <1>1 DEF DInv, DumpInv
<1>3. <<>> \in Seq(Chars) /\ <<"r">> \in Seq(Chars) /\ <<"r">> = <<"r">> \o <<>>
  <2>1. "r" \in Chars
    BY DEF Chars, InLine
  <2> QED
    BY <2>1
<1>4. CASE prompt = "R" /\ expects = "R" /\ Ahead({"lf"}, <<>>)
  <2>1. Pending # <<>>
    BY <1>1, NothingToTake
  <2>2. c = "lf" /\ Pending' = <<>>
    BY <1>1, <1>3, <1>4, <2>1, TakesAhead
  <2> QED
    BY <1>1, <1>2, <1>4, <2>2, NextPlace DEF DumpInv, DoneInv, Ahead
<1>5. CASE prompt = "none" /\ expects = "C" /\ Ahead({"lf"}, <<"r">>)
  <2>1. CASE c = "lf" /\ Pending' = <<"r">>
    BY <1>1, <1>2, <1>5, <2>1, NextPlace DEF DumpInv, DoneInv, Ahead
  <2>2. CASE Pending = <<"r">>
    <3>1. Pending = <<"r">> \o <<>>
      BY <1>3, <2>2
    <3>2. c = "r" /\ Pending' = <<>>
      BY <1>1, <1>3, <3>1, TakesOfPending
    <3> QED
      BY <1>1, <1>2, <1>5, <3>2, NextPlace DEF DumpInv, DoneInv
  <2> QED
    BY <1>1, <1>3, <1>5, <2>1, <2>2, TakesAhead
<1> QED
  BY <1>1, <1>4, <1>5 DEF DInv, DumpInv

(* A dump and a program that returns. *)
LEMMA CarryingJob ==
  ASSUME DInv, host = "careful", Dump \/ Run
  PROVE  DInv'
<1>1. UNCHANGED hostVars /\ Pending' = Pending
  BY DEF Dump, Run, hostVars, Pending
<1>2. CASE Dump
  <2>1. Carried(addr, len, <<>>) /\ pc = "dump"
    BY <1>2 DEF Dump
  <2>2. /\ want = Job(ch, addr, len, <<>>) /\ expects = "C" /\ Pending = <<>>
    BY <2>1 DEF DInv, DumpInv
  <2> QED
    BY <1>1, <2>1, <2>2, CarriedJob
<1>3. CASE Run
  <2>1. Carried(addr, 0, <<>>) /\ pc = "run"
    BY <1>3 DEF Run
  <2>2. /\ want = Job(ch, addr, 0, <<>>) /\ expects = "C"
        /\ Pending = <<>> \/ \E x \in Newlines : Pending = <<x>> \o <<>>
    BY <2>1 DEF DInv, RunInv, Ahead, Newlines
  <2> QED
    BY <1>1, <2>1, <2>2, CarriedJob
<1> QED
  BY <1>2, <1>3

LEMMA FlushedIsNewline ==
  ASSUME HostType, DInv, FlushTake
  PROVE  rx = "lf" /\ ch # NoChar /\ Pending' = <<>>
<1>1. rx \in Chars /\ Takes(rx) /\ outbox' = outbox /\ pc = "flush"
  BY DEF HostType, FlushTake, Takes, hostVars
<1>2. Pending # <<>>
  BY <1>1, NothingToTake
<1>3. ch # NoChar /\ Ahead({"lf"}, <<>>)
  BY <1>1, <1>2 DEF DInv, AwayInv, FlushInv
<1>4. <<>> \in Seq(Chars)
  OBVIOUS
<1> QED
  BY <1>1, <1>2, <1>3, <1>4, TakesAhead

(* The flush before a prompt, and the prompt. *)
LEMMA FlushJob ==
  ASSUME HostType, DInv, FlushTake \/ FlushDone
  PROVE  DInv'
<1>1. CASE FlushTake
  <2>1. /\ pc = "flush"
        /\ UNCHANGED <<expects, want, pc, prompt, ch, second, addr, done>>
    BY <1>1 DEF FlushTake, hostVars
  <2>2. ch # NoChar /\ Pending' = <<>>
    BY <1>1, FlushedIsNewline
  <2>3. FlushInv' /\ AwayInv' /\ DoneInv'
    BY <2>1, <2>2 DEF DInv, FlushInv, AwayInv, DoneInv, Ahead
  <2> QED
    BY <2>1, <2>3, NextPlace
<1>2. CASE FlushDone /\ ch = NoChar
  <2>1. /\ pc = "flush" /\ pc' = "command" /\ prompt' = "C" /\ Pending' = Pending
        /\ UNCHANGED <<expects, want, ch, second, addr, done>>
    BY <1>2 DEF FlushDone, hostVars, Pending
  <2>2. CommandInv' /\ DoneInv'
    BY <1>2, <2>1 DEF DInv, AwayInv, CommandInv, DoneInv, Ahead
  <2> QED
    BY <2>1, <2>2, NextPlace
<1>3. CASE FlushDone /\ ch # NoChar
  <2>1. /\ pc = "flush" /\ pc' = "number" /\ prompt' = (IF second THEN "L" ELSE "A")
        /\ buf' = <<>> /\ started' = FALSE /\ Pending' = Pending
        /\ UNCHANGED <<expects, want, ch, second, addr, done>>
    BY <1>3 DEF FlushDone, hostVars, Pending, GetNumber
  <2>2. /\ done = NoJob /\ Ahead({"lf"}, <<>>)
        /\ IF second
             THEN ch \in {"u", "d"} /\ expects = "L" /\ want = Job(ch, addr, 0, <<>>)
             ELSE ch \in Prompted /\ expects = "A" /\ want = Job(ch, 0, 0, <<>>)
    BY <1>3, <2>1 DEF DInv, FlushInv
  <2>3. Unanswered'
    BY <2>1, <2>2 DEF Unanswered, Ahead
  <2>4. NumberInv' /\ DoneInv'
    BY <2>1, <2>2, <2>3 DEF NumberInv, DoneInv, Prompted
  <2> QED
    BY <2>1, <2>4, NextPlace
<1> QED
  BY <1>1, <1>2, <1>3

(* Coming and going. *)
LEMMA AwayJob ==
  ASSUME DInv, Enter \/ LeftOver \/ RunForEver
  PROVE  DInv'
<1>1. CASE Enter
  <2>1. /\ pc = "left" /\ pc' = "flush" /\ ch' = NoChar
        /\ UNCHANGED <<rx, outbox, expects, want, prompt, second, done>>
        /\ rx = NoChar /\ outbox = <<>>
    BY <1>1 DEF Enter, hostVars
  <2>2. Pending' = <<>>
    BY <2>1 DEF Pending
  <2>3. AwayInv' /\ FlushInv' /\ DoneInv'
    BY <2>1, <2>2 DEF DInv, AwayInv, FlushInv, DoneInv
  <2> QED
    BY <2>1, <2>3, NextPlace
<1>2. CASE LeftOver
  <2>1. pc = "left" /\ UNCHANGED <<expects, want, pc, prompt, second, done>>
    BY <1>2 DEF LeftOver, hostVars
  <2> QED
    BY <2>1, NextPlace DEF DInv, AwayInv, DoneInv
<1>3. CASE RunForEver
  <2>1. pc = "run" /\ pc' = "gone" /\ UNCHANGED <<expects, want, prompt, second, done>>
    BY <1>3 DEF RunForEver, hostVars
  <2> QED
    BY <2>1, NextPlace DEF DInv, AwayInv, RunInv, DoneInv
<1> QED
  BY <1>1, <1>2, <1>3

(* A digit is only kept once the number has started. *)
LEMMA StartedStep ==
  ASSUME buf # <<>> => started, [Next]_vars
  PROVE  buf' # <<>> => started'
<1>1. CASE Host
  BY <1>1 DEF Host, HostSend, FreeSend, HostCommands, HostCommandsInLine, HostQuits,
     HostAddress, HostLength, HostData, HostReady, number
<1>2. CASE Monitor \/ Enter \/ LeftOver
  BY <1>2 DEF Monitor, Enter, LeftOver, FlushTake, FlushDone, Dump, Run, RunForEver,
     Command, Number, NumberGoesOn, Data, Ready, GetNumber, number
<1>3. CASE UNCHANGED vars
  BY <1>3 DEF vars, number
<1> QED
  BY <1>1, <1>2, <1>3 DEF Next

LEMMA JInvInit == Init => JInv
<1> SUFFICES ASSUME Init PROVE JInv
  OBVIOUS
<1>1. /\ buf = <<>> /\ pc = "left" /\ prompt = "none" /\ expects = "C" /\ second = FALSE
      /\ done = NoJob
  BY DEF Init
<1> QED
  BY <1>1 DEF JInv, DInv, DoneInv, AwayInv, CommandInv, FlushInv, NumberInv, DataInv,
     DumpInv, RunInv

LEMMA JInvStep == NInv /\ JInv /\ [Next]_vars => JInv'
<1> SUFFICES ASSUME NInv, JInv, [Next]_vars PROVE JInv'
  OBVIOUS
<1>1. HostType /\ DialogueType
  BY DEF NInv
<1>2. host' = host
  <2>1. CASE Host
    BY <2>1 DEF Host, HostSend, FreeSend, HostCommands, HostCommandsInLine, HostQuits,
       HostAddress, HostLength, HostData, HostReady, hostVars
  <2>2. CASE Monitor \/ Enter \/ LeftOver
    BY <2>2 DEF Monitor, Enter, LeftOver, FlushTake, FlushDone, Dump, Run, RunForEver,
       Command, Number, Data, Ready, hostVars
  <2>3. CASE UNCHANGED vars
    BY <2>3 DEF vars, hostVars
  <2> QED
    BY <2>1, <2>2, <2>3 DEF Next
<1>3. ASSUME host = "careful" PROVE DInv'
  <2>1. DInv
    BY <1>3 DEF JInv
  <2>2. CASE Host
    BY <1>3, <2>1, <2>2, HostJob
  <2>3. ASSUME NEW c \in Chars, Command(c) \/ Number(c) \/ Data(c) \/ Ready(c)
        PROVE  DInv'
    BY <1>1, <1>3, <2>1, <2>3, CommandJob, NumberJob, DataJob, ReadyReadJob
  <2>4. CASE FlushTake \/ FlushDone
    BY <1>1, <2>1, <2>4, FlushJob
  <2>5. CASE Dump \/ Run
    BY <1>3, <2>1, <2>5, CarryingJob
  <2>6. CASE Enter \/ LeftOver \/ RunForEver
    BY <2>1, <2>6, AwayJob
  <2>7. CASE UNCHANGED vars
    <3>1. UNCHANGED <<expects, want, pc, prompt, ch, second, started, buf, addr, len, stored,
                      done, rx, outbox>>
      BY <2>7 DEF vars, hostVars, number
    <3>2. Pending' = Pending
      BY <3>1 DEF Pending
    <3>3. Unanswered' = Unanswered /\ Answered' = Answered /\ Listed' = Listed
      BY <3>1, <3>2 DEF Unanswered, Answered, Listed, Reading, Ahead
    <3>4. DoneInv' /\ AwayInv' /\ FlushInv' /\ DataInv' /\ DumpInv' /\ RunInv'
      BY <2>1, <3>1, <3>2 DEF DInv, DoneInv, AwayInv, FlushInv, DataInv, DumpInv, RunInv, Ahead
    <3>5. CommandInv' /\ NumberInv'
      BY <2>1, <3>1, <3>2, <3>3 DEF DInv, CommandInv, NumberInv, Ahead
    <3> QED
      BY <3>4, <3>5 DEF DInv
  <2> QED
    BY <2>2, <2>3, <2>4, <2>5, <2>6, <2>7 DEF Next, Monitor
<1>4. buf' # <<>> => started'
  BY StartedStep DEF JInv
<1> QED
  BY <1>2, <1>3, <1>4 DEF JInv

(* Where the dialogue stands with a careful host: which prompt is shown,   *)
(* which part of its operation is still on its way, and what of it the     *)
(* monitor has already.                                                    *)
THEOREM DialogueInvariance == Spec => []JInv
<1>1. Init => JInv
  BY JInvInit
<1>2. NInv /\ NInv' /\ JInv /\ [Next]_vars => JInv'
  BY JInvStep
<1> QED
  BY <1>1, <1>2, NumberInvariance, PTL DEF Spec

(* Each operation of a careful host is carried out as it asked, whatever   *)
(* its numbers and its bytes are: monitor_mode reads no character of the   *)
(* dialogue as part of something else.                                     *)
THEOREM JobExactHolds == Spec => []JobExact
<1>1. JInv => JobExact
  BY DEF JInv, DInv, DoneInv, JobExact
<1> QED
  BY <1>1, DialogueInvariance, PTL

(* Before a prompt flush drops at most the \n that ended the line: neither *)
(* a command nor a number of a careful host is lost there.                 *)
THEOREM OnlyNewlinesFlushedHolds == Spec => OnlyNewlinesFlushed
<1>1. NInv /\ JInv /\ [Next]_vars
        => [FlushTake /\ host = "careful" => rx \in Newlines]_vars
  BY FlushedIsNewline DEF NInv, JInv, Newlines
<1> QED
  BY <1>1, NumberInvariance, DialogueInvariance, PTL DEF Spec, OnlyNewlinesFlushed
=============================================================================
