----------------------- MODULE ProfileRegisters_proofs -----------------------
(***************************************************************************)
(* Proofs about ProfileRegisters, for any sizes of float and calibration,  *)
(* any profiles and any words.                                             *)
(*                                                                         *)
(* First the operators: what a healthy device holds of a word, that every  *)
(* word the driver computes can be held and is read back as what it was    *)
(* computed from, that a float brings small calibrations back, and that    *)
(* the maximum times bound the nominal ones.  Then the invariant, by what  *)
(* the calls have in common: a job, a write of Configuration, a write of   *)
(* an alert register.                                                      *)
(***************************************************************************)
EXTENDS ProfileRegisters, FiniteSetTheorems, WellFoundedInduction, TLAPS

-----------------------------------------------------------------------------
(* Fields of words *)

(* The members of an interval; the large ones are never taken apart. *)
LEMMA IntervalIs ==
  ASSUME NEW first \in Int, NEW last \in Int, NEW n
  PROVE  n \in first .. last <=> n \in Int /\ first <= n /\ n <= last
  OBVIOUS

LEMMA RawWordsAre ==
  ASSUME NEW n
  PROVE  /\ n \in RawWords <=> n \in Int /\ 0 <= n /\ n <= 65535
         /\ n \in RawWords <=> n \in Nat /\ n < 65536
<1>1. Units!Word - 1 = 65535
  BY DEF Units!Word
<1>2. n \in 0 .. Units!Word - 1 <=> n \in Int /\ 0 <= n /\ n <= Units!Word - 1
  BY <1>1, IntervalIs
<1> QED
  BY <1>1, <1>2 DEF RawWords

(* What is left of a word without its reserved bits *)
LEMMA WithoutIs ==
  ASSUME NEW w \in RawWords
  PROVE  /\ Without(w, 0, 1) = w - (w % 2)
         /\ Without(w, 0, 3) = w - (w % 8)
         /\ Without(w, 15, 1) = w % 32768
<1>1. w \in Nat /\ w < 65536
  BY RawWordsAre
<1>2. w \div 1 = w
  BY <1>1
<1>3. Without(w, 0, 1) = w - (w % 2) /\ Without(w, 0, 3) = w - (w % 8)
  BY <1>1, <1>2 DEF Without, Field
<1>4. Without(w, 15, 1) = w % 32768
  BY <1>1 DEF Without, Field
<1> QED
  BY <1>3, <1>4

(* What a healthy device holds of a word: never more, and no reserved bit *)
LEMMA HeldIs ==
  ASSUME NEW w \in RawWords, NEW reg
  PROVE  /\ reg = 0 => Held(reg, w) = w % 32768
         /\ reg = 15 => Held(reg, w) = ((w \div 1024) % 32) * 1024
         /\ reg = 14 => Held(reg, w) = w - (w % 2)
         /\ reg \notin {0, 14, 15} => Held(reg, w) = w - (w % 8)
<1> USE DEF REG_CONFIG, REG_MASK_ENABLE, REG_SHUNT_SUM_LIMIT
<1>1. w \in Nat
  BY RawWordsAre
<1>2. Without(w, 0, 1) = w - (w % 2)
  BY WithoutIs
<1>3. Without(w, 0, 3) = w - (w % 8)
  BY WithoutIs
<1>4. Without(w, 15, 1) = w % 32768
  BY WithoutIs
<1>5. Field(w, 10, 5) * 2 ^ 10 = ((w \div 1024) % 32) * 1024
  BY <1>1 DEF Field
<1>6. CASE reg = 0
  BY <1>4, <1>6 DEF Held
<1>7. CASE reg = 15
  BY <1>5, <1>7 DEF Held
<1>8. CASE reg = 14
  BY <1>2, <1>8 DEF Held
<1>9. CASE reg \notin {0, 14, 15}
  BY <1>3, <1>9 DEF Held
<1> QED
  BY <1>6, <1>7, <1>8, <1>9

(* What is held is held as it is. *)
LEMMA HeldIsHoldable ==
  ASSUME NEW reg, NEW w \in RawWords
  PROVE  Holdable(reg, Held(reg, w))
<1>1. w \in Nat /\ w < 65536
  BY RawWordsAre
<1>2. CASE reg = 0
  <2>1. Held(reg, w) = w % 32768 /\ w % 32768 \in RawWords /\ (w % 32768) % 32768 = w % 32768
    BY <1>1, <1>2, HeldIs, RawWordsAre
  <2> QED
    BY <1>2, <2>1, HeldIs DEF Holdable
<1>3. CASE reg = 15
  <2> DEFINE h == ((w \div 1024) % 32) * 1024
  <2>1. h \in RawWords /\ ((h \div 1024) % 32) * 1024 = h
    BY <1>1, RawWordsAre
  <2>2. Held(reg, w) = h
    BY <1>3, HeldIs
  <2> QED
    BY <1>3, <2>1, <2>2, HeldIs DEF Holdable
<1>4. CASE reg = 14
  <2> DEFINE h == w - (w % 2)
  <2>1. h \in RawWords /\ h - (h % 2) = h
    BY <1>1, RawWordsAre
  <2>2. Held(reg, w) = h
    BY <1>4, HeldIs
  <2> QED
    BY <1>4, <2>1, <2>2, HeldIs DEF Holdable
<1>5. CASE reg \notin {0, 14, 15}
  <2> DEFINE h == w - (w % 8)
  <2>1. h \in RawWords /\ h - (h % 8) = h
    BY <1>1, RawWordsAre
  <2>2. Held(reg, w) = h
    BY <1>5, HeldIs
  <2> QED
    BY <1>5, <2>1, <2>2, HeldIs DEF Holdable
<1> QED
  BY <1>2, <1>3, <1>4, <1>5

(* Of words that can be held, the comparison tells whether they are the    *)
(* same, whatever status is shown below the writable bits of Mask/Enable.  *)
LEMMA MatchIsEquality ==
  ASSUME NEW reg, NEW a, NEW d, Holdable(reg, a), Holdable(reg, d), NEW status \in Nat, status < 1024
  PROVE  /\ registerMatches(reg, a, d) <=> a = d
         /\ registerMatches(reg, a + (IF reg = REG_MASK_ENABLE THEN status ELSE 0), d) <=> a = d
<1>1. a \in RawWords /\ d \in RawWords /\ a \in Nat /\ d \in Nat /\ a < 65536 /\ d < 65536
  BY RawWordsAre DEF Holdable
<1>2. CASE reg = 15
  <2>1. ((a \div 1024) % 32) * 1024 = a /\ ((d \div 1024) % 32) * 1024 = d
    BY <1>1, <1>2, HeldIs DEF Holdable
  <2>2. (a + status) \div 1024 = a \div 1024 /\ a + status \in Nat
    BY <1>1, <2>1
  <2>3. (a \div 1024) % 32 = (d \div 1024) % 32 <=> a = d
    BY <1>1, <2>1
  <2>4. /\ (Field(a, 10, 5) = Field(d, 10, 5) <=> a = d)
        /\ (Field(a + status, 10, 5) = Field(d, 10, 5) <=> a = d)
    BY <1>1, <2>2, <2>3 DEF Field
  <2> QED
    BY <1>2, <2>4 DEF registerMatches, REG_MASK_ENABLE
<1>3. CASE reg # 15
  <2>1. a + 0 = a
    BY <1>1
  <2>2. reg = 0 => Without(a, 15, 1) = a /\ Without(d, 15, 1) = d
    BY <1>1, HeldIs, WithoutIs DEF Holdable
  <2> QED
    BY <1>3, <2>1, <2>2 DEF registerMatches, REG_MASK_ENABLE, REG_CONFIG
<1> QED
  BY <1>2, <1>3

-----------------------------------------------------------------------------
(* Configuration and Mask/Enable, and back *)

(* The bits of a set of channels *)
LEMMA BitsAre ==
  ASSUME NEW w \in Nat
  PROVE  /\ BitsToChannels(w, 14) \subseteq Channel
         /\ 0 \in BitsToChannels(w, 14) <=> (w \div 16384) % 2 = 1
         /\ 1 \in BitsToChannels(w, 14) <=> (w \div 8192) % 2 = 1
         /\ 2 \in BitsToChannels(w, 14) <=> (w \div 4096) % 2 = 1
<1>1. 14 - 0 = 14 /\ 14 - 1 = 13 /\ 14 - 2 = 12
  OBVIOUS
<1>2. /\ IsSet(w, 14) <=> (w \div 16384) % 2 = 1
      /\ IsSet(w, 13) <=> (w \div 8192) % 2 = 1
      /\ IsSet(w, 12) <=> (w \div 4096) % 2 = 1
  BY DEF IsSet, Field
<1> QED
  BY <1>1, <1>2 DEF BitsToChannels, Channel

(* ... as a number *)
ChannelCode(channels) ==
  (IF 0 \in channels THEN 4 ELSE 0) + (IF 1 \in channels THEN 2 ELSE 0)
    + (IF 2 \in channels THEN 1 ELSE 0)

LEMMA ChannelCodeIs ==
  ASSUME NEW channels \in SUBSET Channel
  PROVE  /\ ChannelCode(channels) \in Nat /\ ChannelCode(channels) < 8
         /\ ChannelBits(channels, 14) = 4096 * ChannelCode(channels)
         /\ (ChannelCode(channels) \div 4) % 2 = 1 <=> 0 \in channels
         /\ (ChannelCode(channels) \div 2) % 2 = 1 <=> 1 \in channels
         /\ ChannelCode(channels) % 2 = 1 <=> 2 \in channels
<1>1. 14 - 1 = 13 /\ 14 - 2 = 12
  OBVIOUS
<1> QED
  BY <1>1 DEF ChannelCode, ChannelBits, Bit

(* A word whose channel bits are a set's code shows that set. *)
LEMMA BitsAreTheChannels ==
  ASSUME NEW channels \in SUBSET Channel, NEW rest \in Nat, rest < 4096
  PROVE  BitsToChannels(4096 * ChannelCode(channels) + rest, 14) = channels
<1> DEFINE c == ChannelCode(channels)
           w == 4096 * c + rest
<1>1. /\ c \in Nat /\ c < 8
      /\ (c \div 4) % 2 = 1 <=> 0 \in channels
      /\ (c \div 2) % 2 = 1 <=> 1 \in channels
      /\ c % 2 = 1 <=> 2 \in channels
  BY ChannelCodeIs
<1> HIDE DEF c
<1>2. /\ w \in Nat
      /\ w \div 16384 = c \div 4
      /\ w \div 8192 = c \div 2
      /\ w \div 4096 = c
  BY <1>1
<1> HIDE DEF w
<1>3. /\ BitsToChannels(w, 14) \subseteq Channel
      /\ 0 \in BitsToChannels(w, 14) <=> 0 \in channels
      /\ 1 \in BitsToChannels(w, 14) <=> 1 \in channels
      /\ 2 \in BitsToChannels(w, 14) <=> 2 \in channels
  BY <1>1, <1>2, BitsAre
<1>4. BitsToChannels(w, 14) = channels
  <2> DEFINE shown == BitsToChannels(w, 14)
  <2> HIDE DEF shown
  <2>1. \A k \in Channel : k \in shown <=> k \in channels
    BY <1>3 DEF Channel, shown
  <2>2. shown \subseteq Channel /\ channels \subseteq Channel
    BY <1>3 DEF shown
  <2>3. \A k : k \in shown <=> k \in channels
    BY <2>1, <2>2
  <2>4. shown = channels
    BY <2>3
  <2> QED
    BY <2>4 DEF shown
<1> QED
  BY <1>4 DEF w, c

(* Configuration as a sum *)
LEMMA ConfigIs ==
  ASSUME NEW s \in Settings
  PROVE  /\ buildConfigRegister(s) = 4096 * ChannelCode(s.channels) + 512 * s.averaging
                                      + 64 * s.vBusCt + 8 * s.vShCt + s.mode
         /\ s.channels \in SUBSET Channel
         /\ s.averaging \in 0 .. 7 /\ s.vBusCt \in 0 .. 7 /\ s.vShCt \in 0 .. 7 /\ s.mode \in 0 .. 7
         /\ s = [channels |-> s.channels, averaging |-> s.averaging, vBusCt |-> s.vBusCt,
                 vShCt |-> s.vShCt, mode |-> s.mode]
<1>1. /\ s.channels \in SUBSET Channel
      /\ s.averaging \in 0 .. 7 /\ s.vBusCt \in 0 .. 7 /\ s.vShCt \in 0 .. 7 /\ s.mode \in 0 .. 7
      /\ s = [channels |-> s.channels, averaging |-> s.averaging, vBusCt |-> s.vBusCt,
              vShCt |-> s.vShCt, mode |-> s.mode]
  BY DEF Settings
<1>2. /\ ChannelBits(s.channels, 14) = 4096 * ChannelCode(s.channels)
      /\ ChannelCode(s.channels) \in Nat
  BY <1>1, ChannelCodeIs
<1>3. buildConfigRegister(s) = 4096 * ChannelCode(s.channels) + 512 * s.averaging
                                 + 64 * s.vBusCt + 8 * s.vShCt + s.mode
  BY <1>1, <1>2 DEF buildConfigRegister
<1> QED
  BY <1>1, <1>3

(* What Configuration holds for settings is read back as these settings,   *)
(* and a device can hold it.                                               *)
LEMMA ConfigIsReadBack ==
  ASSUME NEW s \in Settings
  PROVE  /\ Holdable(REG_CONFIG, buildConfigRegister(s))
         /\ DecodeConfig(buildConfigRegister(s)) = s
<1> DEFINE c == ChannelCode(s.channels)
           a == s.averaging
           b == s.vBusCt
           h == s.vShCt
           m == s.mode
           rest == 512 * a + 64 * b + 8 * h + m
           w == 4096 * c + rest
<1>1. /\ c \in Nat /\ c < 8
      /\ a \in 0 .. 7 /\ b \in 0 .. 7 /\ h \in 0 .. 7 /\ m \in 0 .. 7
      /\ s.channels \in SUBSET Channel
  BY ConfigIs, ChannelCodeIs
<1>2. s = [channels |-> s.channels, averaging |-> a, vBusCt |-> b, vShCt |-> h, mode |-> m]
  BY ConfigIs
<1>3. buildConfigRegister(s) = 4096 * c + 512 * a + 64 * b + 8 * h + m
  BY ConfigIs
<1> HIDE DEF c, a, b, h, m
<1>4. /\ rest \in Nat /\ rest < 4096 /\ w \in Nat /\ w < 32768
      /\ buildConfigRegister(s) = w
  BY <1>1, <1>3
<1>5. BitsToChannels(w, 14) = s.channels
  <2> HIDE DEF rest
  <2> QED
    BY <1>1, <1>4, BitsAreTheChannels DEF c
<1>6. /\ (w \div 512) % 8 = a /\ (w \div 64) % 8 = b /\ (w \div 8) % 8 = h /\ w % 8 = m
  <2>1. w \div 512 = 8 * c + a
    BY <1>1
  <2>2. w \div 64 = 8 * (8 * c + a) + b
    BY <1>1
  <2>3. w \div 8 = 8 * (64 * c + 8 * a + b) + h
    BY <1>1
  <2>4. w % 8 = m
    BY <1>1
  <2> QED
    BY <1>1, <2>1, <2>2, <2>3, <2>4
<1> HIDE DEF w
<1>7. /\ Field(w, 9, 3) = a /\ Field(w, 6, 3) = b /\ Field(w, 3, 3) = h /\ Field(w, 0, 3) = m
  <2>1. w \div 1 = w
    BY <1>4
  <2> QED
    BY <1>4, <1>6, <2>1 DEF Field
<1>8. DecodeConfig(w) = s
  BY <1>2, <1>5, <1>7, Zenon DEF DecodeConfig
<1>9. Holdable(REG_CONFIG, w)
  BY <1>4, HeldIs, RawWordsAre DEF Holdable, REG_CONFIG
<1> QED
  BY <1>4, <1>8, <1>9

(* What Configuration shows is settings, and these stand for that word.    *)
LEMMA ConfigIsBuiltBack ==
  ASSUME NEW w \in Nat, w < 32768
  PROVE  /\ DecodeConfig(w) \in Settings
         /\ buildConfigRegister(DecodeConfig(w)) = w
<1> DEFINE s == DecodeConfig(w)
           S == BitsToChannels(w, 14)
           a == Field(w, 9, 3)
           b == Field(w, 6, 3)
           h == Field(w, 3, 3)
           m == Field(w, 0, 3)
<1>1. /\ a = (w \div 512) % 8 /\ b = (w \div 64) % 8 /\ h = (w \div 8) % 8
  BY DEF Field
<1>2. m = w % 8
  <2>1. w \div 1 = w
    OBVIOUS
  <2> QED
    BY <2>1 DEF Field
<1>3. /\ S \in SUBSET Channel
      /\ 0 \in S <=> (w \div 16384) % 2 = 1
      /\ 1 \in S <=> (w \div 8192) % 2 = 1
      /\ 2 \in S <=> (w \div 4096) % 2 = 1
  BY BitsAre
<1>4. s = [channels |-> S, averaging |-> a, vBusCt |-> b, vShCt |-> h, mode |-> m]
  BY DEF DecodeConfig
<1> HIDE DEF S, a, b, h, m, s
<1>5. a \in 0 .. 7 /\ b \in 0 .. 7 /\ h \in 0 .. 7 /\ m \in 0 .. 7
  BY <1>1, <1>2
<1>6. s \in Settings
  BY <1>3, <1>4, <1>5 DEF Settings
<1>7. /\ s.channels = S /\ s.averaging = a /\ s.vBusCt = b /\ s.vShCt = h /\ s.mode = m
  BY <1>4
<1>8. ChannelCode(S) = w \div 4096
  BY <1>3 DEF ChannelCode
<1>9. buildConfigRegister(s) = 4096 * ChannelCode(S) + 512 * a + 64 * b + 8 * h + m
  BY <1>6, <1>7, ConfigIs
<1>10. 4096 * (w \div 4096) + 512 * a + 64 * b + 8 * h + m = w
  BY <1>1, <1>2
<1> QED
  BY <1>6, <1>8, <1>9, <1>10 DEF s

(* Mask/Enable: the summation channels and the latches are read back, and  *)
(* a device can hold the word.                                             *)
LEMMA MaskIsReadBack ==
  ASSUME NEW alerts \in AlertProfiles
  PROVE  /\ Holdable(REG_MASK_ENABLE, buildMaskEnable(alerts))
         /\ BitsToChannels(buildMaskEnable(alerts), 14) = alerts.summation
<1> DEFINE S == alerts.summation
           c == ChannelCode(S)
           warning == Bit(alerts.warningLatch, 11)
           critical == Bit(alerts.criticalLatch, 10)
           rest == warning + critical
           w == 4096 * c + rest
<1>1. S \in SUBSET Channel
  BY DEF AlertProfiles
<1>2. c \in Nat /\ c < 8 /\ ChannelBits(S, 14) = 4096 * c
  BY <1>1, ChannelCodeIs
<1>3. warning \in {0, 2048} /\ critical \in {0, 1024}
  BY DEF Bit
<1>4. buildMaskEnable(alerts) = ChannelBits(S, 14) + warning + critical
  BY DEF buildMaskEnable
<1> HIDE DEF S, c, warning, critical
<1>5. /\ rest \in Nat /\ rest < 4096 /\ w \in Nat /\ w < 32768 /\ buildMaskEnable(alerts) = w
      /\ ((w \div 1024) % 32) * 1024 = w
  BY <1>2, <1>3, <1>4
<1>6. BitsToChannels(w, 14) = S
  <2> HIDE DEF rest
  <2> QED
    BY <1>1, <1>5, BitsAreTheChannels DEF c
<1> HIDE DEF w
<1>7. Holdable(REG_MASK_ENABLE, w)
  BY <1>5, HeldIs, RawWordsAre DEF Holdable, REG_MASK_ENABLE
<1> QED
  BY <1>5, <1>6, <1>7 DEF S

-----------------------------------------------------------------------------
(* Limits, at the driver's widths *)

(* Rounding yields an integer, and a multiple of the step unchanged.       *)
LEMMA RoundOfSteps ==
  ASSUME NEW lsb \in {8, 40}, NEW n \in Int
  PROVE  Units!RoundDivide(n, lsb) \in Int /\ Units!RoundDivide(n * lsb, lsb) = n
<1>1. CASE lsb = 8
  <2>1. n >= 0 => (n * 8 + 4) \div 8 = n
    OBVIOUS
  <2>2. n < 0 => (-(n * 8 - 4)) \div 8 = -n
    OBVIOUS
  <2> QED
    BY <1>1, <2>1, <2>2 DEF Units!RoundDivide, Units!Truncated
<1>2. CASE lsb = 40
  <2>1. n >= 0 => (n * 40 + 20) \div 40 = n
    OBVIOUS
  <2>2. n < 0 => (-(n * 40 - 20)) \div 40 = -n
    OBVIOUS
  <2> QED
    BY <1>2, <2>1, <2>2 DEF Units!RoundDivide, Units!Truncated
<1> QED
  BY <1>1, <1>2

(* A limit that is accepted has a word that a device can hold: a channel's *)
(* or a power-valid limit ...                                              *)
LEMMA LimitIsHoldable ==
  ASSUME NEW v \in Int, NEW lsb \in {8, 40}, Units!Encode(v, lsb, 3, 13).ok,
         NEW reg, reg \notin {0, 14, 15}
  PROVE  Holdable(reg, Units!Encode(v, lsb, 3, 13).value)
<1> DEFINE code == Units!RoundDivide(v, lsb)
           low == code % 65536
           word == (low * 8) % 65536
<1>1. code \in Int
  BY RoundOfSteps
<1>2. Units!Encode(v, lsb, 3, 13) = IF Units!InField(code, 13) THEN Units!OkResult(word)
                                     ELSE Units!ErrorResult
  BY DEF Units!Encode, Units!Word
<1> HIDE DEF code
<1>3. word \in Nat /\ word < 65536 /\ word % 8 = 0
  BY <1>1
<1> HIDE DEF word
<1>4. Units!Encode(v, lsb, 3, 13).value = word
  BY <1>2 DEF Units!OkResult, Units!ErrorResult
<1>5. Holdable(reg, word)
  <2>1. word \in RawWords
    BY <1>3, RawWordsAre
  <2>2. Held(reg, word) = word - (word % 8)
    BY <2>1, HeldIs
  <2> QED
    BY <1>3, <2>1, <2>2 DEF Holdable
<1> QED
  BY <1>4, <1>5

(* ... or one of the shunt sum.                                            *)
LEMMA SumIsHoldable ==
  ASSUME NEW v \in Int, Units!Encode(v, 40, 1, 15).ok
  PROVE  Holdable(REG_SHUNT_SUM_LIMIT, Units!Encode(v, 40, 1, 15).value)
<1> DEFINE code == Units!RoundDivide(v, 40)
           low == code % 65536
           word == (low * 2) % 65536
<1>1. code \in Int
  BY RoundOfSteps
<1>2. Units!Encode(v, 40, 1, 15) = IF Units!InField(code, 15) THEN Units!OkResult(word)
                                    ELSE Units!ErrorResult
  BY DEF Units!Encode, Units!Word
<1> HIDE DEF code
<1>3. word \in Nat /\ word < 65536 /\ word % 2 = 0
  BY <1>1
<1> HIDE DEF word
<1>4. Units!Encode(v, 40, 1, 15).value = word
  BY <1>2 DEF Units!OkResult, Units!ErrorResult
<1>5. Holdable(REG_SHUNT_SUM_LIMIT, word)
  BY <1>3, HeldIs, RawWordsAre DEF Holdable, REG_SHUNT_SUM_LIMIT
<1> QED
  BY <1>4, <1>5

(* The limit a word stands for is accepted and has that word again: of a   *)
(* channel or the power-valid window ...                                   *)
LEMMA LimitIsReadBack ==
  ASSUME NEW word \in RawWords, word % 8 = 0, NEW lsb \in {8, 40}
  PROVE  /\ Units!SignExtendField(word, 3, 13) * lsb \in Int
         /\ Units!Encode(Units!SignExtendField(word, 3, 13) * lsb, lsb, 3, 13)
              = Units!OkResult(word)
<1> DEFINE field == (word \div 8) % 8192
           code == IF field >= 4096 THEN field - 8192 ELSE field
           low == code % 65536
<1>0. word \in Nat /\ word < 65536
  BY RawWordsAre
<1>1. word \in Nat /\ word < 65536 /\ 8 * field = word
  BY <1>0
<1>2. Units!SignExtendField(word, 3, 13) = code
  BY DEF Units!SignExtendField
<1>3. code \in Int /\ code >= -4096 /\ code < 4096 /\ low = IF code < 0 THEN code + 65536 ELSE code
  BY <1>1
<1>4. (low * 8) % 65536 = word
  BY <1>1, <1>3
<1> HIDE DEF code
<1>5. Units!RoundDivide(code * lsb, lsb) = code
  <2>1. code \in Int
    BY <1>3
  <2> QED
    BY <2>1, RoundOfSteps
<1>6. Units!InField(code, 13)
  BY <1>3 DEF Units!InField
<1>7. Units!Encode(code * lsb, lsb, 3, 13) = Units!OkResult((low * 8) % 65536)
  BY <1>5, <1>6 DEF Units!Encode, Units!Word
<1> QED
  BY <1>2, <1>3, <1>4, <1>7

(* ... and of the shunt sum.                                               *)
LEMMA SumIsReadBack ==
  ASSUME NEW word \in RawWords, word % 2 = 0
  PROVE  /\ Units!SignExtendField(word, 1, 15) * 40 \in Int
         /\ Units!Encode(Units!SignExtendField(word, 1, 15) * 40, 40, 1, 15)
              = Units!OkResult(word)
<1> DEFINE field == (word \div 2) % 32768
           code == IF field >= 16384 THEN field - 32768 ELSE field
           low == code % 65536
<1>0. word \in Nat /\ word < 65536
  BY RawWordsAre
<1>1. word \in Nat /\ word < 65536 /\ 2 * field = word
  BY <1>0
<1>2. Units!SignExtendField(word, 1, 15) = code
  BY DEF Units!SignExtendField
<1>3. code \in Int /\ code >= -16384 /\ code < 16384 /\ low = IF code < 0 THEN code + 65536 ELSE code
  BY <1>1
<1>4. (low * 2) % 65536 = word
  BY <1>1, <1>3
<1> HIDE DEF code
<1>5. Units!RoundDivide(code * 40, 40) = code
  <2>1. code \in Int /\ 40 \in {8, 40}
    BY <1>3
  <2> QED
    BY <2>1, RoundOfSteps
<1>6. Units!InField(code, 15)
  BY <1>3 DEF Units!InField
<1>7. Units!Encode(code * 40, 40, 1, 15) = Units!OkResult((low * 2) % 65536)
  BY <1>5, <1>6 DEF Units!Encode, Units!Word
<1> QED
  BY <1>2, <1>3, <1>4, <1>7

-----------------------------------------------------------------------------
(* The registers of a job, and the words for a profile *)

(* The table of registers *)
LEMMA RegisterAtIs ==
  ASSUME NEW i \in 0 .. LastIndex
  PROVE  RegisterAt(i) = IF i = 0 THEN 0 ELSE IF i <= 6 THEN i + 6 ELSE i + 7
<1> USE DEF RegisterAt, REG_CONFIG, REG_SHUNT_SUM_LIMIT, REG_MASK_ENABLE, REG_PV_UPPER_LIMIT,
            REG_PV_LOWER_LIMIT, critRegAddr, warnRegAddr
<1>1. i \in {0, 1, 2, 3, 4, 5, 6, 7, 8, 9, 10}
  BY DEF LastIndex
<1>2. CASE i \in {1, 3, 5}
  <2>1. i \in 1 .. 6 /\ i % 2 = 1 /\ (i - 1) \div 2 = (i - 1) \div 2 /\ i # 0
        /\ 7 + 2 * ((i - 1) \div 2) = i + 6 /\ i <= 6
    BY <1>2
  <2> QED
    BY <2>1
<1>3. CASE i \in {2, 4, 6}
  <2>1. i \in 1 .. 6 /\ i % 2 = 0 /\ i # 0 /\ 8 + 2 * ((i - 1) \div 2) = i + 6 /\ i <= 6
    BY <1>3
  <2> QED
    BY <2>1
<1>4. CASE i \in {0, 7, 8, 9, 10}
  <2>1. i \notin 1 .. 6
    BY <1>4
  <2> QED
    BY <1>4, <2>1
<1> QED
  BY <1>1, <1>2, <1>3, <1>4

(* A job's index is determined by its register, and every writable         *)
(* register has one.                                                       *)
LEMMA IndexIs ==
  /\ \A i \in 0 .. LastIndex :
       /\ RegisterAt(i) \in WritableAddress
       /\ (CHOOSE k \in 0 .. LastIndex : RegisterAt(k) = RegisterAt(i)) = i
  /\ \A reg \in WritableAddress : \E i \in 0 .. LastIndex : RegisterAt(i) = reg
<1>1. \A reg : reg \in WritableAddress <=>
               reg \in {0, 7, 8, 9, 10, 11, 12, 14, 15, 16, 17}
  BY DEF WritableAddress, LimitAddress, critRegAddr, warnRegAddr, Channel, REG_CONFIG,
         REG_SHUNT_SUM_LIMIT, REG_MASK_ENABLE, REG_PV_UPPER_LIMIT, REG_PV_LOWER_LIMIT
<1>2. \A i, k \in 0 .. LastIndex : RegisterAt(i) = RegisterAt(k) => i = k
  BY RegisterAtIs DEF LastIndex
<1>3. \A i \in 0 .. LastIndex : RegisterAt(i) \in WritableAddress
  BY <1>1, RegisterAtIs DEF LastIndex
<1>4. ASSUME NEW reg \in WritableAddress
      PROVE  \E i \in 0 .. LastIndex : RegisterAt(i) = reg
  <2> DEFINE i == IF reg = 0 THEN 0 ELSE IF reg <= 12 THEN reg - 6 ELSE reg - 7
  <2>1. i \in 0 .. LastIndex /\ RegisterAt(i) = reg
    BY <1>1, RegisterAtIs DEF LastIndex
  <2> QED
    BY <2>1
<1>5. ASSUME NEW i \in 0 .. LastIndex
      PROVE  (CHOOSE k \in 0 .. LastIndex : RegisterAt(k) = RegisterAt(i)) = i
  <2> DEFINE k == CHOOSE n \in 0 .. LastIndex : RegisterAt(n) = RegisterAt(i)
  <2>1. \E n \in 0 .. LastIndex : RegisterAt(n) = RegisterAt(i)
    OBVIOUS
  <2>2. k \in 0 .. LastIndex /\ RegisterAt(k) = RegisterAt(i)
    BY <2>1
  <2> HIDE DEF k
  <2>3. k = i
    BY <1>2, <2>2
  <2> QED
    BY <2>3 DEF k
<1> QED
  BY <1>3, <1>4, <1>5

(* The words for a profile *)
LEMMA DesiredWordIs ==
  ASSUME NEW p
  PROVE  /\ DesiredWord(0, p) = buildConfigRegister(p.settings)
         /\ \A c \in Channel :
              /\ DesiredWord(2 * c + 1, p) = Units!encodeShuntMicroVolts(p.alerts.critical[c]).value
              /\ DesiredWord(2 * c + 2, p) = Units!encodeShuntMicroVolts(p.alerts.warning[c]).value
         /\ DesiredWord(7, p) = Units!encodeShuntSumMicroVolts(p.alerts.sum).value
         /\ DesiredWord(8, p) = buildMaskEnable(p.alerts)
         /\ DesiredWord(9, p) = Units!encodeBusMilliVolts(p.alerts.upper).value
         /\ DesiredWord(10, p) = Units!encodeBusMilliVolts(p.alerts.lower).value
<1>1. ASSUME NEW c \in Channel
      PROVE  /\ 2 * c + 1 \in 1 .. 6 /\ (2 * c + 1) % 2 = 1 /\ 2 * c + 1 # 0
             /\ (2 * c + 1 - 1) \div 2 = c
             /\ 2 * c + 2 \in 1 .. 6 /\ (2 * c + 2) % 2 = 0 /\ 2 * c + 2 # 0
             /\ (2 * c + 2 - 1) \div 2 = c
  BY DEF Channel
<1>2. ASSUME NEW c \in Channel
      PROVE  /\ DesiredWord(2 * c + 1, p) = Units!encodeShuntMicroVolts(p.alerts.critical[c]).value
             /\ DesiredWord(2 * c + 2, p) = Units!encodeShuntMicroVolts(p.alerts.warning[c]).value
  <2> DEFINE odd == 2 * c + 1
             even == 2 * c + 2
  <2>1. /\ odd \in 1 .. 6 /\ odd % 2 = 1 /\ odd # 0 /\ (odd - 1) \div 2 = c
        /\ even \in 1 .. 6 /\ even % 2 = 0 /\ even # 0 /\ (even - 1) \div 2 = c
    BY <1>1
  <2> HIDE DEF odd, even
  <2>2. DesiredWord(odd, p) = Units!encodeShuntMicroVolts(p.alerts.critical[c]).value
    BY <2>1 DEF DesiredWord
  <2>3. DesiredWord(even, p) = Units!encodeShuntMicroVolts(p.alerts.warning[c]).value
    BY <2>1 DEF DesiredWord
  <2> QED
    BY <2>2, <2>3 DEF odd, even
<1>3. /\ DesiredWord(0, p) = buildConfigRegister(p.settings)
      /\ DesiredWord(7, p) = Units!encodeShuntSumMicroVolts(p.alerts.sum).value
      /\ DesiredWord(8, p) = buildMaskEnable(p.alerts)
      /\ DesiredWord(9, p) = Units!encodeBusMilliVolts(p.alerts.upper).value
      /\ DesiredWord(10, p) = Units!encodeBusMilliVolts(p.alerts.lower).value
  BY DEF DesiredWord
<1> QED
  BY <1>2, <1>3

(* Every index is one of these. *)
LEMMA IndexCases ==
  ASSUME NEW i \in 0 .. LastIndex
  PROVE  \/ i = 0
         \/ \E c \in Channel : i = 2 * c + 1 \/ i = 2 * c + 2
         \/ i = 7 \/ i = 8 \/ i = 9 \/ i = 10
<1>1. i \in {0, 7, 8, 9, 10} \/ i \in {1, 2} \/ i \in {3, 4} \/ i \in {5, 6}
  BY DEF LastIndex
<1>2. i \in {1, 2} => i = 2 * 0 + 1 \/ i = 2 * 0 + 2
  OBVIOUS
<1>3. i \in {3, 4} => i = 2 * 1 + 1 \/ i = 2 * 1 + 2
  OBVIOUS
<1>4. i \in {5, 6} => i = 2 * 2 + 1 \/ i = 2 * 2 + 2
  OBVIOUS
<1>5. 0 \in Channel /\ 1 \in Channel /\ 2 \in Channel
  BY DEF Channel
<1> QED
  BY <1>1, <1>2, <1>3, <1>4, <1>5

(* A profile's parts *)
LEMMA ProfileParts ==
  ASSUME NEW p \in DeviceProfiles
  PROVE  /\ p = [settings |-> p.settings, resistance |-> p.resistance, alerts |-> p.alerts]
         /\ p.settings \in RequestedSettings
         /\ p.resistance \in [Channel -> Calibration]
         /\ p.alerts \in AlertProfiles
         /\ p.alerts.critical \in [Channel -> Int] /\ p.alerts.warning \in [Channel -> Int]
         /\ p.alerts.sum \in Int /\ p.alerts.upper \in Int /\ p.alerts.lower \in Int
         /\ p.alerts.summation \in SUBSET Channel
         /\ p.alerts.warningLatch \in BOOLEAN /\ p.alerts.criticalLatch \in BOOLEAN
  BY DEF DeviceProfiles, AlertProfiles

(* Where the registers of the indices are *)
LEMMA RegistersAre ==
  /\ RegisterAt(0) = REG_CONFIG /\ RegisterAt(7) = REG_SHUNT_SUM_LIMIT
  /\ RegisterAt(8) = REG_MASK_ENABLE
  /\ RegisterAt(9) = REG_PV_UPPER_LIMIT /\ RegisterAt(10) = REG_PV_LOWER_LIMIT
  /\ \A c \in Channel : /\ RegisterAt(2 * c + 1) = critRegAddr(c)
                        /\ RegisterAt(2 * c + 2) = warnRegAddr(c)
                        /\ 2 * c + 1 \in 0 .. LastIndex /\ 2 * c + 2 \in 0 .. LastIndex
  /\ {0, 7, 8, 9, 10} \subseteq 0 .. LastIndex
<1>1. {0, 7, 8, 9, 10} \subseteq 0 .. LastIndex
  BY DEF LastIndex
<1>2. /\ RegisterAt(0) = REG_CONFIG /\ RegisterAt(7) = REG_SHUNT_SUM_LIMIT
      /\ RegisterAt(8) = REG_MASK_ENABLE
      /\ RegisterAt(9) = REG_PV_UPPER_LIMIT /\ RegisterAt(10) = REG_PV_LOWER_LIMIT
  BY <1>1, RegisterAtIs DEF REG_CONFIG, REG_SHUNT_SUM_LIMIT, REG_MASK_ENABLE,
                            REG_PV_UPPER_LIMIT, REG_PV_LOWER_LIMIT
<1>3. ASSUME NEW c \in Channel
      PROVE  /\ RegisterAt(2 * c + 1) = critRegAddr(c)
             /\ RegisterAt(2 * c + 2) = warnRegAddr(c)
             /\ 2 * c + 1 \in 0 .. LastIndex /\ 2 * c + 2 \in 0 .. LastIndex
  BY RegisterAtIs DEF Channel, LastIndex, critRegAddr, warnRegAddr
<1> QED
  BY <1>1, <1>2, <1>3

(* Every word for a valid profile can be held by a healthy device. *)
LEMMA DesiredIsHoldable ==
  ASSUME NEW p \in DeviceProfiles, validateProfile(p), NEW i \in 0 .. LastIndex
  PROVE  Holdable(RegisterAt(i), DesiredWord(i, p))
<1>1. CASE i = 0
  <2>1. p.settings \in Settings
    BY DEF validateProfile, ValidSettings
  <2> QED
    BY <1>1, <2>1, ConfigIsReadBack, RegistersAre, DesiredWordIs
<1>2. ASSUME NEW c \in Channel, i = 2 * c + 1 \/ i = 2 * c + 2
      PROVE  Holdable(RegisterAt(i), DesiredWord(i, p))
  <2>1. p.alerts.critical[c] \in Int /\ p.alerts.warning[c] \in Int
    BY ProfileParts
  <2>2. /\ Units!Encode(p.alerts.critical[c], 40, 3, 13).ok
        /\ Units!Encode(p.alerts.warning[c], 40, 3, 13).ok
    BY DEF validateProfile, Units!encodeShuntMicroVolts
  <2>3. critRegAddr(c) \notin {0, 14, 15} /\ warnRegAddr(c) \notin {0, 14, 15}
    BY DEF Channel, critRegAddr, warnRegAddr
  <2>4. 40 \in {8, 40}
    OBVIOUS
  <2>5. CASE i = 2 * c + 1
    <3>1. RegisterAt(i) = critRegAddr(c)
      BY <2>5, RegistersAre
    <3>2. DesiredWord(i, p) = Units!Encode(p.alerts.critical[c], 40, 3, 13).value
      BY <2>5, DesiredWordIs DEF Units!encodeShuntMicroVolts
    <3>3. Holdable(critRegAddr(c), Units!Encode(p.alerts.critical[c], 40, 3, 13).value)
      BY <2>1, <2>2, <2>3, <2>4, LimitIsHoldable
    <3> QED
      BY <3>1, <3>2, <3>3
  <2>6. CASE i = 2 * c + 2
    <3>1. RegisterAt(i) = warnRegAddr(c)
      BY <2>6, RegistersAre
    <3>2. DesiredWord(i, p) = Units!Encode(p.alerts.warning[c], 40, 3, 13).value
      BY <2>6, DesiredWordIs DEF Units!encodeShuntMicroVolts
    <3>3. Holdable(warnRegAddr(c), Units!Encode(p.alerts.warning[c], 40, 3, 13).value)
      BY <2>1, <2>2, <2>3, <2>4, LimitIsHoldable
    <3> QED
      BY <3>1, <3>2, <3>3
  <2> QED
    BY <1>2, <2>5, <2>6
<1>3. CASE i = 7
  <2>1. p.alerts.sum \in Int /\ Units!Encode(p.alerts.sum, 40, 1, 15).ok
    BY ProfileParts DEF validateProfile, Units!encodeShuntSumMicroVolts
  <2> QED
    BY <1>3, <2>1, SumIsHoldable, RegistersAre, DesiredWordIs DEF Units!encodeShuntSumMicroVolts
<1>4. CASE i = 8
  BY <1>4, ProfileParts, MaskIsReadBack, RegistersAre, DesiredWordIs
<1>5. CASE i = 9 \/ i = 10
  <2>1. /\ p.alerts.upper \in Int /\ p.alerts.lower \in Int
        /\ Units!Encode(p.alerts.upper, 8, 3, 13).ok
        /\ Units!Encode(p.alerts.lower, 8, 3, 13).ok
    BY ProfileParts DEF validateProfile, Units!validatePowerValidWindow,
                        Units!encodeBusMilliVolts
  <2>2. 8 \in {8, 40} /\ REG_PV_UPPER_LIMIT \notin {0, 14, 15}
        /\ REG_PV_LOWER_LIMIT \notin {0, 14, 15}
    BY DEF REG_PV_UPPER_LIMIT, REG_PV_LOWER_LIMIT
  <2>3. /\ Holdable(REG_PV_UPPER_LIMIT, Units!Encode(p.alerts.upper, 8, 3, 13).value)
        /\ Holdable(REG_PV_LOWER_LIMIT, Units!Encode(p.alerts.lower, 8, 3, 13).value)
    BY <2>1, <2>2, LimitIsHoldable
  <2> QED
    BY <1>5, <2>3, RegistersAre, DesiredWordIs DEF Units!encodeBusMilliVolts
<1> QED
  BY <1>1, <1>2, <1>3, <1>4, <1>5, IndexCases

(* The registers hold a profile if each holds the profile's word exactly,  *)
(* and then only.                                                          *)
LEMMA HoldingIsEquality ==
  ASSUME NEW p \in DeviceProfiles, validateProfile(p), NEW i \in 0 .. LastIndex, NEW word,
         Holdable(RegisterAt(i), word)
  PROVE  registerMatches(RegisterAt(i), word, DesiredWord(i, p)) <=> word = DesiredWord(i, p)
<1>1. 0 \in Nat /\ 0 < 1024
  OBVIOUS
<1> QED
  BY <1>1, DesiredIsHoldable, MatchIsEquality

(* Whatever can be held verifies, in spite of the status of Mask/Enable.   *)
LEMMA HoldableVerifies ==
  ASSUME NEW reg, NEW word, Holdable(reg, word), NEW status \in StatusBits
  PROVE  registerMatches(reg, word + (IF reg = REG_MASK_ENABLE THEN status ELSE 0), word)
<1>1. status \in 0 .. 2 ^ 10 - 1
  BY ProfileRegistersAssumption DEF ProfileRegistersAssumption
<1>2. status \in Nat /\ status < 1024
  BY <1>1
<1> QED
  BY <1>2, MatchIsEquality

-----------------------------------------------------------------------------
(* Times *)

(* A larger factor gives a larger product. *)
LEMMA ProductIsMonotone ==
  ASSUME NEW a \in Nat, NEW b \in Nat, a <= b, NEW n \in Nat
  PROVE  a * n \in Nat /\ a * n <= b * n
<1>1. (b - a) * n >= 0
  OBVIOUS
<1>2. (b - a) * n = b * n - a * n
  OBVIOUS
<1>3. a * n \in Nat
  OBVIOUS
<1> QED
  BY <1>1, <1>2, <1>3

(* The table of maximum times is above the nominal one. *)
LEMMA TimesAre ==
  ASSUME NEW ct \in 0 .. 7
  PROVE  /\ convTimeUs[ct] \in Nat /\ convTimeMaximumUs[ct] \in Nat
         /\ convTimeUs[ct] <= convTimeMaximumUs[ct]
         /\ averagingSampleCount[ct] \in Nat
<1>1. ct \in {0, 1, 2, 3, 4, 5, 6, 7}
  OBVIOUS
<1>2. /\ convTimeUs[ct] \in Nat /\ convTimeMaximumUs[ct] \in Nat
      /\ convTimeUs[ct] <= convTimeMaximumUs[ct]
  BY <1>1 DEF convTimeUs, convTimeMaximumUs
<1>3. averagingSampleCount[ct] \in Nat
  BY <1>1 DEF averagingSampleCount
<1> QED
  BY <1>2, <1>3

(* The longest cycle is at least the nominal one. *)
LEMMA CyclesAre ==
  ASSUME NEW s \in Settings
  PROVE  /\ maximumCycleTimeUs(s) \in Nat
         /\ CycleTimeUs(s, convTimeUs) <= maximumCycleTimeUs(s)
<1> DEFINE Once(time) == (IF modeReadsShunt(s.mode) THEN time[s.vShCt] ELSE 0) +
                         (IF modeReadsBus(s.mode) THEN time[s.vBusCt] ELSE 0)
           nominal == Once(convTimeUs)
           longest == Once(convTimeMaximumUs)
           channels == Cardinality(s.channels)
           samples == averagingSampleCount[s.averaging]
<1>1. s.vShCt \in 0 .. 7 /\ s.vBusCt \in 0 .. 7 /\ s.averaging \in 0 .. 7 /\ s.channels \subseteq Channel
  BY ConfigIs
<1>2. nominal \in Nat /\ longest \in Nat /\ nominal <= longest
  BY <1>1, TimesAre
<1>3. channels \in Nat
  <2>1. IsFiniteSet(Channel)
    BY 0 \in Int, 2 \in Int, FS_Interval DEF Channel
  <2>2. IsFiniteSet(s.channels)
    BY <1>1, <2>1, FS_Subset
  <2> QED
    BY <2>2, FS_CardinalityType
<1>4. samples \in Nat
  BY <1>1, TimesAre
<1>5. /\ CycleTimeUs(s, convTimeUs) = nominal * channels * samples
      /\ maximumCycleTimeUs(s) = longest * channels * samples
  BY DEF CycleTimeUs, maximumCycleTimeUs
<1> HIDE DEF nominal, longest, channels, samples
<1>6. nominal * channels \in Nat /\ longest * channels \in Nat
      /\ nominal * channels <= longest * channels
  BY <1>2, <1>3, ProductIsMonotone
<1> DEFINE n == nominal * channels
           l == longest * channels
<1> HIDE DEF n, l
<1>7. n * samples <= l * samples /\ l * samples \in Nat
  BY <1>4, <1>6, ProductIsMonotone DEF n, l
<1> QED
  BY <1>5, <1>7 DEF n, l

(* The wait, in milliseconds, covers the longest cycle and the wake-up.    *)
LEMMA DelayCovers ==
  ASSUME NEW s \in Settings
  PROVE  /\ conversionReadyDelayMs(s) \in Nat
         /\ conversionReadyDelayMs(s) * 1000 >= maximumCycleTimeUs(s) + WakeMarginUs
<1> DEFINE longest == maximumCycleTimeUs(s)
<1>1. longest \in Nat
  BY CyclesAre
<1> HIDE DEF longest
<1>2. /\ (longest + 100 + 999) \div 1000 \in Nat
      /\ ((longest + 100 + 999) \div 1000) * 1000 >= longest + 100
  BY <1>1
<1> QED
  BY <1>2 DEF conversionReadyDelayMs, WakeMarginUs, longest

-----------------------------------------------------------------------------
(* Floats *)

UnitFacts == INSTANCE FixedUnits_proofs WITH
  WordBits <- 16, DataShift <- 3, DataBits <- 13, SumShift <- 1, SumBits <- 15,
  ShuntLsb <- 40, BusLsb <- 8, MaximumBus <- 26000, IntMax <- 2147483647,
  Resistances <- {}, Ranges <- {}, WindowWidths <- {}, input <- 0

(* Powers of two are positive, and add in the exponent. *)
LEMMA Powers ==
  \A m, n \in Nat : 2 ^ (m + n) = 2 ^ m * 2 ^ n /\ 2 ^ m \in Nat \ {0}
BY UnitFacts!PowerOfSum, UnitFacts!PowerIsPositive

(* The next power is the double. *)
LEMMA NextPower ==
  ASSUME NEW n \in Nat
  PROVE  /\ 2 ^ (n + 1) = 2 * 2 ^ n
         /\ 2 ^ n \in Nat \ {0}
<1>1. 2 ^ (n + 1) = 2 ^ n * 2 ^ 1 /\ 2 ^ n \in Nat \ {0}
  BY Powers, 1 \in Nat
<1>2. 2 ^ 1 = 2
  OBVIOUS
<1> QED
  BY <1>1, <1>2

(* A set of natural numbers has a least one. *)
LEMMA LeastOf ==
  ASSUME NEW S \in SUBSET Nat, S # {}
  PROVE  \E k \in S : \A j \in S : k <= j
<1>1. \E k \in S : \A j \in S : ~(<<j, k>> \in OpToRel(<, Nat))
  BY NatLessThanWellFounded, WFMin
<1>2. PICK k \in S : \A j \in S : ~(<<j, k>> \in OpToRel(<, Nat))
  BY <1>1
<1>3. ASSUME NEW j \in S
      PROVE  k <= j
  <2>1. k \in Nat /\ j \in Nat
    OBVIOUS
  <2>2. ~(j < k)
    BY <1>2, <2>1 DEF OpToRel
  <2> QED
    BY <2>1, <2>2
<1> QED
  BY <1>3

(* The quotient is rounded to the nearest integer. *)
LEMMA RoundHalfEvenIs ==
  ASSUME NEW n \in Nat, NEW d \in Nat \ {0}
  PROVE  /\ RoundHalfEven(n, d) \in Nat
         /\ 2 * (RoundHalfEven(n, d) * d - n) <= d
         /\ 2 * (n - RoundHalfEven(n, d) * d) <= d
         /\ n >= d => RoundHalfEven(n, d) > 0
<1> DEFINE q == n \div d
           rest == 2 * (n % d)
<1>1. /\ q \in Nat /\ n % d \in Nat /\ n % d < d
      /\ n = d * q + (n % d)
  OBVIOUS
<1>2. n >= d => q > 0
  BY <1>1
<1>3. RoundHalfEven(n, d) = IF rest > d \/ (rest = d /\ q % 2 = 1) THEN q + 1 ELSE q
  BY DEF RoundHalfEven
<1> DEFINE r == n % d
<1>4. r \in Nat /\ r < d /\ n = d * q + r /\ rest = 2 * r
  BY <1>1
<1> HIDE DEF q, r, rest
<1>5. q * d \in Nat /\ d * q = q * d /\ (q + 1) * d = q * d + d
  BY <1>1
<1>6. CASE RoundHalfEven(n, d) = q + 1 /\ rest >= d
  <2>1. 2 * (q * d + d - n) <= d /\ 2 * (n - (q * d + d)) <= d
    BY <1>4, <1>5, <1>6
  <2> QED
    BY <1>1, <1>5, <1>6, <2>1
<1>7. CASE RoundHalfEven(n, d) = q /\ rest <= d
  <2>1. 2 * (q * d - n) <= d /\ 2 * (n - q * d) <= d
    BY <1>4, <1>5, <1>7
  <2> QED
    BY <1>1, <1>2, <1>7, <2>1
<1>8. rest \in Nat
  BY <1>4
<1> QED
  BY <1>3, <1>6, <1>7, <1>8

(* Every integer of more than FloatBits bits that a float stands for has a *)
(* number of bits to drop.                                                 *)
LEMMA LowBitsExist ==
  ASSUME NEW n \in Nat, n >= 2 ^ FloatBits, n < 2 ^ (2 * FloatBits)
  PROVE  \E k \in 1 .. FloatBits : n >= 2 ^ (FloatBits + k - 1) /\ n < 2 ^ (FloatBits + k)
<1> DEFINE F == FloatBits
           S == {k \in Nat : n < 2 ^ (F + k)}
<1>1. F \in Nat
  BY ProfileRegistersAssumption DEF ProfileRegistersAssumption, FloatAssumption
<1>2. F + F = 2 * F /\ F \in S
  BY <1>1
<1>3. PICK k \in S : \A j \in S : k <= j
  BY <1>2, LeastOf
<1>4. k \in Nat /\ k <= F /\ n < 2 ^ (F + k)
  BY <1>2, <1>3
<1>5. k # 0
  <2>1. F + 0 = F /\ 2 ^ F \in Nat
    BY <1>1, NextPower
  <2> QED
    BY <1>4, <2>1
<1>6. n >= 2 ^ (F + k - 1)
  <2> DEFINE j == k - 1
  <2>1. j \in Nat /\ j < k /\ F + j \in Nat /\ F + k - 1 = F + j
    BY <1>1, <1>4, <1>5
  <2>2. ~(n < 2 ^ (F + j))
    BY <1>3, <2>1
  <2>3. 2 ^ (F + j) \in Nat
    BY <2>1, NextPower
  <2> QED
    BY <2>1, <2>2, <2>3
<1> QED
  BY <1>1, <1>4, <1>5, <1>6

(* The float nearest to a calibration is an integer, and less than twice   *)
(* as large; a small one is exact.                                         *)
LEMMA NearestFloatIs ==
  ASSUME NEW n \in Calibration \ {0}
  PROVE  /\ NearestFloat(n) \in Nat \ {0} /\ NearestFloat(n) <= 2 * n
         /\ n < 2 ^ FloatBits => NearestFloat(n) = n
<1> DEFINE F == FloatBits
<1>1. /\ F \in Nat \ {0} /\ MaxMicroOhms \in Nat /\ MaxMicroOhms < 2 ^ (2 * F)
      /\ n \in Nat \ {0} /\ n <= MaxMicroOhms
  BY ProfileRegistersAssumption DEF ProfileRegistersAssumption, FloatAssumption, Calibration
<1>2. 2 ^ F \in Nat /\ 2 ^ (2 * F) \in Nat
  BY <1>1, NextPower
<1>3. CASE n < 2 ^ F
  BY <1>1, <1>3 DEF NearestFloat
<1>4. CASE n >= 2 ^ F
  <2> DEFINE Drops(k) == n >= 2 ^ (F + k - 1) /\ n < 2 ^ (F + k)
             low == CHOOSE k \in 1 .. F : Drops(k)
             step == 2 ^ low
             rounded == RoundHalfEven(n, step)
  <2>1. \E k \in 1 .. F : Drops(k)
    <3>1. n < 2 ^ (2 * FloatBits) /\ n \in Nat /\ n >= 2 ^ FloatBits
      BY <1>1, <1>2, <1>4
    <3> QED
      BY <3>1, LowBitsExist
  <2>2. low \in 1 .. F /\ Drops(low)
    BY <2>1
  <2>3. NearestFloat(n) = rounded * step
    BY <1>1, <1>2, <1>4 DEF NearestFloat
  <2> HIDE DEF low
  <2>4. low \in Nat /\ F - 1 \in Nat /\ n >= 2 ^ ((F - 1) + low)
    <3>1. F + low - 1 = (F - 1) + low
      BY <1>1, <2>2
    <3> QED
      BY <1>1, <2>2, <3>1
  <2>5. 2 ^ ((F - 1) + low) = 2 ^ (F - 1) * step /\ 2 ^ (F - 1) \in Nat \ {0} /\ step \in Nat \ {0}
    BY <2>4, Powers
  <2> HIDE DEF step
  <2>6. n >= step
    <3> DEFINE a == 2 ^ (F - 1)
    <3>1. a \in Nat \ {0} /\ n >= a * step
      BY <2>4, <2>5
    <3> HIDE DEF a
    <3>2. a * step >= step
      BY <2>5, <3>1
    <3>3. a * step \in Nat
      BY <2>5, <3>1
    <3> QED
      BY <1>1, <2>5, <3>1, <3>2, <3>3
  <2>7. /\ rounded \in Nat /\ rounded > 0
        /\ 2 * (rounded * step - n) <= step
    BY <1>1, <2>5, <2>6, RoundHalfEvenIs
  <2> HIDE DEF rounded
  <2>8. rounded * step \in Nat /\ rounded * step # 0
    BY <2>5, <2>7
  <2> DEFINE product == rounded * step
  <2> HIDE DEF product
  <2>9. product \in Nat \ {0} /\ 2 * (product - n) <= step
    BY <2>7, <2>8 DEF product
  <2>10. product <= 2 * n
    BY <1>1, <2>5, <2>6, <2>9
  <2> QED
    BY <1>1, <1>2, <1>4, <2>3, <2>9, <2>10 DEF product
<1> QED
  BY <1>1, <1>2, <1>3, <1>4

(* The quotient has a scale. *)
LEMMA ScaleExists ==
  ASSUME NEW n \in Nat \ {0}, n < 2 ^ FloatBits * MicroPerUnit
  PROVE  \E k \in 0 .. 2 * FloatBits : IsScale(n, k)
<1> DEFINE F == FloatBits
           M == MicroPerUnit
           bound == 2 ^ F * M
           S == {k \in Nat : n * 2 ^ (k + 1) >= bound}
<1>1. F \in Nat /\ M \in Nat /\ M <= 2 ^ (F + 1)
  BY ProfileRegistersAssumption DEF ProfileRegistersAssumption, FloatAssumption
<1>2. bound \in Nat
  <2>1. 2 ^ F \in Nat
    BY <1>1, NextPower
  <2> QED
    BY <1>1, <2>1
<1>3. 2 * F \in S
  <2> DEFINE power == 2 ^ (2 * F + 1)
             half == 2 ^ F
             other == 2 ^ (F + 1)
  <2>1. power = half * other /\ half \in Nat /\ other \in Nat
    <3>1. 2 * F + 1 = F + (F + 1) /\ F + 1 \in Nat
      BY <1>1
    <3> QED
      BY <1>1, <3>1, Powers
  <2>2. M <= other
    BY <1>1
  <2> HIDE DEF power, half, other
  <2>3. half * M <= half * other /\ half * other \in Nat /\ half * M \in Nat
    <3>1. M * half <= other * half /\ M * half \in Nat
      BY <1>1, <2>1, <2>2, ProductIsMonotone
    <3> QED
      BY <1>1, <2>1, <3>1
  <2>4. power <= n * power /\ n * power \in Nat
    <3>1. power \in Nat
      BY <2>1, <2>3
    <3>2. 1 * power <= n * power
      BY <3>1, 1 \in Nat, ProductIsMonotone
    <3> QED
      BY <3>1, <3>2
  <2>5. half * M = bound
    BY DEF half
  <2>6. bound <= n * power
    BY <1>2, <2>1, <2>3, <2>4, <2>5
  <2> QED
    BY <1>1, <2>6 DEF power
<1>4. PICK k \in S : \A j \in S : k <= j
  BY <1>3, LeastOf
<1>5. k \in Nat /\ k <= 2 * F /\ n * 2 ^ (k + 1) >= bound
  BY <1>3, <1>4
<1>6. n * 2 ^ k < bound
  <2>1. CASE k = 0
    <3>1. 2 ^ 0 = 1
      OBVIOUS
    <3> QED
      BY <2>1, <3>1
  <2>2. CASE k # 0
    <3> DEFINE j == k - 1
    <3>1. j \in Nat /\ j < k /\ j + 1 = k
      BY <1>5, <2>2
    <3>2. ~(n * 2 ^ (j + 1) >= bound)
      BY <1>4, <1>5, <3>1
    <3>3. n * 2 ^ (j + 1) \in Nat
      <4>1. 2 ^ (j + 1) \in Nat
        BY <3>1, NextPower
      <4> QED
        BY <4>1
    <3> QED
      BY <1>2, <3>1, <3>2, <3>3
  <2> QED
    BY <2>1, <2>2
<1> QED
  BY <1>1, <1>5, <1>6 DEF IsScale

(* The float of a calibration: zero, or the rounded quotient at its scale *)
LEMMA FloatOhmsIs ==
  ASSUME NEW micro \in Calibration
  PROVE  \E mantissa \in Nat, k \in Nat :
           /\ FloatOhms(micro) = [mantissa |-> mantissa, scale |-> k]
           /\ micro = 0 => mantissa = 0 /\ k = 0
           /\ micro # 0 => /\ IsScale(NearestFloat(micro), k)
                           /\ mantissa = RoundHalfEven(NearestFloat(micro) * 2 ^ k, MicroPerUnit)
<1>1. CASE micro = 0
  <2>1. FloatOhms(micro) = [mantissa |-> 0, scale |-> 0] /\ 0 \in Nat
    BY <1>1 DEF FloatOhms
  <2> QED
    BY <1>1, <2>1
<1>2. CASE micro # 0
  <2> DEFINE n == NearestFloat(micro)
             k == CHOOSE j \in 0 .. 2 * FloatBits : IsScale(n, j)
             mantissa == RoundHalfEven(n * 2 ^ k, MicroPerUnit)
  <2>1. n \in Nat \ {0} /\ n <= 2 * micro
    BY <1>2, NearestFloatIs
  <2>2. /\ FloatBits \in Nat /\ MicroPerUnit \in Nat \ {0} /\ MaxMicroOhms \in Nat
        /\ 2 * MaxMicroOhms < 2 ^ FloatBits * MicroPerUnit
        /\ micro \in Nat /\ micro <= MaxMicroOhms
    BY ProfileRegistersAssumption DEF ProfileRegistersAssumption, FloatAssumption, Calibration
  <2>3. n < 2 ^ FloatBits * MicroPerUnit
    <3>1. 2 ^ FloatBits \in Nat
      BY <2>2, NextPower
    <3> HIDE DEF n
    <3>2. 2 ^ FloatBits * MicroPerUnit \in Nat
      BY <2>2, <3>1
    <3> QED
      BY <2>1, <2>2, <3>2
  <2>4. \E j \in 0 .. 2 * FloatBits : IsScale(n, j)
    <3> HIDE DEF n
    <3> QED
      BY <2>1, <2>3, ScaleExists
  <2>5. k \in 0 .. 2 * FloatBits /\ IsScale(n, k)
    BY <2>4
  <2>6. FloatOhms(micro) = [mantissa |-> mantissa, scale |-> k]
    BY <1>2 DEF FloatOhms
  <2> HIDE DEF k, n
  <2>7. k \in Nat
    BY <2>2, <2>5
  <2>8. mantissa \in Nat
    <3>1. 2 ^ k \in Nat
      BY <2>7, NextPower
    <3>2. n * 2 ^ k \in Nat
      BY <2>1, <3>1
    <3> QED
      BY <2>2, <3>2, RoundHalfEvenIs
  <2> QED
    BY <1>2, <2>5, <2>6, <2>7, <2>8 DEF n
<1> QED
  BY <1>1, <1>2

(* The rounded product of a float in range *)
LEMMA RoundedProduct ==
  ASSUME NEW product \in Nat, NEW one \in Nat \ {0}, NEW r \in Nat
  PROVE  /\ (2 * product + one) \div (2 * one) \in Nat
         /\ product <= r * one => (2 * product + one) \div (2 * one) <= r
         /\ 2 * (product - r * one) < one /\ 2 * (r * one - product) < one =>
              (2 * product + one) \div (2 * one) = r
<1> DEFINE n == 2 * product + one
           d == 2 * one
           q == n \div d
<1>1. n \in Nat /\ d \in Nat \ {0}
  OBVIOUS
<1> HIDE DEF n, d
<1>2. q \in Nat /\ q * d <= n /\ n < q * d + d
  <2>1. q \in Nat /\ n % d \in Nat /\ n % d < d /\ n = d * q + (n % d)
    BY <1>1
  <2> DEFINE rest == n % d
  <2> HIDE DEF q, rest
  <2>2. rest \in Nat /\ rest < d /\ n = d * q + rest
    BY <2>1 DEF rest
  <2>3. q \in Nat /\ d * q = q * d /\ q * d \in Nat
    BY <1>1, <2>1
  <2> QED
    BY <1>1, <2>2, <2>3
<1> HIDE DEF q
<1> DEFINE whole == q * one
           most == r * one
<1>3. whole \in Nat /\ most \in Nat /\ q * d = 2 * whole
  BY <1>2 DEF d
<1>4. q > r => whole >= most + one
  <2>1. ASSUME q > r
        PROVE  whole >= most + one
    <3>1. (r + 1) * one <= q * one
      BY <1>2, <2>1, r + 1 \in Nat, ProductIsMonotone
    <3>2. (r + 1) * one = most + one
      OBVIOUS
    <3> QED
      BY <3>1, <3>2
  <2> QED
    BY <2>1
<1>5. q < r => whole + one <= most
  <2>1. ASSUME q < r
        PROVE  whole + one <= most
    <3>1. (q + 1) * one <= r * one
      BY <1>2, <2>1, q + 1 \in Nat, ProductIsMonotone
    <3>2. (q + 1) * one = whole + one
      BY <1>2
    <3> QED
      BY <3>1, <3>2
  <2> QED
    BY <2>1
<1> HIDE DEF whole, most
<1>6. 2 * whole <= 2 * product + one /\ 2 * product + one < 2 * whole + 2 * one
  BY <1>2, <1>3 DEF n, d
<1>7. product <= most => q <= r
  BY <1>2, <1>3, <1>4, <1>6
<1>8. 2 * (product - most) < one /\ 2 * (most - product) < one => q = r
  BY <1>2, <1>3, <1>4, <1>5, <1>6
<1> QED
  BY <1>2, <1>7, <1>8 DEF q, n, d, most

(* Every float is a calibration or none. *)
LEMMA MicroOhmsIs ==
  ASSUME NEW mantissa \in Nat, NEW k \in Nat
  PROVE  MicroOhms([mantissa |-> mantissa, scale |-> k]) \in Calibration
<1> DEFINE product == mantissa * MicroPerUnit
           one == 2 ^ k
           rounded == (2 * product + one) \div (2 * one)
<1>1. MicroPerUnit \in Nat /\ MaxMicroOhms \in Nat
  BY ProfileRegistersAssumption DEF ProfileRegistersAssumption, FloatAssumption
<1>2. product \in Nat
  BY <1>1
<1>3. one \in Nat \ {0}
  BY NextPower
<1>4. MicroOhms([mantissa |-> mantissa, scale |-> k]) =
        IF product < one \/ product > MaxMicroOhms * one THEN 0 ELSE rounded
  BY DEF MicroOhms
<1> HIDE DEF product, one
<1>5. MaxMicroOhms * one \in Nat
  BY <1>1, <1>3
<1>6. rounded \in Nat /\ (product <= MaxMicroOhms * one => rounded <= MaxMicroOhms)
  BY <1>1, <1>2, <1>3, RoundedProduct
<1> HIDE DEF rounded
<1>7. 0 \in Calibration
  BY <1>1 DEF Calibration
<1>8. rounded <= MaxMicroOhms => rounded \in Calibration
  BY <1>1, <1>6 DEF Calibration
<1>9. ~(product > MaxMicroOhms * one) => product <= MaxMicroOhms * one
  BY <1>2, <1>5
<1> QED
  BY <1>4, <1>6, <1>7, <1>8, <1>9

(* A small calibration but 1 comes back from its float as it was. *)
LEMMA SmallIsReadBack ==
  ASSUME NEW micro \in Calibration, micro # 1, micro < 2 ^ (FloatBits - 1)
  PROVE  MicroOhms(FloatOhms(micro)) = micro
<1> DEFINE F == FloatBits
           M == MicroPerUnit
<1>1. /\ F \in Nat \ {0} /\ M \in Nat \ {0} /\ MaxMicroOhms \in Nat /\ 2 ^ F <= MaxMicroOhms
      /\ micro \in Nat
  BY ProfileRegistersAssumption DEF ProfileRegistersAssumption, FloatAssumption, Calibration
<1>2. F - 1 \in Nat /\ (F - 1) + 1 = F
  BY <1>1
<1>3. 2 ^ F = 2 * 2 ^ (F - 1) /\ 2 ^ (F - 1) \in Nat \ {0}
  BY <1>2, NextPower
<1>4. PICK mantissa \in Nat, k \in Nat :
           /\ FloatOhms(micro) = [mantissa |-> mantissa, scale |-> k]
           /\ micro = 0 => mantissa = 0 /\ k = 0
           /\ micro # 0 => /\ IsScale(NearestFloat(micro), k)
                           /\ mantissa = RoundHalfEven(NearestFloat(micro) * 2 ^ k, MicroPerUnit)
  BY FloatOhmsIs
<1> DEFINE product == mantissa * M
           one == 2 ^ k
           rounded == (2 * product + one) \div (2 * one)
<1>5. one \in Nat \ {0} /\ 2 ^ (k + 1) = 2 * one
  BY NextPower
<1>6. product \in Nat
  BY <1>1
<1>7. MicroOhms(FloatOhms(micro)) =
        IF product < one \/ product > MaxMicroOhms * one THEN 0 ELSE rounded
  BY <1>4 DEF MicroOhms
<1>8. CASE micro = 0
  <2>1. product = 0
    BY <1>1, <1>4, <1>8
  <2> HIDE DEF product, one
  <2> QED
    BY <1>5, <1>7, <1>8, <2>1
<1>9. CASE micro >= 2
  <2>1. NearestFloat(micro) = micro /\ micro < 2 ^ F
    <3>1. micro < 2 ^ F /\ micro \in Calibration \ {0}
      BY <1>1, <1>3, <1>9
    <3> QED
      BY <3>1, NearestFloatIs
  <2>2. micro # 0
    BY <1>9
  <2>3. mantissa = RoundHalfEven(micro * one, M) /\ micro * (2 * one) >= 2 ^ F * M
    BY <1>4, <1>5, <2>1, <2>2 DEF IsScale
  <2> DEFINE exact == micro * one
  <2> HIDE DEF one
  <2>4. exact \in Nat /\ micro * (2 * one) = 2 * exact
    BY <1>1, <1>5
  <2>5. 2 * (product - exact) <= M /\ 2 * (exact - product) <= M
    BY <1>1, <2>3, <2>4, RoundHalfEvenIs
  <2>6. M < one
    <3> DEFINE half == 2 ^ (F - 1)
    <3>1. half \in Nat \ {0} /\ micro + 1 <= half
      BY <1>1, <1>3
    <3>2. 2 ^ F * M = 2 * (half * M)
      <4>1. 2 ^ F = 2 * half
        BY <1>3
      <4> HIDE DEF half
      <4> QED
        BY <1>1, <3>1, <4>1
    <3> HIDE DEF half
    <3>3. (micro + 1) * M <= half * M /\ (micro + 1) * M = micro * M + M
      <4>1. (micro + 1) * M <= half * M
        BY <1>1, <3>1, micro + 1 \in Nat, ProductIsMonotone
      <4> QED
        BY <1>1, <4>1
    <3>4. exact >= micro * M + M
      <4>1. micro * M \in Nat /\ half * M \in Nat /\ 2 * exact >= 2 * (half * M)
        BY <1>1, <2>3, <2>4, <3>1, <3>2
      <4> HIDE DEF exact
      <4> QED
        BY <1>1, <2>4, <3>3, <4>1
    <3>5. one <= M => exact <= micro * M
      <4>1. ASSUME one <= M
            PROVE  exact <= micro * M
        <5>1. one * micro <= M * micro
          BY <1>1, <1>5, <4>1, ProductIsMonotone
        <5> QED
          BY <1>1, <1>5, <5>1
      <4> QED
        BY <4>1
    <3>6. micro * M \in Nat
      BY <1>1
    <3> HIDE DEF exact
    <3> QED
      BY <1>1, <1>5, <2>4, <3>4, <3>5, <3>6
  <2>7. exact >= 2 * one
    <3>1. 2 * one <= micro * one
      BY <1>1, <1>5, <1>9, 2 \in Nat, ProductIsMonotone
    <3> QED
      BY <3>1
  <2>8. exact + one <= MaxMicroOhms * one /\ MaxMicroOhms * one \in Nat
    <3>1. micro + 1 <= MaxMicroOhms
      BY <1>1, <1>3, <2>1
    <3>2. (micro + 1) * one <= MaxMicroOhms * one /\ (micro + 1) * one = exact + one
      <4>1. (micro + 1) * one <= MaxMicroOhms * one
        BY <1>1, <1>5, <3>1, micro + 1 \in Nat, ProductIsMonotone
      <4> QED
        BY <1>1, <1>5, <4>1
    <3>3. MaxMicroOhms * one \in Nat
      BY <1>1, <1>5
    <3> QED
      BY <3>2, <3>3
  <2>9. 2 * (product - micro * one) < one /\ 2 * (micro * one - product) < one
    <3> HIDE DEF product, exact
    <3>1. 2 * (product - exact) < one /\ 2 * (exact - product) < one
      BY <1>1, <1>5, <1>6, <2>4, <2>5, <2>6
    <3> QED
      BY <3>1 DEF exact
  <2>10. rounded = micro
    <3> HIDE DEF product
    <3> QED
      BY <1>1, <1>5, <1>6, <2>9, RoundedProduct
  <2>11. ~(product < one) /\ ~(product > MaxMicroOhms * one)
    <3> DEFINE most == MaxMicroOhms * one
    <3>1. most \in Nat /\ exact + one <= most
      BY <2>8
    <3> HIDE DEF product, exact, most
    <3>2. ~(product < one) /\ ~(product > most)
      BY <1>1, <1>5, <1>6, <2>4, <2>5, <2>6, <2>7, <3>1
    <3> QED
      BY <3>2 DEF most
  <2> QED
    BY <1>7, <2>10, <2>11
<1>10. micro = 0 \/ micro >= 2
  BY <1>1
<1> QED
  BY <1>8, <1>9, <1>10

(* setShuntResistance retains a calibration. *)
LEMMA FloatIsCalibration ==
  ASSUME NEW micro \in Calibration
  PROVE  MicroOhms(FloatOhms(micro)) \in Calibration
<1>1. \E mantissa \in Nat, k \in Nat : FloatOhms(micro) = [mantissa |-> mantissa, scale |-> k]
  BY FloatOhmsIs
<1> QED
  BY <1>1, MicroOhmsIs

-----------------------------------------------------------------------------
(* The registers after a job *)

Written(regs, p) ==
  [reg \in WritableAddress |->
     LET index == CHOOSE i \in 0 .. LastIndex : RegisterAt(i) = reg
         desired == DesiredWord(index, p)
     IN IF registerMatches(reg, regs[reg], desired) THEN regs[reg] ELSE Held(reg, desired)]

(* A job leaves every register with the profile's word, whatever was there *)
(* before that a device can hold.                                          *)
LEMMA WrittenIs ==
  ASSUME NEW regs, \A reg \in WritableAddress : Holdable(reg, regs[reg]),
         NEW p \in DeviceProfiles, validateProfile(p)
  PROVE  /\ \A i \in 0 .. LastIndex : Written(regs, p)[RegisterAt(i)] = DesiredWord(i, p)
         /\ \A reg \in WritableAddress : Holdable(reg, Written(regs, p)[reg])
         /\ Written(regs, p) \in [WritableAddress -> RawWords]
<1>1. ASSUME NEW i \in 0 .. LastIndex
      PROVE  /\ Written(regs, p)[RegisterAt(i)] = DesiredWord(i, p)
             /\ Holdable(RegisterAt(i), Written(regs, p)[RegisterAt(i)])
  <2> DEFINE reg == RegisterAt(i)
             desired == DesiredWord(i, p)
             index == CHOOSE k \in 0 .. LastIndex : RegisterAt(k) = reg
  <2>1. reg \in WritableAddress /\ index = i
    BY IndexIs
  <2>2. Written(regs, p)[reg] =
          LET word == DesiredWord(index, p)
          IN IF registerMatches(reg, regs[reg], word) THEN regs[reg] ELSE Held(reg, word)
    BY <2>1 DEF Written
  <2> HIDE DEF index
  <2>3. Written(regs, p)[reg] =
          IF registerMatches(reg, regs[reg], desired) THEN regs[reg] ELSE Held(reg, desired)
    BY <2>1, <2>2
  <2>4. Holdable(reg, desired)
    BY DesiredIsHoldable
  <2>5. registerMatches(reg, regs[reg], desired) <=> regs[reg] = desired
    BY <2>1, HoldingIsEquality
  <2>6. Held(reg, desired) = desired
    BY <2>4 DEF Holdable
  <2> HIDE DEF reg, desired
  <2>7. Written(regs, p)[reg] = desired
    BY <2>3, <2>5, <2>6
  <2> QED
    BY <2>4, <2>7 DEF reg, desired
<1>2. \A reg \in WritableAddress : Holdable(reg, Written(regs, p)[reg])
  BY <1>1, IndexIs
<1>3. DOMAIN Written(regs, p) = WritableAddress
  BY DEF Written
<1>4. \A reg \in WritableAddress : Written(regs, p)[reg] \in RawWords
  BY <1>2 DEF Holdable
<1>5. Written(regs, p) = [reg \in WritableAddress |-> Written(regs, p)[reg]]
  BY DEF Written
<1>6. Written(regs, p) \in [WritableAddress -> RawWords]
  BY <1>4, <1>5
<1> QED
  BY <1>1, <1>2, <1>6

(* Registers with a profile's words hold it, as a job compares them. *)
LEMMA WordsMatch ==
  ASSUME NEW p \in DeviceProfiles, validateProfile(p), NEW i \in 0 .. LastIndex
  PROVE  registerMatches(RegisterAt(i), DesiredWord(i, p), DesiredWord(i, p))
  BY DesiredIsHoldable, HoldingIsEquality

(* A word that can be held is held, and verifies. *)
LEMMA WriteOfHoldable ==
  ASSUME NEW reg, NEW word, Holdable(reg, word)
  PROVE  Held(reg, word) = word /\ Verifies(reg, word)
  BY HoldableVerifies DEF Verifies, Holdable

(* The alert registers follow from the alert profile, Configuration from   *)
(* the settings.                                                           *)
LEMMA SameWords ==
  ASSUME NEW p, NEW q
  PROVE  /\ p.alerts = q.alerts =>
              \A i \in 0 .. LastIndex : i # 0 => DesiredWord(i, p) = DesiredWord(i, q)
         /\ p.settings = q.settings => DesiredWord(0, p) = DesiredWord(0, q)
<1>1. ASSUME p.alerts = q.alerts, NEW i \in 0 .. LastIndex, i # 0
      PROVE  DesiredWord(i, p) = DesiredWord(i, q)
  BY <1>1, IndexCases, DesiredWordIs
<1> QED
  BY <1>1, DesiredWordIs

(* The view of a profile *)
LEMMA ViewIs ==
  ASSUME NEW p, p.settings \in Settings
  PROVE  /\ syncLegacyConfigViewFromProfile(p) \in
              [settings : Settings, ohms : {[c \in Channel |-> FloatOhms(p.resistance[c])]}]
         /\ syncLegacyConfigViewFromProfile(p).settings = p.settings
  BY DEF syncLegacyConfigViewFromProfile

(* Which index is Configuration's *)
LEMMA ConfigIsFirst ==
  ASSUME NEW i \in 0 .. LastIndex
  PROVE  /\ RegisterAt(i) = REG_CONFIG <=> i = 0
         /\ i = 0 => FamilyOf(RegisterAt(i)) = "MEASUREMENT"
         /\ i # 0 => FamilyOf(RegisterAt(i)) = "ALERT"
  BY RegisterAtIs DEF FamilyOf, REG_CONFIG, LastIndex

-----------------------------------------------------------------------------
(* Jobs *)

(* A job for a valid profile keeps the invariant, and verifies. *)
LEMMA JobKeeps ==
  ASSUME ProfileIInv, NEW p \in DeviceProfiles, validateProfile(p), ProfileJob(p)
  PROVE  ProfileIInv'
<1>1. \A reg \in WritableAddress : Holdable(reg, registers[reg])
  BY DEF ProfileIInv, WordsAreHoldable
<1>2. AfterProfileJob(p) = Written(registers, p)
  BY DEF AfterProfileJob, Written
<1>3. /\ \A i \in 0 .. LastIndex : AfterProfileJob(p)[RegisterAt(i)] = DesiredWord(i, p)
      /\ \A reg \in WritableAddress : Holdable(reg, AfterProfileJob(p)[reg])
      /\ AfterProfileJob(p) \in [WritableAddress -> RawWords]
  BY <1>1, <1>2, WrittenIs
<1>4. JobVerifies(p)
  BY <1>3, DesiredIsHoldable, HoldableVerifies DEF JobVerifies
<1>5. /\ registers' = AfterProfileJob(p)
      /\ conversion' = NoConversion
      /\ profile' = p
      /\ view' = syncLegacyConfigViewFromProfile(p)
      /\ viewed' = TRUE
      /\ applied' = Family
      /\ outcome' = "OK"
  BY <1>4 DEF ProfileJob
<1>6. p.settings \in Settings
  BY DEF validateProfile, ValidSettings
<1>7. TypeOK'
  BY <1>3, <1>5, <1>6, ViewIs DEF TypeOK, NoConversion
<1>8. ProfileStaysValid'
  BY <1>5 DEF ProfileStaysValid
<1>9. WordsAreHoldable'
  BY <1>3, <1>5 DEF WordsAreHoldable
<1>10. RegistersHoldTheProfile'
  BY <1>3, <1>5, WordsMatch DEF RegistersHoldTheProfile
<1>11. HealthyDeviceVerifies'
  BY <1>5 DEF HealthyDeviceVerifies
<1>12. ViewHolds'
  <2>1. registers'[RegisterAt(0)] = DesiredWord(0, p) /\ RegisterAt(0) = REG_CONFIG
    BY <1>3, <1>5, RegistersAre
  <2>2. registers'[REG_CONFIG] = buildConfigRegister(p.settings)
    BY <2>1, DesiredWordIs
  <2>3. view'.settings = p.settings
    BY <1>5, <1>6, ViewIs
  <2> QED
    BY <2>2, <2>3 DEF ViewHolds
<1>13. ConversionIsViewed'
  BY <1>5 DEF ConversionIsViewed, NoConversion
<1> QED
  BY <1>7, <1>8, <1>9, <1>10, <1>11, <1>12, <1>13 DEF ProfileIInv

-----------------------------------------------------------------------------
(* Writes of one register *)

(* A verified write of Configuration for a profile with the same alerts    *)
(* keeps the invariant, and verifies.                                      *)
LEMMA ConfigWriteKeeps ==
  ASSUME ProfileIInv, NEW p \in DeviceProfiles, validateProfile(p), p.alerts = profile.alerts,
         applyConfigVerified(p)
  PROVE  ProfileIInv'
<1> DEFINE word == buildConfigRegister(p.settings)
<1>1. p.settings \in Settings
  BY DEF validateProfile, ValidSettings
<1>2. Holdable(REG_CONFIG, word) /\ word \in RawWords
  BY <1>1, ConfigIsReadBack DEF Holdable
<1>3. Held(REG_CONFIG, word) = word /\ Verifies(REG_CONFIG, word)
  BY <1>2, WriteOfHoldable
<1>4. /\ registers' = [registers EXCEPT ![REG_CONFIG] = word]
      /\ profile' = p
      /\ applied' = applied \union {"MEASUREMENT"}
      /\ outcome' = "OK"
      /\ view' = syncLegacyConfigViewFromProfile(p)
      /\ viewed' = TRUE
      /\ conversion' = ConversionUnder(p.settings)
  BY <1>3 DEF applyConfigVerified, WriteVerified
<1>5. REG_CONFIG \in WritableAddress
  BY DEF WritableAddress
<1>6. registers \in [WritableAddress -> RawWords]
  BY DEF ProfileIInv, TypeOK
<1>7. /\ registers' \in [WritableAddress -> RawWords]
      /\ registers'[REG_CONFIG] = word
      /\ \A reg \in WritableAddress : reg # REG_CONFIG => registers'[reg] = registers[reg]
  BY <1>2, <1>4, <1>5, <1>6
<1> HIDE DEF word
<1>8. TypeOK'
  <2>1. applied' \subseteq Family
    BY <1>4 DEF ProfileIInv, TypeOK, Family
  <2>2. conversion' \in [state : {"NONE", "STARTED", "READY"}, delay : Nat]
    BY <1>1, <1>4, DelayCovers DEF ConversionUnder, NoConversion
  <2> QED
    BY <1>1, <1>4, <1>7, <2>1, <2>2, ViewIs DEF TypeOK
<1>9. ProfileStaysValid'
  BY <1>4 DEF ProfileStaysValid
<1>10. WordsAreHoldable'
  BY <1>2, <1>7 DEF WordsAreHoldable, ProfileIInv
<1>11. RegistersHoldTheProfile'
  <2> SUFFICES ASSUME NEW i \in 0 .. LastIndex, FamilyOf(RegisterAt(i)) \in applied'
               PROVE  registerMatches(RegisterAt(i), registers'[RegisterAt(i)], DesiredWord(i, p))
    BY <1>4 DEF RegistersHoldTheProfile
  <2>1. CASE i = 0
    <3>1. RegisterAt(i) = REG_CONFIG /\ DesiredWord(i, p) = word
      BY <2>1, RegistersAre, DesiredWordIs DEF word
    <3>2. registerMatches(RegisterAt(i), DesiredWord(i, p), DesiredWord(i, p))
      BY WordsMatch
    <3> QED
      BY <1>7, <3>1, <3>2
  <2>2. CASE i # 0
    <3>1. RegisterAt(i) # REG_CONFIG /\ FamilyOf(RegisterAt(i)) = "ALERT"
      BY <2>2, ConfigIsFirst
    <3>2. FamilyOf(RegisterAt(i)) \in applied
      BY <1>4, <3>1
    <3>3. registers'[RegisterAt(i)] = registers[RegisterAt(i)]
      BY <1>7, <3>1, IndexIs
    <3>4. DesiredWord(i, p) = DesiredWord(i, profile)
      BY <2>2, SameWords
    <3> QED
      BY <3>2, <3>3, <3>4 DEF ProfileIInv, RegistersHoldTheProfile
  <2> QED
    BY <2>1, <2>2
<1>12. HealthyDeviceVerifies'
  BY <1>4 DEF HealthyDeviceVerifies
<1>13. ViewHolds'
  BY <1>1, <1>4, <1>7, ViewIs DEF ViewHolds, word
<1>14. ConversionIsViewed'
  BY <1>1, <1>4, ViewIs DEF ConversionIsViewed, ConversionUnder, NoConversion
<1> QED
  BY <1>8, <1>9, <1>10, <1>11, <1>12, <1>13, <1>14 DEF ProfileIInv

(* A read of Mask/Enable may find a conversion ready, and starts none. *)
LEMMA ReadinessIs ==
  ASSUME conversion \in [state : {"NONE", "STARTED", "READY"}, delay : Nat],
         conversion' \in MaybeReady
  PROVE  /\ conversion' \in [state : {"NONE", "STARTED", "READY"}, delay : Nat]
         /\ conversion'.state # "NONE" => conversion.state # "NONE"
         /\ conversion'.delay = conversion.delay
<1>1. CASE conversion' = conversion
  BY <1>1
<1>2. CASE conversion.state = "STARTED" /\ conversion' = [conversion EXCEPT !.state = "READY"]
  BY <1>2
<1> QED
  BY <1>1, <1>2 DEF MaybeReady

(* A verified write of an alert register, for a profile that differs in    *)
(* that register alone, keeps the invariant, and verifies.                 *)
LEMMA AlertWriteKeeps ==
  ASSUME ProfileIInv, NEW p \in DeviceProfiles, validateProfile(p),
         p.settings = profile.settings, p.resistance = profile.resistance,
         NEW j \in 0 .. LastIndex, j # 0,
         \A i \in 0 .. LastIndex : i # j => DesiredWord(i, p) = DesiredWord(i, profile),
         WriteAlert(RegisterAt(j), DesiredWord(j, p), p)
  PROVE  ProfileIInv'
<1> DEFINE reg == RegisterAt(j)
           word == DesiredWord(j, p)
<1>1. /\ Holdable(reg, word) /\ word \in RawWords
      /\ reg \in WritableAddress /\ reg # REG_CONFIG
  BY DesiredIsHoldable, IndexIs, ConfigIsFirst DEF Holdable
<1>2. Held(reg, word) = word /\ Verifies(reg, word)
  BY <1>1, WriteOfHoldable
<1>3. /\ registers' = [registers EXCEPT ![reg] = word]
      /\ profile' = p
      /\ applied' = applied
      /\ outcome' = "OK"
  BY <1>1, <1>2 DEF WriteAlert, WriteVerified
<1>4. view' = view /\ viewed' = viewed /\ conversion' \in MaybeReady
  BY DEF WriteAlert, MaybeReady
<1>5. registers \in [WritableAddress -> RawWords]
  BY DEF ProfileIInv, TypeOK
<1>6. /\ registers' \in [WritableAddress -> RawWords]
      /\ registers'[reg] = word
      /\ \A r \in WritableAddress : r # reg => registers'[r] = registers[r]
  BY <1>1, <1>3, <1>5
<1>7. /\ conversion' \in [state : {"NONE", "STARTED", "READY"}, delay : Nat]
      /\ conversion'.state # "NONE" => conversion.state # "NONE"
      /\ conversion'.delay = conversion.delay
  BY <1>4, ReadinessIs DEF ProfileIInv, TypeOK
<1>8. TypeOK'
  BY <1>3, <1>4, <1>6, <1>7 DEF ProfileIInv, TypeOK
<1>9. ProfileStaysValid'
  BY <1>3 DEF ProfileStaysValid
<1>10. WordsAreHoldable'
  BY <1>1, <1>6 DEF ProfileIInv, WordsAreHoldable
<1>11. RegistersHoldTheProfile'
  <2> SUFFICES ASSUME NEW i \in 0 .. LastIndex, FamilyOf(RegisterAt(i)) \in applied'
               PROVE  registerMatches(RegisterAt(i), registers'[RegisterAt(i)], DesiredWord(i, p))
    BY <1>3 DEF RegistersHoldTheProfile
  <2>1. CASE i = j
    BY <1>6, <2>1, WordsMatch
  <2>2. CASE i # j
    <3>1. RegisterAt(i) # reg
      BY <2>2, IndexIs
    <3>2. registers'[RegisterAt(i)] = registers[RegisterAt(i)]
      BY <1>6, <3>1, IndexIs
    <3> QED
      BY <1>3, <2>2, <3>2 DEF ProfileIInv, RegistersHoldTheProfile
  <2> QED
    BY <2>1, <2>2
<1>12. HealthyDeviceVerifies'
  BY <1>3 DEF HealthyDeviceVerifies
<1>13. ViewHolds'
  <2>1. registers'[REG_CONFIG] = registers[REG_CONFIG]
    BY <1>1, <1>6 DEF WritableAddress
  <2> QED
    BY <1>4, <2>1 DEF ProfileIInv, ViewHolds
<1>14. ConversionIsViewed'
  BY <1>4, <1>7 DEF ProfileIInv, ConversionIsViewed
<1> QED
  BY <1>8, <1>9, <1>10, <1>11, <1>12, <1>13, <1>14 DEF ProfileIInv

-----------------------------------------------------------------------------
(* Profiles that differ in the settings or in the alerts *)

(* A profile with other settings is one, and has the same alerts. *)
LEMMA SettingsChange ==
  ASSUME NEW p \in DeviceProfiles, NEW s \in Settings, NEW q,
         q = [settings |-> s, resistance |-> p.resistance, alerts |-> p.alerts]
  PROVE  /\ q \in DeviceProfiles
         /\ q.settings = s /\ q.resistance = p.resistance /\ q.alerts = p.alerts
<1>1. s \in RequestedSettings
  BY DEF Settings, RequestedSettings
<1> QED
  BY <1>1, ProfileParts DEF DeviceProfiles

(* A profile with other alerts is one, and has the same settings. *)
LEMMA AlertsChange ==
  ASSUME NEW p \in DeviceProfiles, NEW a \in AlertProfiles, NEW q,
         q = [settings |-> p.settings, resistance |-> p.resistance, alerts |-> a]
  PROVE  /\ q \in DeviceProfiles
         /\ q.settings = p.settings /\ q.resistance = p.resistance /\ q.alerts = a
  BY ProfileParts DEF DeviceProfiles

-----------------------------------------------------------------------------
(* The calls that run a job *)

(* A bind of, or reconciliation with, a profile *)
LEMMA ApplyKeeps ==
  ASSUME ProfileIInv, ApplyProfile \/ Reconcile
  PROVE  ProfileIInv'
<1>1. Profiles \subseteq DeviceProfiles
  BY ProfileRegistersAssumption DEF ProfileRegistersAssumption
<1>2. profile \in DeviceProfiles
  BY DEF ProfileIInv, TypeOK
<1>3. \E p \in DeviceProfiles : validateProfile(p) /\ ProfileJob(p)
  BY <1>1, <1>2, Zenon DEF ApplyProfile, Reconcile
<1> QED
  BY <1>3, JobKeeps

(* A job for the latches and channels of a raw Mask/Enable word *)
LEMMA ApplyMaskEnableKeeps ==
  ASSUME ProfileIInv, ApplyMaskEnable
  PROVE  ProfileIInv'
<1>1. PICK word \in MaskWords :
        LET p == [profile EXCEPT !.alerts.summation = BitsToChannels(word, 14),
                                 !.alerts.warningLatch = IsSet(word, 11),
                                 !.alerts.criticalLatch = IsSet(word, 10)]
        IN validateProfile(p) /\ ProfileJob(p)
  BY Zenon DEF ApplyMaskEnable
<1> DEFINE S == BitsToChannels(word, 14)
           W == IsSet(word, 11)
           C == IsSet(word, 10)
           p == [profile EXCEPT !.alerts.summation = S, !.alerts.warningLatch = W,
                                !.alerts.criticalLatch = C]
           a == [profile.alerts EXCEPT !.summation = S, !.warningLatch = W, !.criticalLatch = C]
<1>2. profile \in DeviceProfiles
  BY DEF ProfileIInv, TypeOK
<1>3. S \in SUBSET Channel /\ W \in BOOLEAN /\ C \in BOOLEAN
  BY DEF BitsToChannels, IsSet
<1>4. validateProfile(p) /\ ProfileJob(p)
  BY <1>1, Zenon
<1> HIDE DEF S, W, C
<1>5. a \in AlertProfiles
  BY <1>2, <1>3, ProfileParts DEF AlertProfiles
<1>6. p = [settings |-> profile.settings, resistance |-> profile.resistance, alerts |-> a]
  <2>1. profile = [settings |-> profile.settings, resistance |-> profile.resistance,
                   alerts |-> profile.alerts]
    BY <1>2, ProfileParts
  <2> DEFINE a1 == [profile.alerts EXCEPT !.summation = S]
             a2 == [a1 EXCEPT !.warningLatch = W]
             p1 == [profile EXCEPT !.alerts.summation = S]
             p2 == [p1 EXCEPT !.alerts.warningLatch = W]
  <2>2. p = [p2 EXCEPT !.alerts.criticalLatch = C] /\ a = [a2 EXCEPT !.criticalLatch = C]
    OBVIOUS
  <2>3. p1 = [settings |-> profile.settings, resistance |-> profile.resistance, alerts |-> a1]
    BY <2>1
  <2> HIDE DEF a1, p1
  <2>4. p2 = [settings |-> profile.settings, resistance |-> profile.resistance, alerts |-> a2]
    BY <2>3
  <2> HIDE DEF a2, p2
  <2>5. [p2 EXCEPT !.alerts.criticalLatch = C] =
          [settings |-> profile.settings, resistance |-> profile.resistance,
           alerts |-> [a2 EXCEPT !.criticalLatch = C]]
    BY <2>4
  <2> QED
    BY <2>2, <2>5
<1> HIDE DEF a, p
<1>7. p \in DeviceProfiles
  BY <1>2, <1>5, <1>6, AlertsChange
<1> QED
  BY <1>4, <1>7, JobKeeps

(* A restart from the view, whose floats are calibrations again *)
LEMMA RestartKeeps ==
  ASSUME ProfileIInv, Restart
  PROVE  ProfileIInv'
<1> DEFINE p == legacyToContracts(view)
<1>1. /\ profile \in DeviceProfiles
      /\ view.settings \in Settings
      /\ view.ohms = [c \in Channel |-> FloatOhms(profile.resistance[c])]
  BY DEF ProfileIInv, TypeOK
<1>2. DefaultAlerts \in AlertProfiles
  BY DEF DefaultAlerts, AlertProfiles
<1>3. [c \in Channel |-> MicroOhms(view.ohms[c])] \in [Channel -> Calibration]
  <2>1. ASSUME NEW c \in Channel
        PROVE  MicroOhms(view.ohms[c]) \in Calibration
    <3>1. profile.resistance[c] \in Calibration /\ view.ohms[c] = FloatOhms(profile.resistance[c])
      BY <1>1, ProfileParts
    <3> QED
      BY <3>1, FloatIsCalibration
  <2> QED
    BY <2>1
<1>4. view.settings \in RequestedSettings
  BY <1>1 DEF Settings, RequestedSettings
<1>5. p \in DeviceProfiles
  BY <1>2, <1>3, <1>4 DEF legacyToContracts, DeviceProfiles
<1>6. validateProfile(p) /\ ProfileJob(p)
  BY DEF Restart
<1> QED
  BY <1>5, <1>6, JobKeeps

-----------------------------------------------------------------------------
(* The calls that write Configuration *)

(* Settings in the place of the retained ones: what applyConfigVerified is *)
(* called with                                                             *)
LEMMA ConfigCallKeeps ==
  ASSUME ProfileIInv, NEW s \in Settings, NEW p,
         p = [settings |-> s, resistance |-> profile.resistance, alerts |-> profile.alerts],
         validateProfile(p), applyConfigVerified(p)
  PROVE  ProfileIInv'
<1>1. profile \in DeviceProfiles
  BY DEF ProfileIInv, TypeOK
<1>2. p \in DeviceProfiles /\ p.alerts = profile.alerts
  BY <1>1, SettingsChange
<1> QED
  BY <1>2, ConfigWriteKeeps

(* Averaging and conversion times are valid with any other settings. *)
LEMMA TimingKeeps ==
  ASSUME ProfileIInv, SetTiming
  PROVE  ProfileIInv'
<1>1. profile \in DeviceProfiles /\ validateProfile(profile)
  BY DEF ProfileIInv, TypeOK, ProfileStaysValid
<1>2. profile = [settings |-> profile.settings, resistance |-> profile.resistance,
                 alerts |-> profile.alerts]
  BY <1>1, ProfileParts
<1>3. profile.settings \in Settings
  BY <1>1 DEF validateProfile, ValidSettings
<1>4. ASSUME NEW s \in Settings, NEW p, s.mode = profile.settings.mode,
             s.channels = profile.settings.channels,
             p = [settings |-> s, resistance |-> profile.resistance, alerts |-> profile.alerts],
             applyConfigVerified(p)
      PROVE  ProfileIInv'
  <2>1. p.settings = s /\ p.resistance = profile.resistance /\ p.alerts = profile.alerts
    BY <1>4
  <2>2. validateProfile(p)
    BY <1>1, <1>4, <2>1 DEF validateProfile, ValidSettings
  <2> QED
    BY <1>4, <2>2, ConfigCallKeeps
<1>5. ASSUME NEW avg \in SettableAveragings,
             applyConfigVerified([profile EXCEPT !.settings.averaging = avg])
      PROVE  ProfileIInv'
  <2> DEFINE s == [profile.settings EXCEPT !.averaging = avg]
             p == [profile EXCEPT !.settings.averaging = avg]
  <2>1. avg \in 0 .. 7
    BY ProfileRegistersAssumption DEF ProfileRegistersAssumption
  <2>2. s \in Settings /\ s.mode = profile.settings.mode /\ s.channels = profile.settings.channels
    BY <1>3, <2>1 DEF Settings
  <2>3. p = [settings |-> s, resistance |-> profile.resistance, alerts |-> profile.alerts]
    BY <1>2
  <2> HIDE DEF s
  <2> QED
    BY <1>4, <1>5, <2>2, <2>3
<1>6. ASSUME NEW ct \in SettableTimes,
             \/ applyConfigVerified([profile EXCEPT !.settings.vBusCt = ct])
             \/ applyConfigVerified([profile EXCEPT !.settings.vShCt = ct])
      PROVE  ProfileIInv'
  <2> DEFINE bus == [profile.settings EXCEPT !.vBusCt = ct]
             shunt == [profile.settings EXCEPT !.vShCt = ct]
  <2>1. ct \in 0 .. 7
    BY ProfileRegistersAssumption DEF ProfileRegistersAssumption
  <2>2. /\ bus \in Settings /\ shunt \in Settings
        /\ bus.mode = profile.settings.mode /\ shunt.mode = profile.settings.mode
        /\ bus.channels = profile.settings.channels /\ shunt.channels = profile.settings.channels
    BY <1>3, <2>1 DEF Settings
  <2>3. /\ [profile EXCEPT !.settings.vBusCt = ct] =
             [settings |-> bus, resistance |-> profile.resistance, alerts |-> profile.alerts]
        /\ [profile EXCEPT !.settings.vShCt = ct] =
             [settings |-> shunt, resistance |-> profile.resistance, alerts |-> profile.alerts]
    BY <1>2
  <2> HIDE DEF bus, shunt
  <2> QED
    BY <1>4, <1>6, <2>2, <2>3
<1> QED
  BY <1>5, <1>6 DEF SetTiming

(* A mode is validated with the profile it makes. *)
LEMMA ModeKeeps ==
  ASSUME ProfileIInv, SetMode \/ StartConversionIn
  PROVE  ProfileIInv'
<1>1. PICK mode \in SettableModes :
        LET p == [profile EXCEPT !.settings.mode = mode]
        IN validateProfile(p) /\ applyConfigVerified(p)
  BY Zenon DEF SetMode, StartConversionIn
<1> DEFINE s == [profile.settings EXCEPT !.mode = mode]
           p == [profile EXCEPT !.settings.mode = mode]
<1>2. /\ profile = [settings |-> profile.settings, resistance |-> profile.resistance,
                    alerts |-> profile.alerts]
      /\ validateProfile(profile)
  BY ProfileParts DEF ProfileIInv, TypeOK, ProfileStaysValid
<1>3. profile.settings \in Settings
  BY <1>2 DEF validateProfile, ValidSettings
<1>4. mode \in 0 .. 7
  BY ProfileRegistersAssumption DEF ProfileRegistersAssumption
<1>5. s \in Settings
  BY <1>3, <1>4 DEF Settings
<1>6. p = [settings |-> s, resistance |-> profile.resistance, alerts |-> profile.alerts]
  BY <1>2
<1>7. validateProfile(p) /\ applyConfigVerified(p)
  BY <1>1, Zenon
<1> HIDE DEF s, p
<1> QED
  BY <1>5, <1>6, <1>7, ConfigCallKeeps

(* So is a channel. *)
LEMMA ChannelEnableKeeps ==
  ASSUME ProfileIInv, SetChannelEnable
  PROVE  ProfileIInv'
<1>1. PICK c \in SettableChannels, enable \in BOOLEAN :
        LET p == [profile EXCEPT !.settings.channels =
                    IF enable THEN @ \union {c} ELSE @ \ {c}]
        IN validateProfile(p) /\ applyConfigVerified(p)
  BY Zenon DEF SetChannelEnable
<1> DEFINE before == profile.settings.channels
           after == IF enable THEN before \union {c} ELSE before \ {c}
           s == [profile.settings EXCEPT !.channels = after]
           p == [profile EXCEPT !.settings.channels = IF enable THEN @ \union {c} ELSE @ \ {c}]
<1>2. /\ profile = [settings |-> profile.settings, resistance |-> profile.resistance,
                    alerts |-> profile.alerts]
      /\ validateProfile(profile)
  BY ProfileParts DEF ProfileIInv, TypeOK, ProfileStaysValid
<1>3. profile.settings \in Settings
  BY <1>2 DEF validateProfile, ValidSettings
<1>4. c \in Channel
  BY ProfileRegistersAssumption DEF ProfileRegistersAssumption
<1>5. after \in SUBSET Channel
  BY <1>3, <1>4 DEF Settings
<1>6. validateProfile(p) /\ applyConfigVerified(p)
  BY <1>1, Zenon
<1>7. p = [settings |-> s, resistance |-> profile.resistance, alerts |-> profile.alerts]
  BY <1>2
<1> HIDE DEF after, p
<1>8. s \in Settings
  BY <1>3, <1>5 DEF Settings
<1> HIDE DEF s
<1> QED
  BY <1>6, <1>7, <1>8, ConfigCallKeeps

(* A start of a conversion writes the retained Configuration again. *)
LEMMA StartKeeps ==
  ASSUME ProfileIInv, StartConversion
  PROVE  ProfileIInv'
<1>1. profile \in DeviceProfiles /\ validateProfile(profile) /\ applyConfigVerified(profile)
  BY DEF ProfileIInv, TypeOK, ProfileStaysValid, StartConversion
<1> QED
  BY <1>1, ConfigWriteKeeps

-----------------------------------------------------------------------------
(* The calls that write an alert register *)

(* Each word follows from its part of the profile alone. *)
LEMMA WordsFollow ==
  ASSUME NEW p, NEW q, NEW i \in 0 .. LastIndex, p.settings = q.settings,
         \A c \in Channel : i = 2 * c + 1 => p.alerts.critical[c] = q.alerts.critical[c],
         \A c \in Channel : i = 2 * c + 2 => p.alerts.warning[c] = q.alerts.warning[c],
         i = 7 => p.alerts.sum = q.alerts.sum,
         i = 8 => buildMaskEnable(p.alerts) = buildMaskEnable(q.alerts),
         i = 9 => p.alerts.upper = q.alerts.upper,
         i = 10 => p.alerts.lower = q.alerts.lower
  PROVE  DesiredWord(i, p) = DesiredWord(i, q)
<1>1. CASE i = 0
  BY <1>1, DesiredWordIs
<1>2. ASSUME NEW c \in Channel, i = 2 * c + 1
      PROVE  DesiredWord(i, p) = DesiredWord(i, q)
  <2>1. p.alerts.critical[c] = q.alerts.critical[c]
    BY <1>2
  <2>2. /\ DesiredWord(i, p) = Units!encodeShuntMicroVolts(p.alerts.critical[c]).value
        /\ DesiredWord(i, q) = Units!encodeShuntMicroVolts(q.alerts.critical[c]).value
    BY <1>2, DesiredWordIs
  <2> QED
    BY <2>1, <2>2
<1>3. ASSUME NEW c \in Channel, i = 2 * c + 2
      PROVE  DesiredWord(i, p) = DesiredWord(i, q)
  <2>1. p.alerts.warning[c] = q.alerts.warning[c]
    BY <1>3
  <2>2. /\ DesiredWord(i, p) = Units!encodeShuntMicroVolts(p.alerts.warning[c]).value
        /\ DesiredWord(i, q) = Units!encodeShuntMicroVolts(q.alerts.warning[c]).value
    BY <1>3, DesiredWordIs
  <2> QED
    BY <2>1, <2>2
<1>4. CASE i = 7
  BY <1>4, DesiredWordIs
<1>5. CASE i = 8
  BY <1>5, DesiredWordIs
<1>6. CASE i = 9
  BY <1>6, DesiredWordIs
<1>7. CASE i = 10
  BY <1>7, DesiredWordIs
<1> QED
  BY <1>1, <1>2, <1>3, <1>4, <1>5, <1>6, <1>7, IndexCases

(* Alerts in the place of the retained ones, of which one register's word  *)
(* changes: what WriteAlert is called with                                 *)
LEMMA AlertCallKeeps ==
  ASSUME ProfileIInv, NEW a \in AlertProfiles, NEW p,
         p = [settings |-> profile.settings, resistance |-> profile.resistance, alerts |-> a],
         validateProfile(p), NEW j \in 0 .. LastIndex, j # 0,
         \A i \in 0 .. LastIndex : i # j => DesiredWord(i, p) = DesiredWord(i, profile),
         NEW reg, NEW word, reg = RegisterAt(j), word = DesiredWord(j, p),
         WriteAlert(reg, word, p)
  PROVE  ProfileIInv'
<1>1. profile \in DeviceProfiles
  BY DEF ProfileIInv, TypeOK
<1>2. p \in DeviceProfiles /\ p.settings = profile.settings /\ p.resistance = profile.resistance
  BY <1>1, AlertsChange
<1>3. WriteAlert(RegisterAt(j), DesiredWord(j, p), p)
  OBVIOUS
<1> QED
  BY <1>2, <1>3, AlertWriteKeeps

(* The limit of a channel: the masked word is the one that the retained    *)
(* limit stands for, and no other register's.                              *)
LEMMA ChannelLimitKeeps ==
  ASSUME ProfileIInv, SetChannelLimit
  PROVE  ProfileIInv'
<1>1. PICK entry \in LimitWords :
    LET index == entry[1]
        word == Without(entry[2], 0, 3)
        limit == Units!decodeShuntMicroVolts(word)
        c == (index - 1) \div 2
    IN IF index % 2 = 1
         THEN WriteAlert(critRegAddr(c), word, [profile EXCEPT !.alerts.critical[c] = limit])
         ELSE WriteAlert(warnRegAddr(c), word, [profile EXCEPT !.alerts.warning[c] = limit])
  BY Zenon DEF SetChannelLimit
<1> DEFINE index == entry[1]
           word == Without(entry[2], 0, 3)
           limit == Units!decodeShuntMicroVolts(word)
           c == (index - 1) \div 2
<1>2. index \in 1 .. 6 /\ entry[2] \in RawWords
  BY ProfileRegistersAssumption DEF ProfileRegistersAssumption
<1>3. word \in RawWords /\ word % 8 = 0
  <2> DEFINE raw == entry[2]
  <2>1. raw \in Nat /\ raw < 65536 /\ word = raw - (raw % 8)
    BY <1>2, RawWordsAre, WithoutIs
  <2> HIDE DEF raw, word
  <2>2. word \in Nat /\ word < 65536 /\ word % 8 = 0
    BY <2>1
  <2> QED
    BY <2>2, RawWordsAre
<1>4. c \in Channel /\ (index % 2 = 1 => index = 2 * c + 1) /\ (index % 2 # 1 => index = 2 * c + 2)
  BY <1>2 DEF Channel
<1>5. profile \in DeviceProfiles /\ validateProfile(profile)
  BY DEF ProfileIInv, TypeOK, ProfileStaysValid
<1>6. index \in 0 .. LastIndex /\ index # 0
  BY <1>2 DEF LastIndex
<1>7. CASE index % 2 = 1
  <2> DEFINE p == [profile EXCEPT !.alerts.critical[c] = limit]
             a == [profile.alerts EXCEPT !.critical[c] = limit]
             limits == [profile.alerts.critical EXCEPT ![c] = limit]
  <2>1. WriteAlert(critRegAddr(c), word, p)
    BY <1>1, <1>7, Zenon
  <2> HIDE DEF word, c, index
  <2>2. limit \in Int /\ Units!encodeShuntMicroVolts(limit) = Units!OkResult(word)
    <3>1. 40 \in {8, 40}
      OBVIOUS
    <3> QED
      BY <1>3, <3>1, LimitIsReadBack DEF Units!decodeShuntMicroVolts, Units!encodeShuntMicroVolts
  <2>3. Units!encodeShuntMicroVolts(limit).ok /\ Units!encodeShuntMicroVolts(limit).value = word
    BY <2>2 DEF Units!OkResult
  <2> HIDE DEF limit
  <2>4. profile.alerts \in AlertProfiles /\ profile.alerts.critical \in [Channel -> Int]
    BY <1>5, ProfileParts
  <2>5. /\ limits \in [Channel -> Int] /\ limits[c] = limit
        /\ \A d \in Channel : d # c => limits[d] = profile.alerts.critical[d]
    BY <1>4, <2>2, <2>4
  <2>6. /\ a \in AlertProfiles /\ a.critical = limits
        /\ a.warning = profile.alerts.warning /\ a.summation = profile.alerts.summation
        /\ a.sum = profile.alerts.sum /\ a.upper = profile.alerts.upper
        /\ a.lower = profile.alerts.lower /\ a.warningLatch = profile.alerts.warningLatch
        /\ a.criticalLatch = profile.alerts.criticalLatch
    BY <2>4, <2>5 DEF AlertProfiles
  <2>7. p = [settings |-> profile.settings, resistance |-> profile.resistance, alerts |-> a]
    <3>1. profile = [settings |-> profile.settings, resistance |-> profile.resistance,
                     alerts |-> profile.alerts]
      BY <1>5, ProfileParts
    <3> QED
      BY <3>1
  <2> HIDE DEF a, p, limits
  <2>8. p.settings = profile.settings /\ p.resistance = profile.resistance /\ p.alerts = a
    BY <2>7
  <2>9. validateProfile(p)
    <3>1. \A d \in Channel : /\ Units!encodeShuntMicroVolts(a.critical[d]).ok
                             /\ Units!encodeShuntMicroVolts(a.warning[d]).ok
      BY <1>5, <2>3, <2>5, <2>6 DEF validateProfile
    <3> QED
      BY <1>5, <2>6, <2>8, <3>1 DEF validateProfile
  <2>10. ASSUME NEW i \in 0 .. LastIndex, i # index
         PROVE  DesiredWord(i, p) = DesiredWord(i, profile)
    <3>1. \A d \in Channel : i = 2 * d + 1 => d # c
      BY <1>4, <1>7, <2>10
    <3>2. \A d \in Channel : i = 2 * d + 1 => p.alerts.critical[d] = profile.alerts.critical[d]
      BY <2>5, <2>6, <2>8, <3>1
    <3>3. buildMaskEnable(p.alerts) = buildMaskEnable(profile.alerts)
      BY <2>6, <2>8 DEF buildMaskEnable
    <3> QED
      BY <2>6, <2>8, <3>2, <3>3, WordsFollow
  <2>11. critRegAddr(c) = RegisterAt(index) /\ word = DesiredWord(index, p)
    <3>1. RegisterAt(index) = critRegAddr(c)
      BY <1>4, <1>7, RegistersAre
    <3>2. DesiredWord(index, p) = Units!encodeShuntMicroVolts(a.critical[c]).value
      BY <1>4, <1>7, <2>8, DesiredWordIs
    <3> QED
      BY <2>3, <2>5, <2>6, <3>1, <3>2
  <2> QED
    BY <1>6, <2>1, <2>6, <2>7, <2>9, <2>10, <2>11, AlertCallKeeps
<1>8. CASE index % 2 # 1
  <2> DEFINE p == [profile EXCEPT !.alerts.warning[c] = limit]
             a == [profile.alerts EXCEPT !.warning[c] = limit]
             limits == [profile.alerts.warning EXCEPT ![c] = limit]
  <2>1. WriteAlert(warnRegAddr(c), word, p)
    BY <1>1, <1>8, Zenon
  <2> HIDE DEF word, c, index
  <2>2. limit \in Int /\ Units!encodeShuntMicroVolts(limit) = Units!OkResult(word)
    <3>1. 40 \in {8, 40}
      OBVIOUS
    <3> QED
      BY <1>3, <3>1, LimitIsReadBack DEF Units!decodeShuntMicroVolts, Units!encodeShuntMicroVolts
  <2>3. Units!encodeShuntMicroVolts(limit).ok /\ Units!encodeShuntMicroVolts(limit).value = word
    BY <2>2 DEF Units!OkResult
  <2> HIDE DEF limit
  <2>4. profile.alerts \in AlertProfiles /\ profile.alerts.warning \in [Channel -> Int]
    BY <1>5, ProfileParts
  <2>5. /\ limits \in [Channel -> Int] /\ limits[c] = limit
        /\ \A d \in Channel : d # c => limits[d] = profile.alerts.warning[d]
    BY <1>4, <2>2, <2>4
  <2>6. /\ a \in AlertProfiles /\ a.warning = limits
        /\ a.critical = profile.alerts.critical /\ a.summation = profile.alerts.summation
        /\ a.sum = profile.alerts.sum /\ a.upper = profile.alerts.upper
        /\ a.lower = profile.alerts.lower /\ a.warningLatch = profile.alerts.warningLatch
        /\ a.criticalLatch = profile.alerts.criticalLatch
    BY <2>4, <2>5 DEF AlertProfiles
  <2>7. p = [settings |-> profile.settings, resistance |-> profile.resistance, alerts |-> a]
    <3>1. profile = [settings |-> profile.settings, resistance |-> profile.resistance,
                     alerts |-> profile.alerts]
      BY <1>5, ProfileParts
    <3> QED
      BY <3>1
  <2> HIDE DEF a, p, limits
  <2>8. p.settings = profile.settings /\ p.resistance = profile.resistance /\ p.alerts = a
    BY <2>7
  <2>9. validateProfile(p)
    <3>1. \A d \in Channel : /\ Units!encodeShuntMicroVolts(a.warning[d]).ok
                             /\ Units!encodeShuntMicroVolts(a.critical[d]).ok
      BY <1>5, <2>3, <2>5, <2>6 DEF validateProfile
    <3> QED
      BY <1>5, <2>6, <2>8, <3>1 DEF validateProfile
  <2>10. ASSUME NEW i \in 0 .. LastIndex, i # index
         PROVE  DesiredWord(i, p) = DesiredWord(i, profile)
    <3>1. \A d \in Channel : i = 2 * d + 2 => d # c
      BY <1>4, <1>8, <2>10
    <3>2. \A d \in Channel : i = 2 * d + 2 => p.alerts.warning[d] = profile.alerts.warning[d]
      BY <2>5, <2>6, <2>8, <3>1
    <3>3. buildMaskEnable(p.alerts) = buildMaskEnable(profile.alerts)
      BY <2>6, <2>8 DEF buildMaskEnable
    <3> QED
      BY <2>6, <2>8, <3>2, <3>3, WordsFollow
  <2>11. warnRegAddr(c) = RegisterAt(index) /\ word = DesiredWord(index, p)
    <3>1. RegisterAt(index) = warnRegAddr(c)
      BY <1>4, <1>8, RegistersAre
    <3>2. DesiredWord(index, p) = Units!encodeShuntMicroVolts(a.warning[c]).value
      BY <1>4, <1>8, <2>8, DesiredWordIs
    <3> QED
      BY <2>3, <2>5, <2>6, <3>1, <3>2
  <2> QED
    BY <1>6, <2>1, <2>6, <2>7, <2>9, <2>10, <2>11, AlertCallKeeps
<1> QED
  BY <1>7, <1>8

(* The masked power-valid limit is a whole number of steps. *)
LEMMA PowerValidWordIs ==
  ASSUME NEW raw \in RawWords
  PROVE  PowerValidWord(raw) \in RawWords /\ PowerValidWord(raw) % 8 = 0
<1> DEFINE low == Without(raw, 15, 1)
           word == Without(low, 0, 3)
<1>1. raw \in Nat /\ low = raw % 32768
  BY RawWordsAre, WithoutIs
<1> HIDE DEF low
<1>2. low \in Nat /\ low < 65536
  BY <1>1
<1>3. word = low - (low % 8)
  <2>1. low \in RawWords
    BY <1>2, RawWordsAre
  <2> QED
    BY <2>1, WithoutIs
<1> HIDE DEF word
<1>4. word \in Nat /\ word < 65536 /\ word % 8 = 0
  BY <1>2, <1>3
<1>5. word \in RawWords
  BY <1>4, RawWordsAre
<1> QED
  BY <1>4, <1>5 DEF PowerValidWord, word, low

(* The limit of the shunt sum *)
LEMMA SumLimitKeeps ==
  ASSUME ProfileIInv, SetShuntSumLimit
  PROVE  ProfileIInv'
<1>1. PICK raw \in SumWords :
        LET word == Without(raw, 0, 1)
            limit == Units!SignExtendField(word, 1, 15) * 40
        IN WriteAlert(REG_SHUNT_SUM_LIMIT, word, [profile EXCEPT !.alerts.sum = limit])
  BY Zenon DEF SetShuntSumLimit
<1> DEFINE word == Without(raw, 0, 1)
           limit == Units!SignExtendField(word, 1, 15) * 40
           p == [profile EXCEPT !.alerts.sum = limit]
           a == [profile.alerts EXCEPT !.sum = limit]
<1>2. raw \in RawWords
  BY ProfileRegistersAssumption DEF ProfileRegistersAssumption
<1>3. word \in RawWords /\ word % 2 = 0
  <2>1. raw \in Nat /\ raw < 65536 /\ word = raw - (raw % 2)
    BY <1>2, RawWordsAre, WithoutIs
  <2> HIDE DEF word
  <2>2. word \in Nat /\ word < 65536 /\ word % 2 = 0
    BY <2>1
  <2> QED
    BY <2>2, RawWordsAre
<1>4. profile \in DeviceProfiles /\ validateProfile(profile)
  BY DEF ProfileIInv, TypeOK, ProfileStaysValid
<1>5. WriteAlert(REG_SHUNT_SUM_LIMIT, word, p)
  BY <1>1, Zenon
<1> HIDE DEF word
<1>6. limit \in Int /\ Units!encodeShuntSumMicroVolts(limit) = Units!OkResult(word)
  BY <1>3, SumIsReadBack DEF Units!encodeShuntSumMicroVolts
<1>7. Units!encodeShuntSumMicroVolts(limit).ok /\ Units!encodeShuntSumMicroVolts(limit).value = word
  BY <1>6 DEF Units!OkResult
<1> HIDE DEF limit
<1>8. /\ a \in AlertProfiles /\ a.sum = limit
      /\ a.critical = profile.alerts.critical /\ a.warning = profile.alerts.warning
      /\ a.summation = profile.alerts.summation
      /\ a.upper = profile.alerts.upper /\ a.lower = profile.alerts.lower
      /\ a.warningLatch = profile.alerts.warningLatch
      /\ a.criticalLatch = profile.alerts.criticalLatch
  BY <1>4, <1>6, ProfileParts DEF AlertProfiles
<1>9. p = [settings |-> profile.settings, resistance |-> profile.resistance, alerts |-> a]
  <2>1. profile = [settings |-> profile.settings, resistance |-> profile.resistance,
                   alerts |-> profile.alerts]
    BY <1>4, ProfileParts
  <2> QED
    BY <2>1
<1> HIDE DEF a, p
<1>10. p.settings = profile.settings /\ p.resistance = profile.resistance /\ p.alerts = a
  BY <1>9
<1>11. validateProfile(p)
  BY <1>4, <1>7, <1>8, <1>10 DEF validateProfile
<1>12. ASSUME NEW i \in 0 .. LastIndex, i # 7
       PROVE  DesiredWord(i, p) = DesiredWord(i, profile)
  <2>1. buildMaskEnable(p.alerts) = buildMaskEnable(profile.alerts)
    BY <1>8, <1>10 DEF buildMaskEnable
  <2> QED
    BY <1>8, <1>10, <1>12, <2>1, WordsFollow
<1>13. REG_SHUNT_SUM_LIMIT = RegisterAt(7) /\ word = DesiredWord(7, p)
  BY <1>7, <1>8, <1>10, RegistersAre, DesiredWordIs
<1>14. 7 \in 0 .. LastIndex /\ 7 # 0
  BY RegistersAre
<1> QED
  BY <1>5, <1>8, <1>9, <1>11, <1>12, <1>13, <1>14, AlertCallKeeps

(* The power-valid limits, each validated with the other that is retained *)
LEMMA UpperLimitKeeps ==
  ASSUME ProfileIInv, SetPowerValidUpperLimit
  PROVE  ProfileIInv'
<1>1. PICK raw \in UpperWords :
        LET word == PowerValidWord(raw)
            limit == Units!decodeBusMilliVolts(word)
        IN /\ Units!validatePowerValidWindow(profile.alerts.lower, limit)
           /\ WriteAlert(REG_PV_UPPER_LIMIT, word, [profile EXCEPT !.alerts.upper = limit])
  BY Zenon DEF SetPowerValidUpperLimit
<1> DEFINE word == PowerValidWord(raw)
           limit == Units!decodeBusMilliVolts(word)
           p == [profile EXCEPT !.alerts.upper = limit]
           a == [profile.alerts EXCEPT !.upper = limit]
<1>2. raw \in RawWords
  BY ProfileRegistersAssumption DEF ProfileRegistersAssumption
<1>3. word \in RawWords /\ word % 8 = 0
  BY <1>2, PowerValidWordIs
<1>4. profile \in DeviceProfiles /\ validateProfile(profile)
  BY DEF ProfileIInv, TypeOK, ProfileStaysValid
<1>5. WriteAlert(REG_PV_UPPER_LIMIT, word, p)
  BY <1>1, Zenon
<1>5a. Units!validatePowerValidWindow(profile.alerts.lower, limit)
  BY <1>1, Zenon
<1> HIDE DEF word
<1>6. limit \in Int /\ Units!encodeBusMilliVolts(limit) = Units!OkResult(word)
  <2>1. 8 \in {8, 40}
    OBVIOUS
  <2> QED
    BY <1>3, <2>1, LimitIsReadBack DEF Units!decodeBusMilliVolts, Units!encodeBusMilliVolts
<1>7. Units!encodeBusMilliVolts(limit).ok /\ Units!encodeBusMilliVolts(limit).value = word
  BY <1>6 DEF Units!OkResult
<1> HIDE DEF limit
<1>8. /\ a \in AlertProfiles /\ a.upper = limit
      /\ a.critical = profile.alerts.critical /\ a.warning = profile.alerts.warning
      /\ a.summation = profile.alerts.summation
      /\ a.sum = profile.alerts.sum /\ a.lower = profile.alerts.lower
      /\ a.warningLatch = profile.alerts.warningLatch
      /\ a.criticalLatch = profile.alerts.criticalLatch
  BY <1>4, <1>6, ProfileParts DEF AlertProfiles
<1>9. p = [settings |-> profile.settings, resistance |-> profile.resistance, alerts |-> a]
  <2>1. profile = [settings |-> profile.settings, resistance |-> profile.resistance,
                   alerts |-> profile.alerts]
    BY <1>4, ProfileParts
  <2> QED
    BY <2>1
<1> HIDE DEF a, p
<1>10. p.settings = profile.settings /\ p.resistance = profile.resistance /\ p.alerts = a
  BY <1>9
<1>11. validateProfile(p)
  BY <1>4, <1>5a, <1>7, <1>8, <1>10 DEF validateProfile
<1>12. ASSUME NEW i \in 0 .. LastIndex, i # 9
       PROVE  DesiredWord(i, p) = DesiredWord(i, profile)
  <2>1. buildMaskEnable(p.alerts) = buildMaskEnable(profile.alerts)
    BY <1>8, <1>10 DEF buildMaskEnable
  <2> QED
    BY <1>8, <1>10, <1>12, <2>1, WordsFollow
<1>13. REG_PV_UPPER_LIMIT = RegisterAt(9) /\ word = DesiredWord(9, p)
  BY <1>7, <1>8, <1>10, RegistersAre, DesiredWordIs
<1>14. 9 \in 0 .. LastIndex /\ 9 # 0
  BY RegistersAre
<1> QED
  BY <1>5, <1>8, <1>9, <1>11, <1>12, <1>13, <1>14, AlertCallKeeps

(* ... and the lower one *)
LEMMA LowerLimitKeeps ==
  ASSUME ProfileIInv, SetPowerValidLowerLimit
  PROVE  ProfileIInv'
<1>1. PICK raw \in LowerWords :
        LET word == PowerValidWord(raw)
            limit == Units!decodeBusMilliVolts(word)
        IN /\ Units!validatePowerValidWindow(limit, profile.alerts.upper)
           /\ WriteAlert(REG_PV_LOWER_LIMIT, word, [profile EXCEPT !.alerts.lower = limit])
  BY Zenon DEF SetPowerValidLowerLimit
<1> DEFINE word == PowerValidWord(raw)
           limit == Units!decodeBusMilliVolts(word)
           p == [profile EXCEPT !.alerts.lower = limit]
           a == [profile.alerts EXCEPT !.lower = limit]
<1>2. raw \in RawWords
  BY ProfileRegistersAssumption DEF ProfileRegistersAssumption
<1>3. word \in RawWords /\ word % 8 = 0
  BY <1>2, PowerValidWordIs
<1>4. profile \in DeviceProfiles /\ validateProfile(profile)
  BY DEF ProfileIInv, TypeOK, ProfileStaysValid
<1>5. WriteAlert(REG_PV_LOWER_LIMIT, word, p)
  BY <1>1, Zenon
<1>5a. Units!validatePowerValidWindow(limit, profile.alerts.upper)
  BY <1>1, Zenon
<1> HIDE DEF word
<1>6. limit \in Int /\ Units!encodeBusMilliVolts(limit) = Units!OkResult(word)
  <2>1. 8 \in {8, 40}
    OBVIOUS
  <2> QED
    BY <1>3, <2>1, LimitIsReadBack DEF Units!decodeBusMilliVolts, Units!encodeBusMilliVolts
<1>7. Units!encodeBusMilliVolts(limit).ok /\ Units!encodeBusMilliVolts(limit).value = word
  BY <1>6 DEF Units!OkResult
<1> HIDE DEF limit
<1>8. /\ a \in AlertProfiles /\ a.lower = limit
      /\ a.critical = profile.alerts.critical /\ a.warning = profile.alerts.warning
      /\ a.summation = profile.alerts.summation
      /\ a.sum = profile.alerts.sum /\ a.upper = profile.alerts.upper
      /\ a.warningLatch = profile.alerts.warningLatch
      /\ a.criticalLatch = profile.alerts.criticalLatch
  BY <1>4, <1>6, ProfileParts DEF AlertProfiles
<1>9. p = [settings |-> profile.settings, resistance |-> profile.resistance, alerts |-> a]
  <2>1. profile = [settings |-> profile.settings, resistance |-> profile.resistance,
                   alerts |-> profile.alerts]
    BY <1>4, ProfileParts
  <2> QED
    BY <2>1
<1> HIDE DEF a, p
<1>10. p.settings = profile.settings /\ p.resistance = profile.resistance /\ p.alerts = a
  BY <1>9
<1>11. validateProfile(p)
  BY <1>4, <1>5a, <1>7, <1>8, <1>10 DEF validateProfile
<1>12. ASSUME NEW i \in 0 .. LastIndex, i # 10
       PROVE  DesiredWord(i, p) = DesiredWord(i, profile)
  <2>1. buildMaskEnable(p.alerts) = buildMaskEnable(profile.alerts)
    BY <1>8, <1>10 DEF buildMaskEnable
  <2> QED
    BY <1>8, <1>10, <1>12, <2>1, WordsFollow
<1>13. REG_PV_LOWER_LIMIT = RegisterAt(10) /\ word = DesiredWord(10, p)
  BY <1>7, <1>8, <1>10, RegistersAre, DesiredWordIs
<1>14. 10 \in 0 .. LastIndex /\ 10 # 0
  BY RegistersAre
<1> QED
  BY <1>5, <1>8, <1>9, <1>11, <1>12, <1>13, <1>14, AlertCallKeeps

(* The channels of the sum are validated with the profile they make. *)
LEMMA SummationKeeps ==
  ASSUME ProfileIInv, SetSummationChannels
  PROVE  ProfileIInv'
<1>1. PICK channels \in SUBSET SettableChannels :
        LET p == [profile EXCEPT !.alerts.summation = channels]
        IN /\ validateProfile(p)
           /\ WriteAlert(REG_MASK_ENABLE, buildMaskEnable(p.alerts), p)
  BY Zenon DEF SetSummationChannels
<1> DEFINE p == [profile EXCEPT !.alerts.summation = channels]
           a == [profile.alerts EXCEPT !.summation = channels]
<1>2. channels \in SUBSET Channel
  BY ProfileRegistersAssumption DEF ProfileRegistersAssumption
<1>3. profile \in DeviceProfiles
  BY DEF ProfileIInv, TypeOK
<1>4. validateProfile(p) /\ WriteAlert(REG_MASK_ENABLE, buildMaskEnable(p.alerts), p)
  BY <1>1, Zenon
<1>5. /\ a \in AlertProfiles
      /\ a.critical = profile.alerts.critical /\ a.warning = profile.alerts.warning
      /\ a.sum = profile.alerts.sum /\ a.upper = profile.alerts.upper
      /\ a.lower = profile.alerts.lower
  BY <1>2, <1>3, ProfileParts DEF AlertProfiles
<1>6. p = [settings |-> profile.settings, resistance |-> profile.resistance, alerts |-> a]
  <2>1. profile = [settings |-> profile.settings, resistance |-> profile.resistance,
                   alerts |-> profile.alerts]
    BY <1>3, ProfileParts
  <2> QED
    BY <2>1
<1> HIDE DEF a, p
<1>7. p.settings = profile.settings /\ p.alerts = a
  BY <1>6
<1>8. ASSUME NEW i \in 0 .. LastIndex, i # 8
      PROVE  DesiredWord(i, p) = DesiredWord(i, profile)
  BY <1>5, <1>7, <1>8, WordsFollow
<1>9. /\ 8 \in 0 .. LastIndex /\ 8 # 0
      /\ REG_MASK_ENABLE = RegisterAt(8) /\ buildMaskEnable(p.alerts) = DesiredWord(8, p)
  BY RegistersAre, DesiredWordIs
<1> QED
  BY <1>4, <1>5, <1>6, <1>8, <1>9, AlertCallKeeps

(* The latches are valid with any profile. *)
LEMMA LatchKeeps ==
  ASSUME ProfileIInv, SetAlertLatchEnable
  PROVE  ProfileIInv'
<1>1. PICK latches \in SettableLatches :
        LET p == [profile EXCEPT !.alerts.warningLatch = latches[1],
                                 !.alerts.criticalLatch = latches[2]]
        IN WriteAlert(REG_MASK_ENABLE, buildMaskEnable(p.alerts), p)
  BY Zenon DEF SetAlertLatchEnable
<1> DEFINE W == latches[1]
           C == latches[2]
           p == [profile EXCEPT !.alerts.warningLatch = W, !.alerts.criticalLatch = C]
           a == [profile.alerts EXCEPT !.warningLatch = W, !.criticalLatch = C]
<1>2. W \in BOOLEAN /\ C \in BOOLEAN
  BY ProfileRegistersAssumption DEF ProfileRegistersAssumption
<1>3. profile \in DeviceProfiles /\ validateProfile(profile)
  BY DEF ProfileIInv, TypeOK, ProfileStaysValid
<1>4. WriteAlert(REG_MASK_ENABLE, buildMaskEnable(p.alerts), p)
  BY <1>1, Zenon
<1> HIDE DEF W, C
<1>5. /\ a \in AlertProfiles
      /\ a.critical = profile.alerts.critical /\ a.warning = profile.alerts.warning
      /\ a.summation = profile.alerts.summation
      /\ a.sum = profile.alerts.sum /\ a.upper = profile.alerts.upper
      /\ a.lower = profile.alerts.lower
  BY <1>2, <1>3, ProfileParts DEF AlertProfiles
<1>6. p = [settings |-> profile.settings, resistance |-> profile.resistance, alerts |-> a]
  <2>1. profile = [settings |-> profile.settings, resistance |-> profile.resistance,
                   alerts |-> profile.alerts]
    BY <1>3, ProfileParts
  <2> DEFINE a1 == [profile.alerts EXCEPT !.warningLatch = W]
             p1 == [profile EXCEPT !.alerts.warningLatch = W]
  <2>2. p = [p1 EXCEPT !.alerts.criticalLatch = C] /\ a = [a1 EXCEPT !.criticalLatch = C]
    OBVIOUS
  <2>3. p1 = [settings |-> profile.settings, resistance |-> profile.resistance, alerts |-> a1]
    BY <2>1
  <2> HIDE DEF a1, p1
  <2>4. [p1 EXCEPT !.alerts.criticalLatch = C] =
          [settings |-> profile.settings, resistance |-> profile.resistance,
           alerts |-> [a1 EXCEPT !.criticalLatch = C]]
    BY <2>3
  <2> QED
    BY <2>2, <2>4
<1> HIDE DEF a, p
<1>7. p.settings = profile.settings /\ p.resistance = profile.resistance /\ p.alerts = a
  BY <1>6
<1>8. validateProfile(p)
  BY <1>3, <1>5, <1>7 DEF validateProfile
<1>9. ASSUME NEW i \in 0 .. LastIndex, i # 8
      PROVE  DesiredWord(i, p) = DesiredWord(i, profile)
  BY <1>5, <1>7, <1>9, WordsFollow
<1>10. /\ 8 \in 0 .. LastIndex /\ 8 # 0
       /\ REG_MASK_ENABLE = RegisterAt(8) /\ buildMaskEnable(p.alerts) = DesiredWord(8, p)
  BY RegistersAre, DesiredWordIs
<1> QED
  BY <1>4, <1>5, <1>6, <1>8, <1>9, <1>10, AlertCallKeeps

-----------------------------------------------------------------------------
(* The calls that write no retained register *)

(* A calibration changes no register, and the view shows its float. *)
LEMMA ResistanceKeeps ==
  ASSUME ProfileIInv, SetShuntResistance
  PROVE  ProfileIInv'
<1>1. PICK c \in SettableChannels, micro \in SettableMicroOhms :
        /\ MicroOhms(FloatOhms(micro)) # 0
        /\ profile' = [profile EXCEPT !.resistance[c] = MicroOhms(FloatOhms(micro))]
        /\ view' = [view EXCEPT !.ohms[c] = FloatOhms(profile'.resistance[c])]
        /\ outcome' = "OK"
        /\ UNCHANGED <<registers, applied, viewed, conversion>>
  BY Zenon DEF SetShuntResistance
<1> DEFINE r == MicroOhms(FloatOhms(micro))
           table == [profile.resistance EXCEPT ![c] = r]
<1>2. c \in Channel /\ micro \in Calibration
  BY ProfileRegistersAssumption DEF ProfileRegistersAssumption
<1>3. r \in Calibration /\ r # 0
  BY <1>1, <1>2, FloatIsCalibration
<1>4. profile' = [profile EXCEPT !.resistance[c] = r]
  BY <1>1
<1> HIDE DEF r
<1>5. /\ profile \in DeviceProfiles /\ validateProfile(profile)
      /\ profile = [settings |-> profile.settings, resistance |-> profile.resistance,
                    alerts |-> profile.alerts]
      /\ profile.resistance \in [Channel -> Calibration]
  BY ProfileParts DEF ProfileIInv, TypeOK, ProfileStaysValid
<1>6. /\ table \in [Channel -> Calibration] /\ table[c] = r
      /\ \A d \in Channel : d # c => table[d] = profile.resistance[d]
  BY <1>2, <1>3, <1>5
<1>7. profile' = [settings |-> profile.settings, resistance |-> table, alerts |-> profile.alerts]
  BY <1>4, <1>5
<1> HIDE DEF table
<1>8. /\ profile'.settings = profile.settings /\ profile'.resistance = table
      /\ profile'.alerts = profile.alerts
  BY <1>7
<1>9. profile' \in DeviceProfiles
  BY <1>5, <1>6, <1>7, ProfileParts DEF DeviceProfiles
<1>10. validateProfile(profile')
  BY <1>3, <1>5, <1>6, <1>8 DEF validateProfile, ValidSettings, Settings
<1>11. view' \in [settings : Settings,
                  ohms : {[d \in Channel |-> FloatOhms(profile'.resistance[d])]}]
       /\ view'.settings = view.settings
  <2> DEFINE shown == [view.ohms EXCEPT ![c] = FloatOhms(table[c])]
  <2>1. /\ view.settings \in Settings
        /\ view.ohms = [d \in Channel |-> FloatOhms(profile.resistance[d])]
        /\ view = [settings |-> view.settings, ohms |-> view.ohms]
    BY DEF ProfileIInv, TypeOK
  <2>2. view' = [view EXCEPT !.ohms[c] = FloatOhms(table[c])]
    BY <1>1, <1>8
  <2>3. view' = [settings |-> view.settings, ohms |-> shown]
    BY <2>1, <2>2
  <2>4. shown = [d \in Channel |-> FloatOhms(table[d])]
    BY <1>2, <1>6, <2>1
  <2> HIDE DEF shown
  <2> QED
    BY <1>8, <2>1, <2>3, <2>4
<1>12. TypeOK'
  BY <1>1, <1>9, <1>11 DEF ProfileIInv, TypeOK
<1>13. RegistersHoldTheProfile'
  <2>1. ASSUME NEW i \in 0 .. LastIndex
        PROVE  DesiredWord(i, profile') = DesiredWord(i, profile)
    BY <1>8, SameWords
  <2> QED
    BY <1>1, <2>1 DEF ProfileIInv, RegistersHoldTheProfile
<1>14. ProfileStaysValid' /\ WordsAreHoldable' /\ HealthyDeviceVerifies'
  BY <1>1, <1>10 DEF ProfileIInv, ProfileStaysValid, WordsAreHoldable, HealthyDeviceVerifies
<1>15. ViewHolds' /\ ConversionIsViewed'
  BY <1>1, <1>11 DEF ProfileIInv, ViewHolds, ConversionIsViewed
<1> QED
  BY <1>12, <1>13, <1>14, <1>15 DEF ProfileIInv

(* Reset words are held, and Configuration's is that of the reset settings. *)
LEMMA ResetIs ==
  /\ ResetRegisters \in [WritableAddress -> RawWords]
  /\ \A reg \in WritableAddress : Holdable(reg, ResetRegisters[reg])
  /\ ResetSettings \in Settings
  /\ ResetRegisters[REG_CONFIG] = buildConfigRegister(ResetSettings)
<1> USE DEF REG_CONFIG, REG_MASK_ENABLE, REG_SHUNT_SUM_LIMIT, REG_PV_UPPER_LIMIT,
            REG_PV_LOWER_LIMIT
<1>1. ASSUME NEW reg \in WritableAddress
      PROVE  Holdable(reg, ResetRegisters[reg])
  <2>1. CASE reg = 0
    <3>1. ResetRegisters[reg] = 28967
      BY <1>1, <2>1 DEF ResetRegisters
    <3>2. 28967 \in RawWords /\ 28967 % 32768 = 28967
      BY RawWordsAre
    <3> QED
      BY <2>1, <3>1, <3>2, HeldIs DEF Holdable
  <2>2. CASE reg = 15
    <3>1. ResetRegisters[reg] = 0
      BY <1>1, <2>2 DEF ResetRegisters
    <3>2. 0 \in RawWords /\ ((0 \div 1024) % 32) * 1024 = 0
      BY RawWordsAre
    <3> QED
      BY <2>2, <3>1, <3>2, HeldIs DEF Holdable
  <2>3. CASE reg = 14
    <3>1. ResetRegisters[reg] = 32766
      BY <1>1, <2>3 DEF ResetRegisters
    <3>2. 32766 \in RawWords /\ 32766 - (32766 % 2) = 32766
      BY RawWordsAre
    <3> QED
      BY <2>3, <3>1, <3>2, HeldIs DEF Holdable
  <2>4. CASE reg \notin {0, 14, 15}
    <3>1. ResetRegisters[reg] \in {10000, 9000, 32760}
      BY <1>1, <2>4 DEF ResetRegisters
    <3>2. ASSUME NEW word \in {10000, 9000, 32760}
          PROVE  word \in RawWords /\ word - (word % 8) = word
      BY RawWordsAre
    <3> QED
      BY <2>4, <3>1, <3>2, HeldIs DEF Holdable
  <2> QED
    BY <2>1, <2>2, <2>3, <2>4
<1>2. ResetRegisters \in [WritableAddress -> RawWords]
  <2>1. ResetRegisters = [reg \in WritableAddress |-> ResetRegisters[reg]]
    BY DEF ResetRegisters
  <2>2. \A reg \in WritableAddress : ResetRegisters[reg] \in RawWords
    BY <1>1 DEF Holdable
  <2> QED
    BY <2>1, <2>2
<1>3. ResetSettings \in Settings
  BY DEF ResetSettings, Settings
<1>4. ResetRegisters[REG_CONFIG] = 28967
  BY DEF ResetRegisters, WritableAddress
<1>5. buildConfigRegister(ResetSettings) = 28967
  <2>1. ChannelCode(Channel) = 7
    BY DEF ChannelCode, Channel
  <2>2. ResetSettings.channels = Channel /\ ResetSettings.averaging = 0
        /\ ResetSettings.vBusCt = 4 /\ ResetSettings.vShCt = 4 /\ ResetSettings.mode = 7
    BY DEF ResetSettings
  <2> QED
    BY <1>3, <2>1, <2>2, ConfigIs
<1> QED
  BY <1>1, <1>2, <1>3, <1>4, <1>5

(* After a reset nothing is applied, and the view shows Configuration. *)
LEMMA ResetKeeps ==
  ASSUME ProfileIInv, SoftReset
  PROVE  ProfileIInv'
<1>1. /\ registers' = ResetRegisters
      /\ applied' = {}
      /\ view' = [view EXCEPT !.settings = ResetSettings]
      /\ viewed' = TRUE
      /\ conversion' = NoConversion
      /\ outcome' = "OK"
      /\ profile' = profile
  BY DEF SoftReset
<1>2. /\ view'.settings = ResetSettings
      /\ view' \in [settings : Settings,
                    ohms : {[c \in Channel |-> FloatOhms(profile.resistance[c])]}]
  BY <1>1, ResetIs DEF ProfileIInv, TypeOK
<1>3. TypeOK'
  BY <1>1, <1>2, ResetIs DEF ProfileIInv, TypeOK, NoConversion
<1>4. WordsAreHoldable' /\ ViewHolds'
  BY <1>1, <1>2, ResetIs DEF WordsAreHoldable, ViewHolds
<1>5. ProfileStaysValid' /\ RegistersHoldTheProfile' /\ HealthyDeviceVerifies'
      /\ ConversionIsViewed'
  BY <1>1 DEF ProfileIInv, ProfileStaysValid, RegistersHoldTheProfile, HealthyDeviceVerifies,
              ConversionIsViewed, NoConversion
<1> QED
  BY <1>3, <1>4, <1>5 DEF ProfileIInv

(* A raw Configuration is what the view then shows, and what is waited for. *)
LEMMA WriteConfigKeeps ==
  ASSUME ProfileIInv, WriteConfig
  PROVE  ProfileIInv'
<1>1. PICK word \in ConfigWords :
        /\ ~IsSet(word, 15)
        /\ registers' = [registers EXCEPT ![REG_CONFIG] = Held(REG_CONFIG, word)]
        /\ applied' = applied \ {"MEASUREMENT"}
        /\ view' = [view EXCEPT !.settings = DecodeConfig(word)]
        /\ viewed' = TRUE
        /\ conversion' = ConversionUnder(DecodeConfig(word))
        /\ outcome' = "OK"
        /\ profile' = profile
  BY Zenon DEF WriteConfig
<1> DEFINE s == DecodeConfig(word)
<1>2. word \in RawWords
  BY ProfileRegistersAssumption DEF ProfileRegistersAssumption
<1>3. word \in Nat /\ word < 32768
  <2>1. word \in Nat /\ word < 65536
    BY <1>2, RawWordsAre
  <2>2. (word \div 32768) % 2 # 1
    BY <1>1, <2>1 DEF IsSet, Field
  <2> QED
    BY <2>1, <2>2
<1>4. s \in Settings /\ buildConfigRegister(s) = word
  BY <1>3, ConfigIsBuiltBack
<1>5. Held(REG_CONFIG, word) = word
  <2>1. word % 32768 = word
    BY <1>3
  <2> QED
    BY <1>2, <2>1, HeldIs DEF REG_CONFIG
<1>6. Holdable(REG_CONFIG, word)
  BY <1>2, <1>5 DEF Holdable
<1>7. REG_CONFIG \in WritableAddress /\ registers \in [WritableAddress -> RawWords]
  BY DEF WritableAddress, ProfileIInv, TypeOK
<1>8. /\ registers' \in [WritableAddress -> RawWords]
      /\ registers'[REG_CONFIG] = word
      /\ \A reg \in WritableAddress : reg # REG_CONFIG => registers'[reg] = registers[reg]
  BY <1>1, <1>2, <1>5, <1>7
<1> HIDE DEF s
<1>9. /\ view'.settings = s
      /\ view' \in [settings : Settings,
                    ohms : {[c \in Channel |-> FloatOhms(profile.resistance[c])]}]
  BY <1>1, <1>4 DEF ProfileIInv, TypeOK, s
<1>10. conversion' = ConversionUnder(s)
  BY <1>1 DEF s
<1>11. conversion' \in [state : {"NONE", "STARTED", "READY"}, delay : Nat]
  BY <1>4, <1>10, DelayCovers DEF ConversionUnder, NoConversion
<1>12. TypeOK'
  BY <1>1, <1>8, <1>9, <1>11 DEF ProfileIInv, TypeOK
<1>13. WordsAreHoldable'
  BY <1>6, <1>8 DEF ProfileIInv, WordsAreHoldable
<1>14. RegistersHoldTheProfile'
  <2> SUFFICES ASSUME NEW i \in 0 .. LastIndex, FamilyOf(RegisterAt(i)) \in applied'
               PROVE  registerMatches(RegisterAt(i), registers'[RegisterAt(i)],
                                      DesiredWord(i, profile))
    BY <1>1 DEF RegistersHoldTheProfile
  <2>1. FamilyOf(RegisterAt(i)) \in applied /\ RegisterAt(i) # REG_CONFIG
    BY <1>1 DEF FamilyOf
  <2>2. registers'[RegisterAt(i)] = registers[RegisterAt(i)]
    BY <1>8, <2>1, IndexIs
  <2> QED
    BY <2>1, <2>2 DEF ProfileIInv, RegistersHoldTheProfile
<1>15. ProfileStaysValid' /\ HealthyDeviceVerifies'
  BY <1>1 DEF ProfileIInv, ProfileStaysValid, HealthyDeviceVerifies
<1>16. ViewHolds'
  BY <1>4, <1>8, <1>9 DEF ViewHolds
<1>17. ConversionIsViewed'
  BY <1>1, <1>9, <1>10 DEF ConversionIsViewed, ConversionUnder, NoConversion
<1> QED
  BY <1>12, <1>13, <1>14, <1>15, <1>16, <1>17 DEF ProfileIInv

(* A raw write takes its register's family back, and a conversion with     *)
(* Configuration.                                                          *)
LEMMA WriteRegisterKeeps ==
  ASSUME ProfileIInv, WriteRegister16
  PROVE  ProfileIInv'
<1>1. PICK write \in RawWrites :
        LET reg == write[1]
            word == write[2]
        IN /\ reg \in WritableAddress
           /\ registers' = [registers EXCEPT ![reg] = Held(reg, word)]
           /\ applied' = applied \ {FamilyOf(reg)}
           /\ viewed' = (viewed /\ reg # REG_CONFIG)
           /\ conversion' = IF reg = REG_CONFIG THEN NoConversion ELSE conversion
           /\ outcome' = "OK"
           /\ UNCHANGED <<profile, view>>
  BY Zenon DEF WriteRegister16
<1> DEFINE reg == write[1]
           word == write[2]
           held == Held(reg, word)
<1>2. word \in RawWords
  BY ProfileRegistersAssumption DEF ProfileRegistersAssumption
<1>3. /\ reg \in WritableAddress
      /\ registers' = [registers EXCEPT ![reg] = held]
      /\ applied' = applied \ {FamilyOf(reg)}
      /\ viewed' = (viewed /\ reg # REG_CONFIG)
      /\ conversion' = IF reg = REG_CONFIG THEN NoConversion ELSE conversion
      /\ outcome' = "OK"
      /\ profile' = profile /\ view' = view
  BY <1>1
<1> HIDE DEF reg, word
<1>4. Holdable(reg, held) /\ held \in RawWords
  BY <1>2, HeldIsHoldable DEF Holdable
<1> HIDE DEF held
<1>5. registers \in [WritableAddress -> RawWords]
  BY DEF ProfileIInv, TypeOK
<1>6. /\ registers' \in [WritableAddress -> RawWords]
      /\ registers'[reg] = held
      /\ \A r \in WritableAddress : r # reg => registers'[r] = registers[r]
  BY <1>3, <1>4, <1>5
<1>7. viewed' \in BOOLEAN /\ (viewed' => viewed /\ reg # REG_CONFIG)
  BY <1>3 DEF ProfileIInv, TypeOK
<1>8. TypeOK'
  <2>1. applied' \subseteq Family
    BY <1>3 DEF ProfileIInv, TypeOK
  <2>2. conversion' \in [state : {"NONE", "STARTED", "READY"}, delay : Nat]
    BY <1>3 DEF ProfileIInv, TypeOK, NoConversion
  <2>3. /\ profile' \in DeviceProfiles
        /\ view' \in [settings : Settings,
                      ohms : {[c \in Channel |-> FloatOhms(profile'.resistance[c])]}]
    BY <1>3 DEF ProfileIInv, TypeOK
  <2> QED
    BY <1>6, <1>7, <2>1, <2>2, <2>3 DEF TypeOK
<1>9. WordsAreHoldable'
  BY <1>4, <1>6 DEF ProfileIInv, WordsAreHoldable
<1>10. RegistersHoldTheProfile'
  <2> SUFFICES ASSUME NEW i \in 0 .. LastIndex, FamilyOf(RegisterAt(i)) \in applied'
               PROVE  registerMatches(RegisterAt(i), registers'[RegisterAt(i)],
                                      DesiredWord(i, profile))
    BY <1>3 DEF RegistersHoldTheProfile
  <2>1. FamilyOf(RegisterAt(i)) \in applied /\ FamilyOf(RegisterAt(i)) # FamilyOf(reg)
    BY <1>3
  <2>2. registers'[RegisterAt(i)] = registers[RegisterAt(i)]
    BY <1>6, <2>1, IndexIs
  <2> QED
    BY <2>1, <2>2 DEF ProfileIInv, RegistersHoldTheProfile
<1>11. ProfileStaysValid' /\ HealthyDeviceVerifies'
  BY <1>3 DEF ProfileIInv, ProfileStaysValid, HealthyDeviceVerifies
<1>12. ViewHolds'
  <2>1. viewed' => registers'[REG_CONFIG] = registers[REG_CONFIG]
    BY <1>6, <1>7 DEF WritableAddress
  <2> QED
    BY <1>3, <1>7, <2>1 DEF ProfileIInv, ViewHolds
<1>13. ConversionIsViewed'
  <2>1. conversion'.state # "NONE" => conversion' = conversion /\ reg # REG_CONFIG
    BY <1>3 DEF NoConversion
  <2> QED
    BY <1>3, <1>7, <2>1 DEF ProfileIInv, ConversionIsViewed
<1> QED
  BY <1>8, <1>9, <1>10, <1>11, <1>12, <1>13 DEF ProfileIInv

(* Reads change nothing but the readiness of a conversion. *)
LEMMA ReadKeeps ==
  ASSUME ProfileIInv, ReadMeasurement \/ ReadConversionReady \/ CancelConversion
  PROVE  ProfileIInv'
<1>1. /\ outcome' = "OK" /\ profile' = profile /\ registers' = registers
      /\ applied' = applied /\ view' = view /\ viewed' = viewed
  BY DEF ReadMeasurement, ReadConversionReady, CancelConversion, ReadFrame
<1>2. /\ conversion' \in [state : {"NONE", "STARTED", "READY"}, delay : Nat]
      /\ conversion'.state # "NONE" =>
           conversion.state # "NONE" /\ conversion'.delay = conversion.delay
  <2>1. CASE conversion' \in MaybeReady
    BY <2>1, ReadinessIs DEF ProfileIInv, TypeOK
  <2>2. CASE conversion' = NoConversion
    BY <2>2 DEF NoConversion
  <2> QED
    BY <2>1, <2>2 DEF ReadMeasurement, ReadConversionReady, CancelConversion
<1>3. TypeOK'
  BY <1>1, <1>2 DEF ProfileIInv, TypeOK
<1>4. /\ ProfileStaysValid' /\ WordsAreHoldable' /\ RegistersHoldTheProfile'
      /\ HealthyDeviceVerifies' /\ ViewHolds'
  BY <1>1 DEF ProfileIInv, ProfileStaysValid, WordsAreHoldable, RegistersHoldTheProfile,
              HealthyDeviceVerifies, ViewHolds
<1>5. ConversionIsViewed'
  BY <1>1, <1>2 DEF ProfileIInv, ConversionIsViewed
<1> QED
  BY <1>3, <1>4, <1>5 DEF ProfileIInv

-----------------------------------------------------------------------------
(* The invariant *)

(* begin is a job on a device that has just been reset. *)
LEMMA InitHolds == Init => ProfileIInv
<1> SUFFICES ASSUME Init
             PROVE  ProfileIInv
  OBVIOUS
<1>1. profile \in DeviceProfiles /\ validateProfile(profile)
  BY ProfileRegistersAssumption DEF ProfileRegistersAssumption, Init
<1>2. registers = Written(ResetRegisters, profile)
  BY DEF Init, Written
<1>3. /\ \A i \in 0 .. LastIndex : registers[RegisterAt(i)] = DesiredWord(i, profile)
      /\ \A reg \in WritableAddress : Holdable(reg, registers[reg])
      /\ registers \in [WritableAddress -> RawWords]
  BY <1>1, <1>2, ResetIs, WrittenIs
<1>4. /\ applied = Family
      /\ view = syncLegacyConfigViewFromProfile(profile)
      /\ viewed = TRUE
      /\ conversion = NoConversion
      /\ outcome = "OK"
  BY DEF Init
<1>5. profile.settings \in Settings
  BY <1>1 DEF validateProfile, ValidSettings
<1>6. TypeOK
  BY <1>1, <1>3, <1>4, <1>5, ViewIs DEF TypeOK, NoConversion
<1>7. ProfileStaysValid /\ WordsAreHoldable /\ HealthyDeviceVerifies /\ ConversionIsViewed
  BY <1>1, <1>3, <1>4 DEF ProfileStaysValid, WordsAreHoldable, HealthyDeviceVerifies,
                          ConversionIsViewed, NoConversion
<1>8. RegistersHoldTheProfile
  BY <1>1, <1>3, WordsMatch DEF RegistersHoldTheProfile
<1>9. ViewHolds
  <2>1. registers[RegisterAt(0)] = DesiredWord(0, profile) /\ RegisterAt(0) = REG_CONFIG
    BY <1>3, RegistersAre
  <2>2. DesiredWord(0, profile) = buildConfigRegister(profile.settings)
    BY DesiredWordIs
  <2>3. view.settings = profile.settings
    BY <1>4, <1>5, ViewIs
  <2> QED
    BY <2>1, <2>2, <2>3 DEF ViewHolds
<1> QED
  BY <1>6, <1>7, <1>8, <1>9 DEF ProfileIInv

(* Every call keeps it. *)
LEMMA StepKeeps == ProfileIInv /\ [Next]_vars => ProfileIInv'
<1> SUFFICES ASSUME ProfileIInv, [Next]_vars
             PROVE  ProfileIInv'
  OBVIOUS
<1>1. CASE ApplyProfile \/ Reconcile
  BY <1>1, ApplyKeeps
<1>2. CASE ApplyMaskEnable
  BY <1>2, ApplyMaskEnableKeeps
<1>3. CASE Restart
  BY <1>3, RestartKeeps
<1>4. CASE SetTiming
  BY <1>4, TimingKeeps
<1>5. CASE SetMode \/ StartConversionIn
  BY <1>5, ModeKeeps
<1>6. CASE SetChannelEnable
  BY <1>6, ChannelEnableKeeps
<1>7. CASE StartConversion
  BY <1>7, StartKeeps
<1>8. CASE SetChannelLimit
  BY <1>8, ChannelLimitKeeps
<1>9. CASE SetShuntSumLimit
  BY <1>9, SumLimitKeeps
<1>10. CASE SetPowerValidUpperLimit
  BY <1>10, UpperLimitKeeps
<1>11. CASE SetPowerValidLowerLimit
  BY <1>11, LowerLimitKeeps
<1>12. CASE SetSummationChannels
  BY <1>12, SummationKeeps
<1>13. CASE SetAlertLatchEnable
  BY <1>13, LatchKeeps
<1>14. CASE SetShuntResistance
  BY <1>14, ResistanceKeeps
<1>15. CASE SoftReset
  BY <1>15, ResetKeeps
<1>16. CASE WriteConfig
  BY <1>16, WriteConfigKeeps
<1>17. CASE WriteRegister16
  BY <1>17, WriteRegisterKeeps
<1>18. CASE ReadMeasurement \/ ReadConversionReady \/ CancelConversion
  BY <1>18, ReadKeeps
<1>19. CASE UNCHANGED vars
  BY <1>19 DEF vars, ProfileIInv, TypeOK, ProfileStaysValid, WordsAreHoldable,
               RegistersHoldTheProfile, HealthyDeviceVerifies, ViewHolds, ConversionIsViewed
<1> QED
  BY <1>1, <1>2, <1>3, <1>4, <1>5, <1>6, <1>7, <1>8, <1>9, <1>10, <1>11, <1>12, <1>13, <1>14,
     <1>15, <1>16, <1>17, <1>18, <1>19, Zenon DEF Next

(* The profile, the registers, the view and the conversion stay in step    *)
(* through any sequence of calls: what ProfileIInv says is invariant.      *)
THEOREM ProfileInvariant == Spec => []ProfileIInv
  BY InitHolds, StepKeeps, PTL DEF Spec

(* The retained profile would always be accepted by bind or startReconcile, *)
(* though a setter validates no more than what it changes.                 *)
THEOREM ProfileCorrect == Spec => []ProfileStaysValid
<1>1. ProfileIInv => ProfileStaysValid
  BY DEF ProfileIInv
<1> QED
  BY <1>1, ProfileInvariant, PTL

(* A family that is APPLIED has the profile's words in its registers: the  *)
(* word of a setter, the retained value and the word of a later job agree. *)
THEOREM RegistersCorrect == Spec => []RegistersHoldTheProfile
<1>1. ProfileIInv => RegistersHoldTheProfile
  BY DEF ProfileIInv
<1> QED
  BY <1>1, ProfileInvariant, PTL

(* No call writes what a healthy device would not hold and then reports a  *)
(* mismatch.                                                               *)
THEOREM VerificationCorrect == Spec => []HealthyDeviceVerifies
<1>1. ProfileIInv => HealthyDeviceVerifies
  BY DEF ProfileIInv
<1> QED
  BY <1>1, ProfileInvariant, PTL

(* getConfig shows what Configuration holds unless writeRegister16 wrote   *)
(* it, and a restart from it restores the small calibrations.              *)
THEOREM ViewCorrect == Spec => []LegacyViewIsTrue
<1>1. ProfileIInv => LegacyViewIsTrue
  <2> SUFFICES ASSUME ProfileIInv
               PROVE  LegacyViewIsTrue
    OBVIOUS
  <2>1. viewed => registers[REG_CONFIG] = buildConfigRegister(legacyToContracts(view).settings)
    BY DEF ProfileIInv, ViewHolds, legacyToContracts
  <2>2. ASSUME NEW c \in Channel, profile.resistance[c] # 1,
               profile.resistance[c] < 2 ^ (FloatBits - 1)
        PROVE  legacyToContracts(view).resistance[c] = profile.resistance[c]
    <3>1. /\ profile \in DeviceProfiles
          /\ view.ohms = [d \in Channel |-> FloatOhms(profile.resistance[d])]
      BY DEF ProfileIInv, TypeOK
    <3>2. profile.resistance[c] \in Calibration
      BY <3>1, ProfileParts
    <3>3. legacyToContracts(view).resistance[c] = MicroOhms(FloatOhms(profile.resistance[c]))
      BY <3>1 DEF legacyToContracts
    <3> QED
      BY <2>2, <3>2, <3>3, SmallIsReadBack
  <2> QED
    BY <2>1, <2>2 DEF LegacyViewIsTrue
<1> QED
  BY <1>1, ProfileInvariant, PTL

(* What Configuration and Mask/Enable show, by the invariant *)
LEMMA ShownIs ==
  ASSUME ProfileIInv
  PROVE  /\ "MEASUREMENT" \in applied => DecodeConfig(registers[REG_CONFIG]) = profile.settings
         /\ "ALERT" \in applied =>
              BitsToChannels(registers[REG_MASK_ENABLE], 14) = profile.alerts.summation
         /\ viewed => DecodeConfig(registers[REG_CONFIG]) = view.settings
<1>1. profile \in DeviceProfiles /\ validateProfile(profile) /\ view.settings \in Settings
  BY DEF ProfileIInv, TypeOK, ProfileStaysValid
<1>2. profile.settings \in Settings
  BY <1>1 DEF validateProfile, ValidSettings
<1>3. ASSUME NEW i \in 0 .. LastIndex, FamilyOf(RegisterAt(i)) \in applied
      PROVE  registers[RegisterAt(i)] = DesiredWord(i, profile)
  <2>1. registerMatches(RegisterAt(i), registers[RegisterAt(i)], DesiredWord(i, profile))
    BY <1>3 DEF ProfileIInv, RegistersHoldTheProfile
  <2>2. Holdable(RegisterAt(i), registers[RegisterAt(i)])
    BY IndexIs DEF ProfileIInv, WordsAreHoldable
  <2> QED
    BY <1>1, <2>1, <2>2, HoldingIsEquality
<1>4. 0 \in 0 .. LastIndex /\ 8 \in 0 .. LastIndex
      /\ RegisterAt(0) = REG_CONFIG /\ RegisterAt(8) = REG_MASK_ENABLE
      /\ FamilyOf(REG_CONFIG) = "MEASUREMENT" /\ FamilyOf(REG_MASK_ENABLE) = "ALERT"
  BY RegistersAre DEF FamilyOf, REG_CONFIG, REG_MASK_ENABLE
<1>5. ASSUME "MEASUREMENT" \in applied
      PROVE  DecodeConfig(registers[REG_CONFIG]) = profile.settings
  <2>1. registers[REG_CONFIG] = buildConfigRegister(profile.settings)
    BY <1>3, <1>4, <1>5, DesiredWordIs
  <2> QED
    BY <1>2, <2>1, ConfigIsReadBack
<1>6. ASSUME "ALERT" \in applied
      PROVE  BitsToChannels(registers[REG_MASK_ENABLE], 14) = profile.alerts.summation
  <2>1. registers[REG_MASK_ENABLE] = buildMaskEnable(profile.alerts)
    BY <1>3, <1>4, <1>6, DesiredWordIs
  <2>2. profile.alerts \in AlertProfiles
    BY <1>1, ProfileParts
  <2> QED
    BY <2>1, <2>2, MaskIsReadBack
<1>7. ASSUME viewed
      PROVE  DecodeConfig(registers[REG_CONFIG]) = view.settings
  <2>1. registers[REG_CONFIG] = buildConfigRegister(view.settings)
    BY <1>7 DEF ProfileIInv, ViewHolds
  <2> QED
    BY <1>1, <2>1, ConfigIsReadBack
<1> QED
  BY <1>5, <1>6, <1>7

(* What is read is what the device measures, and a conversion is waited    *)
(* for as long as it can take.                                             *)
THEOREM ReadingsCorrect == Spec => []ReadingsAreMeasured
<1>1. ProfileIInv => ReadingsAreMeasured
  <2> SUFFICES ASSUME ProfileIInv
               PROVE  ReadingsAreMeasured
    OBVIOUS
  <2> DEFINE actual == DecodeConfig(registers[REG_CONFIG])
             Measured(channels, quantities) ==
               /\ channels \subseteq actual.channels
               /\ "SHUNT" \in quantities => modeReadsShunt(actual.mode)
               /\ "BUS" \in quantities => modeReadsBus(actual.mode)
  <2>1. ASSUME NEW c \in Channel, NEW quantities \in Quantities, AdmitsRead({c}, quantities)
        PROVE  Measured({c}, quantities)
    <3>1. "MEASUREMENT" \in applied /\ validateMeasurementRead(c, quantities)
      BY <2>1 DEF AdmitsRead, ensureMeasurementReadyForRead
    <3>2. actual = profile.settings
      BY <3>1, ShownIs
    <3> HIDE DEF actual
    <3> QED
      BY <3>1, <3>2 DEF validateMeasurementRead
  <2>2. ASSUME AdmitsSumRead
        PROVE  Measured(BitsToChannels(registers[REG_MASK_ENABLE], 14), {"SHUNT"})
    <3>1. /\ "MEASUREMENT" \in applied /\ "ALERT" \in applied
          /\ modeReadsShunt(profile.settings.mode)
      BY <2>2 DEF AdmitsSumRead, ensureMeasurementReadyForRead
    <3>2. /\ actual = profile.settings
          /\ BitsToChannels(registers[REG_MASK_ENABLE], 14) = profile.alerts.summation
      BY <3>1, ShownIs
    <3>3. profile.alerts.summation \subseteq profile.settings.channels
      BY DEF ProfileIInv, ProfileStaysValid, validateProfile
    <3> HIDE DEF actual
    <3> QED
      BY <3>1, <3>2, <3>3
  <2>3. ASSUME conversion.state # "NONE"
        PROVE  /\ isTriggeredMode(actual.mode)
               /\ conversion.delay * 1000 >= maximumCycleTimeUs(actual) + WakeMarginUs
               /\ maximumCycleTimeUs(actual) >= getCycleTimeUs(view)
    <3>1. /\ viewed /\ isTriggeredMode(view.settings.mode)
          /\ conversion.delay = conversionReadyDelayMs(view.settings)
      BY <2>3 DEF ProfileIInv, ConversionIsViewed
    <3>2. actual = view.settings
      BY <3>1, ShownIs
    <3>3. view.settings \in Settings
      BY DEF ProfileIInv, TypeOK
    <3>4. /\ conversionReadyDelayMs(view.settings) * 1000
               >= maximumCycleTimeUs(view.settings) + WakeMarginUs
          /\ getCycleTimeUs(view) <= maximumCycleTimeUs(view.settings)
      BY <3>3, CyclesAre, DelayCovers DEF getCycleTimeUs
    <3>5. getCycleTimeUs(view) <= maximumCycleTimeUs(view.settings)
            <=> maximumCycleTimeUs(view.settings) >= getCycleTimeUs(view)
      OBVIOUS
    <3> HIDE DEF actual
    <3> QED
      BY <3>1, <3>2, <3>4, <3>5
  <2> QED
    BY <2>1, <2>2, <2>3 DEF ReadingsAreMeasured
<1> QED
  BY <1>1, ProfileInvariant, PTL

=============================================================================
