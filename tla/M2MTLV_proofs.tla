---------------------------- MODULE M2MTLV_proofs ----------------------------
(***************************************************************************)
(* What the TLV code does for every payload and all contents: headers,     *)
(* what a payload may change (...Writes), what an accepted one leaves      *)
(* (...Applies), and what is written and read back (...Restores). The      *)
(* readers are functions on positions and the folds functions on subsets:  *)
(* inductions over a range and over cardinalities stand for those on data. *)
(***************************************************************************)
EXTENDS M2MTLV, WellFoundedInduction, SequenceTheorems, FiniteSetTheorems, TLAPS

-----------------------------------------------------------------------------
(* Functions defined by recursion over a range of positions.               *)

\* Induction over a range, for a set of positions.
LEMMA RangeInduction ==
    ASSUME NEW low \in Int, NEW high \in Int, low <= high, NEW S, low \in S,
           \A n \in (low + 1)..high : n - 1 \in S => n \in S
    PROVE  \A n \in low..high : n \in S
  <1> DEFINE less == OpToRel(<, Nat)
             T == {k \in Nat : low + k <= high /\ low + k \notin S}
  <1> SUFFICES ASSUME T # {}
               PROVE  FALSE
    <2> SUFFICES ASSUME NEW n \in low..high, n \notin S
                 PROVE  FALSE
      OBVIOUS
    <2>1. n - low \in T
      OBVIOUS
    <2> QED
      BY <2>1
  <1>1. IsWellFoundedOn(less, Nat)
    BY NatLessThanWellFounded
  <1>2. \A x, y \in Nat : y < x => <<y, x>> \in less
    BY DEF OpToRel
  <1> HIDE DEF less
  <1>3. PICK k \in T : \A y \in T : ~(<<y, k>> \in less)
    BY <1>1, WFMin
  <1>4. k # 0 /\ k - 1 \in Nat /\ k - 1 < k
    BY <1>3
  <1>5. k - 1 \notin T
    BY <1>2, <1>3, <1>4
  <1>6. low + k \in (low + 1)..high /\ (low + k) - 1 \in S
    BY <1>4, <1>5
  <1> QED
    BY <1>6

\* A function of a range that begins with start and goes on by step.
Recursion(low, high, X, start, step) ==
    \E f \in [low..high -> X] :
        \A n \in low..high : f[n] = IF n = low THEN start ELSE step[<<n, f[n - 1]>>]

\* There is one if the steps stay in X.
LEMMA RecursionExists ==
    ASSUME NEW low \in Int, NEW high \in Int, low <= high, NEW X, NEW start \in X,
           NEW step, \A n \in (low + 1)..high : \A x \in X : step[<<n, x>>] \in X
    PROVE  Recursion(low, high, X, start, step)
  <1> DEFINE Goes(f, m) == \A n \in low..m : f[n] = IF n = low THEN start ELSE step[<<n, f[n - 1]>>]
             S == {m \in low..high : \E f \in [low..m -> X] : Goes(f, m)}
  <1>1. low \in S
    <2> DEFINE f == [n \in low..low |-> start]
    <2>1. f \in [low..low -> X] /\ Goes(f, low)
      OBVIOUS
    <2> HIDE DEF f, Goes
    <2>2. \E h \in [low..low -> X] : Goes(h, low)
      BY <2>1
    <2> QED
      BY <2>2
  <1>2. ASSUME NEW m \in (low + 1)..high, m - 1 \in S
        PROVE  m \in S
    <2>1. PICK f \in [low..(m - 1) -> X] : Goes(f, m - 1)
      BY <1>2
    <2> DEFINE g == [n \in low..m |-> IF n = m THEN step[<<m, f[m - 1]>>] ELSE f[n]]
    <2>2. step[<<m, f[m - 1]>>] \in X
      BY <2>1
    <2>3. g \in [low..m -> X]
      BY <2>1, <2>2
    <2>4. \A n \in low..m : g[n] = IF n = low THEN start ELSE step[<<n, g[n - 1]>>]
      <3> SUFFICES ASSUME NEW n \in low..m
                   PROVE  g[n] = IF n = low THEN start ELSE step[<<n, g[n - 1]>>]
        OBVIOUS
      <3>1. CASE n = m
        <4>1. g[n - 1] = f[m - 1] /\ n # low
          BY <3>1
        <4> QED
          BY <3>1, <4>1
      <3>2. CASE n # m
        <4>1. g[n] = f[n] /\ n \in low..(m - 1)
          BY <3>2
        <4>2. n # low => g[n - 1] = f[n - 1]
          BY <3>2
        <4>3. f[n] = IF n = low THEN start ELSE step[<<n, f[n - 1]>>]
          BY <2>1, <4>1
        <4> QED
          BY <4>1, <4>2, <4>3
      <3> QED
        BY <3>1, <3>2
    <2>5. Goes(g, m)
      BY <2>3, <2>4
    <2> HIDE DEF g, Goes
    <2>6. \E h \in [low..m -> X] : Goes(h, m)
      BY <2>3, <2>5
    <2> QED
      BY <2>6
  <1> HIDE DEF S
  <1>3. high \in S
    BY <1>1, <1>2, RangeInduction
  <1> QED
    BY <1>3 DEF S, Recursion

-----------------------------------------------------------------------------
(* Headers.                                                                *)

LEMMA Widths ==
    /\ 2^24 - 1 \in Int /\ 2^24 - 1 < 256 * 256 * 256
    /\ 65535 \in Int /\ 65535 < 256 * 256
  BY SMT

LEMMA TypeCodes ==
    /\ DOMAIN TypeCode = {"OI", "RI", "M", "R"}
    /\ TypeCode["OI"] = 0 /\ TypeCode["RI"] = 64 /\ TypeCode["M"] = 128 /\ TypeCode["R"] = 192
  BY DEF TypeCode

\* Where the elements of a concatenation come from.
LEMMA Joined ==
    ASSUME NEW s \in Seq(Int), NEW t \in Seq(Int)
    PROVE  /\ s \o t \in Seq(Int)
           /\ Len(s \o t) = Len(s) + Len(t)
           /\ DOMAIN (s \o t) = 1..(Len(s) + Len(t))
           /\ \A j \in 1..Len(s) : (s \o t)[j] = s[j]
           /\ \A j \in 1..Len(t) : (s \o t)[Len(s) + j] = t[j]
  <1>1. /\ s \o t \in Seq(Int)
        /\ Len(s \o t) = Len(s) + Len(t)
        /\ \A j \in 1..Len(s) + Len(t) :
               (s \o t)[j] = IF j <= Len(s) THEN s[j] ELSE t[j - Len(s)]
    BY ConcatProperties
  <1>2. Len(s) \in Nat /\ Len(t) \in Nat
    OBVIOUS
  <1>3. ASSUME NEW j \in 1..Len(t)
        PROVE  (s \o t)[Len(s) + j] = t[j]
    <2>1. /\ Len(s) + j \in 1..Len(s) + Len(t) /\ ~(Len(s) + j <= Len(s))
          /\ (Len(s) + j) - Len(s) = j
      BY <1>2
    <2> QED
      BY <1>1, <2>1, Zenon
  <1>4. ASSUME NEW j \in 1..Len(s)
        PROVE  (s \o t)[j] = s[j]
    <2>1. j \in 1..Len(s) + Len(t) /\ j <= Len(s)
      BY <1>2
    <2> QED
      BY <1>1, <2>1, Zenon
  <1>5. DOMAIN (s \o t) = 1..(Len(s) + Len(t))
    BY <1>1
  <1> QED
    BY <1>1, <1>3, <1>4, <1>5

LEMMA ByteThenTwo ==
    ASSUME NEW b \in Int, NEW t \in Seq(Int), NEW u \in Seq(Int), NEW v, v = <<b>> \o t \o u
    PROVE  /\ Len(v) = 1 + Len(t) + Len(u)
           /\ DOMAIN v = 1..(1 + Len(t) + Len(u))
           /\ v[1] = b
           /\ \A j \in 1..Len(t) : v[1 + j] = t[j]
           /\ \A j \in 1..Len(u) : v[1 + Len(t) + j] = u[j]
  <1> DEFINE s == <<b>>
             w == s \o t
  <1>1. s \in Seq(Int) /\ Len(s) = 1 /\ s[1] = b
    OBVIOUS
  <1>2. v = w \o u
    OBVIOUS
  <1> HIDE DEF s
  <1>3. /\ w \in Seq(Int) /\ Len(w) = Len(s) + Len(t)
        /\ \A j \in 1..Len(s) : w[j] = s[j]
        /\ \A j \in 1..Len(t) : w[Len(s) + j] = t[j]
    BY <1>1, Joined, Zenon
  <1> HIDE DEF w
  <1>4. /\ Len(w \o u) = Len(w) + Len(u)
        /\ \A j \in 1..Len(w) : (w \o u)[j] = w[j]
        /\ \A j \in 1..Len(u) : (w \o u)[Len(w) + j] = u[j]
        /\ DOMAIN (w \o u) = 1..(Len(w) + Len(u))
    BY <1>3, Joined, Zenon
  <1>5. /\ Len(v) = Len(w) + Len(u)
        /\ \A j \in 1..Len(w) : v[j] = w[j]
        /\ \A j \in 1..Len(u) : v[Len(w) + j] = u[j]
        /\ DOMAIN v = 1..(Len(w) + Len(u))
    BY <1>2, <1>4, Zenon
  <1>6. Len(t) \in Nat /\ Len(u) \in Nat /\ Len(w) = 1 + Len(t)
    BY <1>1, <1>3
  <1>7. 1 \in 1..Len(s) /\ 1 \in 1..Len(w)
    BY <1>1, <1>6
  <1>8. ASSUME NEW j \in 1..Len(t)
        PROVE  v[1 + j] = t[j]
    <2>1. 1 + j \in 1..Len(w)
      BY <1>6
    <2>2. v[1 + j] = w[1 + j]
      BY <1>5, <2>1, Zenon
    <2>3. w[1 + j] = t[j]
      BY <1>1, <1>3, Zenon
    <2> QED
      BY <2>2, <2>3
  <1> QED
    BY <1>1, <1>3, <1>5, <1>6, <1>7, <1>8

\* The header of a record of any type, identifier and length is a sequence of bytes
\* from which type, identifier, length and the place of the value are read as they
\* were written (serialize_TILV(), TypeIdLength).
THEOREM HeaderRoundTrip ==
    ASSUME NEW type \in DOMAIN TypeCode, NEW id \in Identifiers, NEW length \in 0..(2^24 - 1)
    PROVE  LET tlv == Header(type, id, length)
           IN  /\ \A j \in DOMAIN tlv : tlv[j] \in 0..255
               /\ (tlv[1] \div 64) * 64 = TypeCode[type]
               /\ DeserialiseID(tlv) = id
               /\ DeserialiseLength(tlv) = length
               /\ ValueOffset(tlv) = Len(tlv)
  <1> DEFINE tlv == Header(type, id, length)
             code == TypeCode[type]
             wide == IF id < 256 THEN 0 ELSE ID16
             kind == IF length < 8 THEN length
                     ELSE IF length < 256 THEN LENGTH8
                     ELSE IF length < 65536 THEN LENGTH16 ELSE LENGTH24
             ids == SerializeId(id)
             lengths == SerializeLength(length)
  <1>1. code \in {0, 64, 128, 192}
    BY SMT, TypeCodes
  <1>3. length \in Nat /\ length < 256 * 256 * 256 /\ id \in Nat /\ id < 256 * 256
    <2> DEFINE high == 2^24 - 1
               top == 65535
    <2>1. high \in Int /\ high < 256 * 256 * 256 /\ top \in Int /\ top < 256 * 256
      BY Widths
    <2>2. length \in 0..high
      BY Zenon
    <2>3. Identifiers = 0..top
      BY DEF Identifiers
    <2> HIDE DEF high, top, Identifiers
    <2>4. length \in Nat /\ length <= high /\ id \in Nat /\ id <= top
      BY <2>1, <2>2, <2>3
    <2> DEFINE square == 256 * 256
               cube == 256 * 256 * 256
    <2>5. square \in Int /\ cube \in Int /\ high < cube /\ top < square
      BY <2>1
    <2> HIDE DEF square, cube
    <2>6. length < cube /\ id < square
      BY <2>1, <2>4, <2>5
    <2> QED
      BY <2>4, <2>6 DEF square, cube
  <1>4. TypeByte(type, id, length) = code + wide + kind
    BY SMT DEF TypeByte
  <1>5. ids \in Seq(Int) /\ lengths \in Seq(Int) /\ TypeByte(type, id, length) \in Int
    BY SMT, <1>1, <1>3, <1>4 DEF SerializeId, SerializeLength, ID16, LENGTH8, LENGTH16, LENGTH24
  <1>6. /\ Len(tlv) = 1 + Len(ids) + Len(lengths)
        /\ DOMAIN tlv = 1..(1 + Len(ids) + Len(lengths))
        /\ tlv[1] = code + wide + kind
        /\ \A j \in 1..Len(ids) : tlv[1 + j] = ids[j]
        /\ \A j \in 1..Len(lengths) : tlv[1 + Len(ids) + j] = lengths[j]
    <2> HIDE DEF ids, lengths, kind, wide, code
    <2>1. tlv = <<TypeByte(type, id, length)>> \o ids \o lengths
      BY DEF Header, ids, lengths
    <2> HIDE DEF tlv
    <2> QED
      BY <1>4, <1>5, <2>1, ByteThenTwo
  <1>21. wide \in {0, 32} /\ (wide = 32 <=> id > 255) /\ kind \in 0..31
    BY SMT, <1>3 DEF ID16, LENGTH8, LENGTH16, LENGTH24
  <1>22. kind \div 8 = IF length < 8 THEN 0 ELSE IF length < 256 THEN 1
                        ELSE IF length < 65536 THEN 2 ELSE 3
    BY SMT, <1>3 DEF LENGTH8, LENGTH16, LENGTH24
  <1>23. length < 8 => kind % 8 = length
    BY SMT, <1>3
  <1> HIDE DEF tlv, ids, lengths, code, wide, kind
  <1>33. tlv[1] = code + wide + kind
    BY <1>6
  <1>34. Len(tlv) = 1 + Len(ids) + Len(lengths) /\ DOMAIN tlv = 1..(1 + Len(ids) + Len(lengths))
    BY <1>6
  <1>24. (tlv[1] \div 64) * 64 = code
    BY SMT, <1>1, <1>21, <1>33
  <1>25. (tlv[1] \div 32) % 2 = 1 <=> wide = 32
    BY SMT, <1>1, <1>21, <1>33
  <1>26. (tlv[1] \div 8) % 4 = kind \div 8
    BY SMT, <1>1, <1>21, <1>33
  <1>27. tlv[1] % 8 = kind % 8
    BY SMT, <1>1, <1>21, <1>33
  <1>7. (tlv[1] \div ID16) % 2 = 1 <=> id > 255
    BY SMT, <1>21, <1>25 DEF ID16
  <1>8. LengthType(tlv) = IF length < 8 THEN 0 ELSE IF length < 256 THEN LENGTH8
                          ELSE IF length < 65536 THEN LENGTH16 ELSE LENGTH24
    BY SMT, <1>22, <1>26 DEF LengthType, LENGTH8, LENGTH16, LENGTH24
  <1>9. tlv[1] \in 0..255 /\ (tlv[1] \div 64) * 64 = code
    BY SMT, <1>1, <1>21, <1>33, <1>24
  <1>10. length < 8 => tlv[1] % 8 = length
    BY SMT, <1>23, <1>27
  <1>11. PICK i1 \in 0..255 : i1 = id \div 256
    BY SMT, <1>3
  <1>12. PICK i2 \in 0..255 : i2 = id % 256
    BY SMT, <1>3
  <1>13. i1 * 256 + i2 = id
    BY SMT, <1>3, <1>11, <1>12
  <1>14. PICK l1 \in Nat : l1 = length \div 256
    BY SMT, <1>3
  <1>15. PICK l2 \in 0..255 : l2 = length % 256
    BY SMT, <1>3
  <1>16. l1 * 256 + l2 = length /\ l1 < 256 * 256 /\ (length < 65536 => l1 \in 0..255)
    BY SMT, <1>3, <1>14, <1>15
  <1>17. PICK m1 \in 0..255 : m1 = l1 \div 256
    BY SMT, <1>16
  <1>18. PICK m2 \in 0..255 : m2 = l1 % 256
    BY SMT, <1>16
  <1>19. m1 * 256 + m2 = l1 /\ m1 = length \div 65536
    BY SMT, <1>3, <1>14, <1>15, <1>16, <1>17, <1>18
  <1>20. (m1 * 256 + m2) * 256 + l2 = length
    BY SMT, <1>16, <1>19
  <1>28. /\ id < 256 => ids = <<id>>
         /\ id > 255 => ids = <<i1, i2>>
    BY SMT, <1>3, <1>11, <1>12 DEF ids, SerializeId
  <1>29. /\ id < 256 => Len(ids) = 1 /\ ids[1] = id
         /\ id > 255 => Len(ids) = 2 /\ ids[1] = i1 /\ ids[2] = i2
    BY SMT, <1>28
  <1>30. /\ length < 8 => lengths = <<>>
         /\ length > 7 /\ length < 256 => lengths = <<length>>
         /\ length > 255 /\ length < 65536 => lengths = <<l1, l2>>
         /\ length > 65535 => lengths = <<m1, m2, l2>>
    BY SMT, <1>3, <1>14, <1>15, <1>18, <1>19 DEF lengths, SerializeLength
  <1>31. /\ length < 8 => Len(lengths) = 0
         /\ length > 7 /\ length < 256 => Len(lengths) = 1 /\ lengths[1] = length
         /\ length > 255 /\ length < 65536 =>
                Len(lengths) = 2 /\ lengths[1] = l1 /\ lengths[2] = l2
         /\ length > 65535 =>
                Len(lengths) = 3 /\ lengths[1] = m1 /\ lengths[2] = m2 /\ lengths[3] = l2
    BY SMT, <1>30
  <1>35. CASE id < 256 /\ length < 8
    <2>1. Len(ids) = 1 /\ ids[1] = id
      BY SMT, <1>29, <1>35
    <2>2. Len(lengths) = 0
      BY SMT, <1>31, <1>35
    <2>8. Len(tlv) = 2 /\ DOMAIN tlv = 1..2
      BY <1>34, <2>1, <2>2
    <2>9. 1 \in 1..Len(ids)
      BY <2>1, <2>2
    <2>10. tlv[1 + 1] = ids[1]
      BY <1>6, <2>9, Zenon
    <2>11. tlv[2] = id
      BY <2>1, <2>2, <2>10
    <2>3. \A j \in DOMAIN tlv : tlv[j] \in 0..255
      BY SMT, <1>3, <1>9, <1>16, <1>35, <2>8, <2>11
    <2>4. DeserialiseID(tlv) = id
      BY SMT, <1>7, <1>13, <1>35, <2>11 DEF DeserialiseID
    <2>5. LengthAt(tlv) = 3
      BY SMT, <1>3, <1>7, <1>35 DEF LengthAt
    <2>6. DeserialiseLength(tlv) = length
      BY SMT, <1>8, <1>10, <1>16, <1>20, <1>35, <2>11, <2>5
         DEF DeserialiseLength, LENGTH8, LENGTH16, LENGTH24
    <2>7. ValueOffset(tlv) = Len(tlv)
      BY SMT, <1>3, <1>7, <1>8, <1>35, <2>8 DEF ValueOffset, LENGTH8, LENGTH16, LENGTH24
    <2> QED
      BY <1>9, <2>3, <2>4, <2>6, <2>7 DEF tlv, code
  <1>36. CASE id < 256 /\ length > 7 /\ length < 256
    <2>1. Len(ids) = 1 /\ ids[1] = id
      BY SMT, <1>29, <1>36
    <2>2. Len(lengths) = 1 /\ lengths[1] = length
      BY SMT, <1>31, <1>36
    <2>8. Len(tlv) = 3 /\ DOMAIN tlv = 1..3
      BY <1>34, <2>1, <2>2
    <2>9. 1 \in 1..Len(ids) /\ 1 \in 1..Len(lengths)
      BY <2>1, <2>2
    <2>10. tlv[1 + 1] = ids[1] /\ tlv[1 + Len(ids) + 1] = lengths[1]
      BY <1>6, <2>9, Zenon
    <2>11. tlv[2] = id /\ tlv[3] = length
      BY <2>1, <2>2, <2>10
    <2>3. \A j \in DOMAIN tlv : tlv[j] \in 0..255
      BY SMT, <1>3, <1>9, <1>16, <1>36, <2>8, <2>11
    <2>4. DeserialiseID(tlv) = id
      BY SMT, <1>7, <1>13, <1>36, <2>11 DEF DeserialiseID
    <2>5. LengthAt(tlv) = 3
      BY SMT, <1>3, <1>7, <1>36 DEF LengthAt
    <2>6. DeserialiseLength(tlv) = length
      BY SMT, <1>8, <1>10, <1>16, <1>20, <1>36, <2>11, <2>5
         DEF DeserialiseLength, LENGTH8, LENGTH16, LENGTH24
    <2>7. ValueOffset(tlv) = Len(tlv)
      BY SMT, <1>3, <1>7, <1>8, <1>36, <2>8 DEF ValueOffset, LENGTH8, LENGTH16, LENGTH24
    <2> QED
      BY <1>9, <2>3, <2>4, <2>6, <2>7 DEF tlv, code
  <1>37. CASE id < 256 /\ length > 255 /\ length < 65536
    <2>1. Len(ids) = 1 /\ ids[1] = id
      BY SMT, <1>29, <1>37
    <2>2. Len(lengths) = 2 /\ lengths[1] = l1 /\ lengths[2] = l2
      BY SMT, <1>31, <1>37
    <2>8. Len(tlv) = 4 /\ DOMAIN tlv = 1..4
      BY <1>34, <2>1, <2>2
    <2>9. 1 \in 1..Len(ids) /\ 1 \in 1..Len(lengths) /\ 2 \in 1..Len(lengths)
      BY <2>1, <2>2
    <2>10. tlv[1 + 1] = ids[1] /\ tlv[1 + Len(ids) + 1] = lengths[1] /\ tlv[1 + Len(ids) + 2] = lengths[2]
      BY <1>6, <2>9, Zenon
    <2>11. tlv[2] = id /\ tlv[3] = l1 /\ tlv[4] = l2
      BY <2>1, <2>2, <2>10
    <2>3. \A j \in DOMAIN tlv : tlv[j] \in 0..255
      BY SMT, <1>3, <1>9, <1>16, <1>37, <2>8, <2>11
    <2>4. DeserialiseID(tlv) = id
      BY SMT, <1>7, <1>13, <1>37, <2>11 DEF DeserialiseID
    <2>5. LengthAt(tlv) = 3
      BY SMT, <1>3, <1>7, <1>37 DEF LengthAt
    <2>6. DeserialiseLength(tlv) = length
      BY SMT, <1>8, <1>10, <1>16, <1>20, <1>37, <2>11, <2>5
         DEF DeserialiseLength, LENGTH8, LENGTH16, LENGTH24
    <2>7. ValueOffset(tlv) = Len(tlv)
      BY SMT, <1>3, <1>7, <1>8, <1>37, <2>8 DEF ValueOffset, LENGTH8, LENGTH16, LENGTH24
    <2> QED
      BY <1>9, <2>3, <2>4, <2>6, <2>7 DEF tlv, code
  <1>38. CASE id < 256 /\ length > 65535
    <2>1. Len(ids) = 1 /\ ids[1] = id
      BY SMT, <1>29, <1>38
    <2>2. Len(lengths) = 3 /\ lengths[1] = m1 /\ lengths[2] = m2 /\ lengths[3] = l2
      BY SMT, <1>31, <1>38
    <2>8. Len(tlv) = 5 /\ DOMAIN tlv = 1..5
      BY <1>34, <2>1, <2>2
    <2>9. 1 \in 1..Len(ids) /\ 1 \in 1..Len(lengths) /\ 2 \in 1..Len(lengths) /\ 3 \in 1..Len(lengths)
      BY <2>1, <2>2
    <2>10. tlv[1 + 1] = ids[1] /\ tlv[1 + Len(ids) + 1] = lengths[1] /\ tlv[1 + Len(ids) + 2] = lengths[2] /\ tlv[1 + Len(ids) + 3] = lengths[3]
      BY <1>6, <2>9, Zenon
    <2>11. tlv[2] = id /\ tlv[3] = m1 /\ tlv[4] = m2 /\ tlv[5] = l2
      BY <2>1, <2>2, <2>10
    <2>3. \A j \in DOMAIN tlv : tlv[j] \in 0..255
      BY SMT, <1>3, <1>9, <1>16, <1>38, <2>8, <2>11
    <2>4. DeserialiseID(tlv) = id
      BY SMT, <1>7, <1>13, <1>38, <2>11 DEF DeserialiseID
    <2>5. LengthAt(tlv) = 3
      BY SMT, <1>3, <1>7, <1>38 DEF LengthAt
    <2>6. DeserialiseLength(tlv) = length
      BY SMT, <1>8, <1>10, <1>16, <1>20, <1>38, <2>11, <2>5
         DEF DeserialiseLength, LENGTH8, LENGTH16, LENGTH24
    <2>7. ValueOffset(tlv) = Len(tlv)
      BY SMT, <1>3, <1>7, <1>8, <1>38, <2>8 DEF ValueOffset, LENGTH8, LENGTH16, LENGTH24
    <2> QED
      BY <1>9, <2>3, <2>4, <2>6, <2>7 DEF tlv, code
  <1>39. CASE id > 255 /\ length < 8
    <2>1. Len(ids) = 2 /\ ids[1] = i1 /\ ids[2] = i2
      BY SMT, <1>29, <1>39
    <2>2. Len(lengths) = 0
      BY SMT, <1>31, <1>39
    <2>8. Len(tlv) = 3 /\ DOMAIN tlv = 1..3
      BY <1>34, <2>1, <2>2
    <2>9. 1 \in 1..Len(ids) /\ 2 \in 1..Len(ids)
      BY <2>1, <2>2
    <2>10. tlv[1 + 1] = ids[1] /\ tlv[1 + 2] = ids[2]
      BY <1>6, <2>9, Zenon
    <2>11. tlv[2] = i1 /\ tlv[3] = i2
      BY <2>1, <2>2, <2>10
    <2>3. \A j \in DOMAIN tlv : tlv[j] \in 0..255
      BY SMT, <1>3, <1>9, <1>16, <1>39, <2>8, <2>11
    <2>4. DeserialiseID(tlv) = id
      BY SMT, <1>7, <1>13, <1>39, <2>11 DEF DeserialiseID
    <2>5. LengthAt(tlv) = 4
      BY SMT, <1>3, <1>7, <1>39 DEF LengthAt
    <2>6. DeserialiseLength(tlv) = length
      BY SMT, <1>8, <1>10, <1>16, <1>20, <1>39, <2>11, <2>5
         DEF DeserialiseLength, LENGTH8, LENGTH16, LENGTH24
    <2>7. ValueOffset(tlv) = Len(tlv)
      BY SMT, <1>3, <1>7, <1>8, <1>39, <2>8 DEF ValueOffset, LENGTH8, LENGTH16, LENGTH24
    <2> QED
      BY <1>9, <2>3, <2>4, <2>6, <2>7 DEF tlv, code
  <1>40. CASE id > 255 /\ length > 7 /\ length < 256
    <2>1. Len(ids) = 2 /\ ids[1] = i1 /\ ids[2] = i2
      BY SMT, <1>29, <1>40
    <2>2. Len(lengths) = 1 /\ lengths[1] = length
      BY SMT, <1>31, <1>40
    <2>8. Len(tlv) = 4 /\ DOMAIN tlv = 1..4
      BY <1>34, <2>1, <2>2
    <2>9. 1 \in 1..Len(ids) /\ 2 \in 1..Len(ids) /\ 1 \in 1..Len(lengths)
      BY <2>1, <2>2
    <2>10. tlv[1 + 1] = ids[1] /\ tlv[1 + 2] = ids[2] /\ tlv[1 + Len(ids) + 1] = lengths[1]
      BY <1>6, <2>9, Zenon
    <2>11. tlv[2] = i1 /\ tlv[3] = i2 /\ tlv[4] = length
      BY <2>1, <2>2, <2>10
    <2>3. \A j \in DOMAIN tlv : tlv[j] \in 0..255
      BY SMT, <1>3, <1>9, <1>16, <1>40, <2>8, <2>11
    <2>4. DeserialiseID(tlv) = id
      BY SMT, <1>7, <1>13, <1>40, <2>11 DEF DeserialiseID
    <2>5. LengthAt(tlv) = 4
      BY SMT, <1>3, <1>7, <1>40 DEF LengthAt
    <2>6. DeserialiseLength(tlv) = length
      BY SMT, <1>8, <1>10, <1>16, <1>20, <1>40, <2>11, <2>5
         DEF DeserialiseLength, LENGTH8, LENGTH16, LENGTH24
    <2>7. ValueOffset(tlv) = Len(tlv)
      BY SMT, <1>3, <1>7, <1>8, <1>40, <2>8 DEF ValueOffset, LENGTH8, LENGTH16, LENGTH24
    <2> QED
      BY <1>9, <2>3, <2>4, <2>6, <2>7 DEF tlv, code
  <1>41. CASE id > 255 /\ length > 255 /\ length < 65536
    <2>1. Len(ids) = 2 /\ ids[1] = i1 /\ ids[2] = i2
      BY SMT, <1>29, <1>41
    <2>2. Len(lengths) = 2 /\ lengths[1] = l1 /\ lengths[2] = l2
      BY SMT, <1>31, <1>41
    <2>8. Len(tlv) = 5 /\ DOMAIN tlv = 1..5
      BY <1>34, <2>1, <2>2
    <2>9. 1 \in 1..Len(ids) /\ 2 \in 1..Len(ids) /\ 1 \in 1..Len(lengths) /\ 2 \in 1..Len(lengths)
      BY <2>1, <2>2
    <2>10. tlv[1 + 1] = ids[1] /\ tlv[1 + 2] = ids[2] /\ tlv[1 + Len(ids) + 1] = lengths[1] /\ tlv[1 + Len(ids) + 2] = lengths[2]
      BY <1>6, <2>9, Zenon
    <2>11. tlv[2] = i1 /\ tlv[3] = i2 /\ tlv[4] = l1 /\ tlv[5] = l2
      BY <2>1, <2>2, <2>10
    <2>3. \A j \in DOMAIN tlv : tlv[j] \in 0..255
      BY SMT, <1>3, <1>9, <1>16, <1>41, <2>8, <2>11
    <2>4. DeserialiseID(tlv) = id
      BY SMT, <1>7, <1>13, <1>41, <2>11 DEF DeserialiseID
    <2>5. LengthAt(tlv) = 4
      BY SMT, <1>3, <1>7, <1>41 DEF LengthAt
    <2>6. DeserialiseLength(tlv) = length
      BY SMT, <1>8, <1>10, <1>16, <1>20, <1>41, <2>11, <2>5
         DEF DeserialiseLength, LENGTH8, LENGTH16, LENGTH24
    <2>7. ValueOffset(tlv) = Len(tlv)
      BY SMT, <1>3, <1>7, <1>8, <1>41, <2>8 DEF ValueOffset, LENGTH8, LENGTH16, LENGTH24
    <2> QED
      BY <1>9, <2>3, <2>4, <2>6, <2>7 DEF tlv, code
  <1>42. CASE id > 255 /\ length > 65535
    <2>1. Len(ids) = 2 /\ ids[1] = i1 /\ ids[2] = i2
      BY SMT, <1>29, <1>42
    <2>2. Len(lengths) = 3 /\ lengths[1] = m1 /\ lengths[2] = m2 /\ lengths[3] = l2
      BY SMT, <1>31, <1>42
    <2>8. Len(tlv) = 6 /\ DOMAIN tlv = 1..6
      BY <1>34, <2>1, <2>2
    <2>9. 1 \in 1..Len(ids) /\ 2 \in 1..Len(ids) /\ 1 \in 1..Len(lengths) /\ 2 \in 1..Len(lengths) /\ 3 \in 1..Len(lengths)
      BY <2>1, <2>2
    <2>10. tlv[1 + 1] = ids[1] /\ tlv[1 + 2] = ids[2] /\ tlv[1 + Len(ids) + 1] = lengths[1] /\ tlv[1 + Len(ids) + 2] = lengths[2] /\ tlv[1 + Len(ids) + 3] = lengths[3]
      BY <1>6, <2>9, Zenon
    <2>11. tlv[2] = i1 /\ tlv[3] = i2 /\ tlv[4] = m1 /\ tlv[5] = m2 /\ tlv[6] = l2
      BY <2>1, <2>2, <2>10
    <2>3. \A j \in DOMAIN tlv : tlv[j] \in 0..255
      BY SMT, <1>3, <1>9, <1>16, <1>42, <2>8, <2>11
    <2>4. DeserialiseID(tlv) = id
      BY SMT, <1>7, <1>13, <1>42, <2>11 DEF DeserialiseID
    <2>5. LengthAt(tlv) = 4
      BY SMT, <1>3, <1>7, <1>42 DEF LengthAt
    <2>6. DeserialiseLength(tlv) = length
      BY SMT, <1>8, <1>10, <1>16, <1>20, <1>42, <2>11, <2>5
         DEF DeserialiseLength, LENGTH8, LENGTH16, LENGTH24
    <2>7. ValueOffset(tlv) = Len(tlv)
      BY SMT, <1>3, <1>7, <1>8, <1>42, <2>8 DEF ValueOffset, LENGTH8, LENGTH16, LENGTH24
    <2> QED
      BY <1>9, <2>3, <2>4, <2>6, <2>7 DEF tlv, code
  <1> QED
    BY SMT, <1>3, <1>35, <1>36, <1>37, <1>38, <1>39, <1>40, <1>41, <1>42

-----------------------------------------------------------------------------
(* What a payload can make of the contents.                                *)

Slots ==
    {<<i>> : i \in Identifiers \cup {NoId}} \cup {<<i, k>> : i \in Identifiers, k \in Identifiers}
Leaves == [type : Types, operation : SUBSET AllOperations, multiple : BOOLEAN, value : Values]
Contents == UNION {[D -> Leaves] : D \in SUBSET Slots}

\* A record of the payload carries the value under the last number of the slot.
Sent(tlv, s, value) == \E j \in DOMAIN tlv : tlv[j].id = s[Len(s)] /\ tlv[j].value = value

\* What is there stays, and changes its value only in a pass that updates, to one that
\* was sent; a POST adds single resources and instances of multiple ones, without a value.
Grown(c, d, tlv, operation, update) ==
    /\ DOMAIN c \subseteq DOMAIN d
    /\ \A s \in DOMAIN c :
           /\ d[s].type = c[s].type
           /\ d[s].operation = c[s].operation
           /\ d[s].multiple = c[s].multiple
           /\ d[s].value = c[s].value \/ (update /\ Sent(tlv, s, d[s].value))
    /\ \A s \in DOMAIN d \ DOMAIN c :
           /\ operation = "Post"
           /\ ~d[s].multiple
           /\ d[s].value = NoValue \/ (update /\ Sent(tlv, s, d[s].value))
           /\ Len(s) = 2 => <<s[1]>> \in DOMAIN c /\ c[<<s[1]>>].multiple

Errors == {"None", "NotAllowed", "NotFound", "NotValid"}
Results(c, tlv, operation, update) ==
    {r \in [error : Errors, contents : Contents] : Grown(c, r.contents, tlv, operation, update)}
Readers(c, tlv, operation, update) ==
    [at : Int, result : Results(c, tlv, operation, update)]

LEMMA ContentsIs ==
    ASSUME NEW c
    PROVE  c \in Contents <=> /\ c = [s \in DOMAIN c |-> c[s]]
                              /\ DOMAIN c \subseteq Slots
                              /\ \A s \in DOMAIN c : c[s] \in Leaves
  <1> HIDE DEF Slots, Leaves
  <1>1. ASSUME c \in Contents
        PROVE  /\ c = [s \in DOMAIN c |-> c[s]]
               /\ DOMAIN c \subseteq Slots
               /\ \A s \in DOMAIN c : c[s] \in Leaves
    <2>1. PICK D \in SUBSET Slots : c \in [D -> Leaves]
      BY <1>1 DEF Contents
    <2> QED
      BY <2>1
  <1>2. ASSUME /\ c = [s \in DOMAIN c |-> c[s]]
               /\ DOMAIN c \subseteq Slots
               /\ \A s \in DOMAIN c : c[s] \in Leaves
        PROVE  c \in Contents
    <2>1. c \in [DOMAIN c -> Leaves] /\ DOMAIN c \in SUBSET Slots
      BY <1>2
    <2> QED
      BY <2>1 DEF Contents
  <1> QED
    BY <1>1, <1>2

LEMMA SlotIs ==
    ASSUME NEW i, NEW k
    PROVE  /\ i \in Identifiers \cup {NoId} => <<i>> \in Slots
           /\ i \in Identifiers /\ k \in Identifiers => <<i, k>> \in Slots
           /\ Len(<<i>>) = 1 /\ <<i>>[1] = i
           /\ Len(<<i, k>>) = 2 /\ <<i, k>>[1] = i /\ <<i, k>>[2] = k
  BY DEF Slots

\* A leaf is set, and nothing else.
LEMMA SetLeafIs ==
    ASSUME NEW c \in Contents, NEW slot \in DOMAIN c, NEW value \in Values
    PROVE  LET d == SetLeaf(c, slot, value)
           IN  /\ d \in Contents
               /\ DOMAIN d = DOMAIN c
               /\ \A s \in DOMAIN c :
                      /\ d[s].type = c[s].type
                      /\ d[s].operation = c[s].operation
                      /\ d[s].multiple = c[s].multiple
                      /\ d[s].value = IF s = slot THEN value ELSE c[s].value
  <1> DEFINE d == SetLeaf(c, slot, value)
  <1> HIDE DEF Slots
  <1>1. /\ c = [s \in DOMAIN c |-> c[s]]
        /\ DOMAIN c \subseteq Slots
        /\ \A s \in DOMAIN c : c[s] \in Leaves
    BY ContentsIs
  <1>2. d = [s \in DOMAIN c |-> IF s = slot THEN [c[slot] EXCEPT !.value = value] ELSE c[s]]
    BY DEF SetLeaf
  <1>3. [c[slot] EXCEPT !.value = value] \in Leaves
    BY <1>1 DEF Leaves
  <1>4. /\ [c[slot] EXCEPT !.value = value].type = c[slot].type
        /\ [c[slot] EXCEPT !.value = value].operation = c[slot].operation
        /\ [c[slot] EXCEPT !.value = value].multiple = c[slot].multiple
        /\ [c[slot] EXCEPT !.value = value].value = value
    BY <1>1 DEF Leaves
  <1> HIDE DEF d
  <1>5. DOMAIN d = DOMAIN c /\ d = [s \in DOMAIN d |-> d[s]]
    BY <1>2
  <1>6. \A s \in DOMAIN c : d[s] = IF s = slot THEN [c[slot] EXCEPT !.value = value] ELSE c[s]
    BY <1>2
  <1>7. \A s \in DOMAIN d : d[s] \in Leaves
    BY <1>1, <1>3, <1>5, <1>6
  <1>8. d \in Contents
    BY <1>1, <1>5, <1>7, ContentsIs
  <1>9. \A s \in DOMAIN c :
            /\ d[s].type = c[s].type
            /\ d[s].operation = c[s].operation
            /\ d[s].multiple = c[s].multiple
            /\ d[s].value = IF s = slot THEN value ELSE c[s].value
    BY <1>4, <1>6, Zenon
  <1> QED
    BY <1>5, <1>8, <1>9 DEF d

\* A leaf is added.
LEMMA WithIs ==
    ASSUME NEW c \in Contents, NEW slot \in Slots, NEW leaf \in Leaves
    PROVE  LET d == With(c, slot, leaf)
           IN  /\ d \in Contents
               /\ DOMAIN d = DOMAIN c \cup {slot}
               /\ d[slot] = leaf
               /\ \A s \in DOMAIN c : s # slot => d[s] = c[s]
  <1> DEFINE d == With(c, slot, leaf)
  <1> HIDE DEF Slots, Leaves
  <1>1. /\ DOMAIN c \subseteq Slots
        /\ \A s \in DOMAIN c : c[s] \in Leaves
    BY ContentsIs
  <1>2. d = [s \in DOMAIN c \cup {slot} |-> IF s = slot THEN leaf ELSE c[s]]
    BY DEF With
  <1> HIDE DEF d
  <1>3. /\ DOMAIN d = DOMAIN c \cup {slot}
        /\ d[slot] = leaf
        /\ \A s \in DOMAIN c : s # slot => d[s] = c[s]
        /\ d = [s \in DOMAIN d |-> d[s]]
    BY <1>2
  <1>4. \A s \in DOMAIN d : d[s] \in Leaves
    BY <1>1, <1>3
  <1>5. d \in Contents
    BY <1>1, <1>3, <1>4, ContentsIs
  <1> QED
    BY <1>3, <1>5 DEF d

\* A leaf just made.
LEMMA LeafIs ==
    ASSUME NEW type \in Types, NEW operation \in SUBSET AllOperations, NEW value \in Values
    PROVE  /\ Leaf(type, operation, value) \in Leaves
           /\ Leaf(type, operation, value).type = type
           /\ Leaf(type, operation, value).operation = operation
           /\ Leaf(type, operation, value).value = value
           /\ ~Leaf(type, operation, value).multiple
  BY DEF Leaf, Leaves

LEMMA GrownReflexive ==
    ASSUME NEW c, NEW tlv, NEW operation, NEW update
    PROVE  Grown(c, c, tlv, operation, update)
  BY DEF Grown

LEMMA GrownTransitive ==
    ASSUME NEW c, NEW d, NEW e, NEW tlv, NEW operation, NEW update,
           Grown(c, d, tlv, operation, update), Grown(d, e, tlv, operation, update)
    PROVE  Grown(c, e, tlv, operation, update)
  <1>1. DOMAIN c \subseteq DOMAIN d /\ DOMAIN d \subseteq DOMAIN e
    BY DEF Grown
  <1>2. ASSUME NEW s \in DOMAIN c
        PROVE  /\ e[s].type = c[s].type
               /\ e[s].operation = c[s].operation
               /\ e[s].multiple = c[s].multiple
               /\ e[s].value = c[s].value \/ (update /\ Sent(tlv, s, e[s].value))
    BY <1>1, Zenon DEF Grown
  <1>3. ASSUME NEW s \in DOMAIN e \ DOMAIN c
        PROVE  /\ operation = "Post"
               /\ ~e[s].multiple
               /\ e[s].value = NoValue \/ (update /\ Sent(tlv, s, e[s].value))
               /\ Len(s) = 2 => <<s[1]>> \in DOMAIN c /\ c[<<s[1]>>].multiple
    <2>1. CASE s \in DOMAIN d
      BY <1>3, <2>1, Zenon DEF Grown
    <2>2. CASE s \notin DOMAIN d
      <3>1. /\ operation = "Post"
            /\ ~e[s].multiple
            /\ e[s].value = NoValue \/ (update /\ Sent(tlv, s, e[s].value))
            /\ Len(s) = 2 => <<s[1]>> \in DOMAIN d /\ d[<<s[1]>>].multiple
        BY <1>3, <2>2, Zenon DEF Grown
      <3>2. <<s[1]>> \in DOMAIN d /\ d[<<s[1]>>].multiple =>
                <<s[1]>> \in DOMAIN c /\ c[<<s[1]>>].multiple
        BY Zenon DEF Grown
      <3> QED
        BY <3>1, <3>2
    <2> QED
      BY <2>1, <2>2
  <1> QED
    BY <1>1, <1>2, <1>3 DEF Grown

-----------------------------------------------------------------------------
(* One record.                                                             *)

LEMMA RecordIs ==
    ASSUME NEW tlv \in Seq(Records), NEW n \in 1..Len(tlv)
    PROVE  /\ n \in DOMAIN tlv
           /\ tlv[n].id \in Identifiers
           /\ tlv[n].type \in {"OI", "RI", "M", "R"}
           /\ tlv[n].span \in Nat
           /\ tlv[n].value \in Values
  <1>1. n \in DOMAIN tlv /\ tlv[n] \in Records
    OBVIOUS
  <1> QED
    BY <1>1, TypeCodes DEF Records

\* A record that names what exists, and one that does not.
LEMMA FoundGrows ==
    ASSUME NEW tlv \in Seq(Records), NEW n \in 1..Len(tlv), NEW c \in Contents,
           NEW slot \in DOMAIN c, slot[Len(slot)] = tlv[n].id,
           NEW operation, NEW update \in BOOLEAN
    PROVE  Found(c, slot, tlv[n].value, update) \in Results(c, tlv, operation, update)
  <1> DEFINE value == tlv[n].value
             d == SetLeaf(c, slot, value)
  <1> HIDE DEF Contents
  <1>1. value \in Values /\ n \in DOMAIN tlv
    BY RecordIs
  <1>2. CASE update
    <2>1. Found(c, slot, value, update) = [error |-> "None", contents |-> d]
      BY <1>2 DEF Found, Result
    <2> HIDE DEF d, value
    <2>2. /\ d \in Contents
          /\ DOMAIN d = DOMAIN c
          /\ \A s \in DOMAIN c :
                 /\ d[s].type = c[s].type
                 /\ d[s].operation = c[s].operation
                 /\ d[s].multiple = c[s].multiple
                 /\ d[s].value = IF s = slot THEN value ELSE c[s].value
      BY <1>1, SetLeafIs DEF d
    <2>3. Sent(tlv, slot, value)
      BY <1>1 DEF Sent, value
    <2>4. Grown(c, d, tlv, operation, update)
      BY <1>2, <2>2, <2>3, Zenon DEF Grown
    <2> QED
      BY <2>1, <2>2, <2>4 DEF Results, Errors, value
  <1>3. CASE ~update
    <2>1. /\ Found(c, slot, value, update).error \in Errors
          /\ Found(c, slot, value, update)
                 = [error |-> Found(c, slot, value, update).error, contents |-> c]
      BY <1>3 DEF Found, Result, Errors
    <2>2. Grown(c, c, tlv, operation, update)
      BY GrownReflexive
    <2> QED
      BY <2>1, <2>2 DEF Results
  <1> QED
    BY <1>2, <1>3

LEMMA MissingGrows ==
    ASSUME NEW tlv, NEW c \in Contents, NEW slot \in Slots, slot \notin DOMAIN c,
           Len(slot) = 2 => <<slot[1]>> \in DOMAIN c /\ c[<<slot[1]>>].multiple,
           NEW operation, NEW update
    PROVE  Missing(c, slot, operation) \in Results(c, tlv, operation, update)
  <1> DEFINE leaf == Leaf("INTEGER", AllOperations, NoValue)
             d == With(c, slot, leaf)
  <1> HIDE DEF Contents, Slots
  <1>1. CASE operation = "Post"
    <2>1. Missing(c, slot, operation) = [error |-> "None", contents |-> d]
      BY <1>1 DEF Missing, Result
    <2>2. leaf \in Leaves /\ ~leaf.multiple /\ leaf.value = NoValue
      BY LeafIs DEF Types, Values
    <2> HIDE DEF d, leaf
    <2>3. /\ d \in Contents
          /\ DOMAIN d = DOMAIN c \cup {slot}
          /\ d[slot] = leaf
          /\ \A s \in DOMAIN c : s # slot => d[s] = c[s]
      BY <2>2, WithIs DEF d
    <2>4. \A s \in DOMAIN d \ DOMAIN c : s = slot
      BY <2>3
    <2>5. Grown(c, d, tlv, operation, update)
      BY <1>1, <2>2, <2>3, <2>4, Zenon DEF Grown
    <2> QED
      BY <2>1, <2>3, <2>5 DEF Results, Errors
  <1>2. CASE operation # "Post"
    <2>1. Missing(c, slot, operation) = [error |-> "NotFound", contents |-> c]
      BY <1>2 DEF Missing, Result
    <2>2. Grown(c, c, tlv, operation, update)
      BY GrownReflexive
    <2> QED
      BY <2>1, <2>2 DEF Results, Errors
  <1> QED
    BY <1>1, <1>2

LEMMA NothingGrows ==
    ASSUME NEW tlv, NEW c \in Contents, NEW error \in Errors, NEW operation, NEW update
    PROVE  Result(error, c) \in Results(c, tlv, operation, update)
  BY GrownReflexive DEF Results, Result

\* Where the reading goes on.
LEMMA AfterIs ==
    ASSUME NEW tlv \in Seq(Records), NEW n \in 1..Len(tlv), NEW r
    PROVE  /\ After(tlv, n, r).at \in Int
           /\ After(tlv, n, r).result = r
           /\ After(tlv, n, r) = [at |-> After(tlv, n, r).at, result |-> r]
  <1>1. tlv[n].span \in Nat
    BY RecordIs
  <1> QED
    BY <1>1 DEF After, Reader

LEMMA InvalidIs ==
    ASSUME NEW tlv \in Seq(Records), NEW c
    PROVE  /\ Invalid(tlv, c).at \in Int
           /\ Invalid(tlv, c).result = Result("NotValid", c)
           /\ Invalid(tlv, c) = [at |-> Invalid(tlv, c).at, result |-> Result("NotValid", c)]
  <1>1. Len(tlv) + 1 \in Int
    OBVIOUS
  <1> QED
    BY <1>1 DEF Invalid, Reader

\* A result of contents that grew out of others is a result of those.
LEMMA ResultsTransitive ==
    ASSUME NEW c, NEW d, NEW tlv, NEW operation, NEW update,
           Grown(c, d, tlv, operation, update), NEW r \in Results(d, tlv, operation, update)
    PROVE  r \in Results(c, tlv, operation, update)
  BY GrownTransitive DEF Results

-----------------------------------------------------------------------------
(* deserialize_resource_instances() with an object instance.               *)

LEMMA ReadInstanceIs ==
    ASSUME NEW tlv, NEW n, NEW c, NEW id, NEW operation, NEW update,
           NEW slot, slot = <<id, tlv[n].id>>,
           NEW r, r = ReadInstance(tlv, n, c, id, operation, update)
    PROVE  /\ tlv[n].type \notin {"M", "RI"} => r = Invalid(tlv, c)
           /\ tlv[n].type = "RI" /\ slot \in DOMAIN c =>
                  r = After(tlv, n, Found(c, slot, tlv[n].value, update))
           /\ tlv[n].type = "M" /\ slot \in DOMAIN c /\ operation = "Post" =>
                  r = After(tlv, n, Result("None", c))
           /\ tlv[n].type = "M" /\ slot \in DOMAIN c /\ operation # "Post" =>
                  r = After(tlv, n, Result("NotFound", c))
           /\ tlv[n].type \in {"M", "RI"} /\ slot \notin DOMAIN c =>
                  r = After(tlv, n, Missing(c, slot, operation))
  <1>1. tlv[n].type \notin {"M", "RI"} => r = Invalid(tlv, c)
    BY Zenon DEF ReadInstance
  <1>2. tlv[n].type = "RI" /\ slot \in DOMAIN c =>
            r = After(tlv, n, Found(c, slot, tlv[n].value, update))
    BY Zenon DEF ReadInstance
  <1>3. tlv[n].type = "M" /\ slot \in DOMAIN c /\ operation = "Post" =>
            r = After(tlv, n, Result("None", c))
    BY Zenon DEF ReadInstance
  <1>4. tlv[n].type = "M" /\ slot \in DOMAIN c /\ operation # "Post" =>
            r = After(tlv, n, Missing(c, slot, operation))
    BY Zenon DEF ReadInstance
  <1>5. operation # "Post" => Missing(c, slot, operation) = Result("NotFound", c)
    BY DEF Missing
  <1>6. tlv[n].type \in {"M", "RI"} /\ slot \notin DOMAIN c =>
            r = After(tlv, n, Missing(c, slot, operation))
    BY Zenon DEF ReadInstance
  <1> QED
    BY <1>1, <1>2, <1>3, <1>4, <1>5, <1>6

LEMMA ReadInstanceGrows ==
    ASSUME NEW tlv \in Seq(Records), NEW n \in 1..Len(tlv), NEW c \in Contents,
           NEW id \in Identifiers, <<id>> \in DOMAIN c, c[<<id>>].multiple,
           NEW operation, NEW update \in BOOLEAN
    PROVE  ReadInstance(tlv, n, c, id, operation, update) \in Readers(c, tlv, operation, update)
  <1> DEFINE slot == <<id, tlv[n].id>>
             r == ReadInstance(tlv, n, c, id, operation, update)
             R == Results(c, tlv, operation, update)
  <1> HIDE DEF Contents, Slots
  <1>1. tlv[n].id \in Identifiers
    BY RecordIs
  <1>2. slot \in Slots /\ slot[Len(slot)] = tlv[n].id /\ slot[1] = id
    BY <1>1, SlotIs
  <1>0. /\ slot = <<id, tlv[n].id>>
        /\ r = ReadInstance(tlv, n, c, id, operation, update)
    OBVIOUS
  <1> HIDE DEF slot, r
  <1>3. /\ tlv[n].type \notin {"M", "RI"} => r = Invalid(tlv, c)
        /\ tlv[n].type = "RI" /\ slot \in DOMAIN c =>
               r = After(tlv, n, Found(c, slot, tlv[n].value, update))
        /\ tlv[n].type = "M" /\ slot \in DOMAIN c /\ operation = "Post" =>
               r = After(tlv, n, Result("None", c))
        /\ tlv[n].type = "M" /\ slot \in DOMAIN c /\ operation # "Post" =>
               r = After(tlv, n, Result("NotFound", c))
        /\ tlv[n].type \in {"M", "RI"} /\ slot \notin DOMAIN c =>
               r = After(tlv, n, Missing(c, slot, operation))
    BY <1>0, ReadInstanceIs
  <1>4. \E x \in R : \/ r = Invalid(tlv, c) /\ x = Result("NotValid", c)
                     \/ r = After(tlv, n, x)
    <2>1. CASE tlv[n].type \notin {"M", "RI"}
      <3>1. r = Invalid(tlv, c)
        BY <2>1, <1>3
      <3>2. Result("NotValid", c) \in R
        BY NothingGrows DEF Errors
      <3> QED
        BY <3>1, <3>2
    <2>2. CASE tlv[n].type = "RI" /\ slot \in DOMAIN c
      <3>1. r = After(tlv, n, Found(c, slot, tlv[n].value, update))
        BY <2>2, <1>3
      <3>2. Found(c, slot, tlv[n].value, update) \in R
        BY <1>2, <2>2, FoundGrows
      <3> QED
        BY <3>1, <3>2
    <2>3. CASE tlv[n].type = "M" /\ slot \in DOMAIN c /\ operation = "Post"
      <3>1. r = After(tlv, n, Result("None", c))
        BY <2>3, <1>3
      <3>2. Result("None", c) \in R
        BY NothingGrows DEF Errors
      <3> QED
        BY <3>1, <3>2
    <2>4. CASE tlv[n].type = "M" /\ slot \in DOMAIN c /\ operation # "Post"
      <3>1. r = After(tlv, n, Result("NotFound", c))
        BY <2>4, <1>3
      <3>2. Result("NotFound", c) \in R
        BY NothingGrows DEF Errors
      <3> QED
        BY <3>1, <3>2
    <2>5. CASE tlv[n].type \in {"M", "RI"} /\ slot \notin DOMAIN c
      <3>1. r = After(tlv, n, Missing(c, slot, operation))
        BY <2>5, <1>3
      <3>2. Missing(c, slot, operation) \in R
        BY <1>2, <2>5, MissingGrows
      <3> QED
        BY <3>1, <3>2
    <2> QED
      BY <2>1, <2>2, <2>3, <2>4, <2>5
  <1>5. PICK x \in R : \/ r = Invalid(tlv, c) /\ x = Result("NotValid", c)
                       \/ r = After(tlv, n, x)
    BY <1>4
  <1>6. \E at \in Int : r = [at |-> at, result |-> x]
    <2> HIDE DEF R
    <2> QED
      BY <1>5, AfterIs, InvalidIs
  <1> HIDE DEF R
  <1>7. r \in [at : Int, result : R]
    BY <1>5, <1>6
  <1> QED
    BY <1>7 DEF r, R, Readers

\* f is the reader before each record from position at on, and after the last.
InstancesRun(f, tlv, at, c, id, operation, update) ==
    /\ f \in [(at - 1)..Len(tlv) -> Readers(c, tlv, operation, update)]
    /\ f[at - 1] = Reader(at, Result("None", c))
    /\ \A n \in at..Len(tlv) :
           f[n] = IF f[n - 1].at = n
                  THEN ReadInstance(tlv, n, f[n - 1].result.contents, id, operation, update)
                  ELSE f[n - 1]
    /\ DeserializeInstances(tlv, at, c, id, operation, update) = f[Len(tlv)].result

LEMMA DeserializeInstancesRuns ==
    ASSUME NEW tlv \in Seq(Records), NEW at \in 1..(Len(tlv) + 1), NEW c \in Contents,
           NEW id \in Identifiers, <<id>> \in DOMAIN c, c[<<id>>].multiple,
           NEW operation, NEW update \in BOOLEAN
    PROVE  \E f : InstancesRun(f, tlv, at, c, id, operation, update)
  <1> DEFINE low == at - 1
             high == Len(tlv)
             X == Readers(c, tlv, operation, update)
             start == Reader(at, Result("None", c))
             Then(n, x) == IF x.at = n THEN ReadInstance(tlv, n, x.result.contents, id, operation, update)
                           ELSE x
             Goes(f) == f = [n \in low..high |-> IF n = low THEN start ELSE Then(n, f[n - 1])]
             step == [p \in ((low + 1)..high) \X X |-> Then(p[1], p[2])]
             g == CHOOSE f : Goes(f)
  <1> HIDE DEF Contents
  <1>1. low \in Int /\ high \in Int /\ low <= high /\ low + 1 = at /\ at \in Int
    OBVIOUS
  <1>2. start \in X
    BY <1>1, NothingGrows DEF Readers, Reader, Errors
  <1>3. ASSUME NEW n \in (low + 1)..high, NEW x \in X
        PROVE  Then(n, x) \in X
    <2> DEFINE d == x.result.contents
    <2>1. n \in 1..Len(tlv)
      BY <1>1
    <2>2. d \in Contents /\ Grown(c, d, tlv, operation, update)
      BY DEF Readers, Results
    <2>3. <<id>> \in DOMAIN d /\ d[<<id>>].multiple
      BY <2>2 DEF Grown
    <2> HIDE DEF d
    <2>4. ReadInstance(tlv, n, d, id, operation, update) \in Readers(d, tlv, operation, update)
      BY <2>1, <2>2, <2>3, ReadInstanceGrows
    <2>5. ReadInstance(tlv, n, d, id, operation, update) \in X
      BY <2>2, <2>4, ResultsTransitive DEF Readers
    <2> QED
      BY <2>5 DEF d
  <1> HIDE DEF X, start, Then, low, high
  <1>4. \A n \in (low + 1)..high : \A x \in X : step[<<n, x>>] = Then(n, x)
    OBVIOUS
  <1> HIDE DEF step
  <1>5. \A n \in (low + 1)..high : \A x \in X : step[<<n, x>>] \in X
    BY <1>3, <1>4
  <1>0. Recursion(low, high, X, start, step)
    BY <1>1, <1>2, <1>5, RecursionExists
  <1>6. PICK f \in [low..high -> X] :
            \A n \in low..high : f[n] = IF n = low THEN start ELSE step[<<n, f[n - 1]>>]
    BY <1>0 DEF Recursion
  <1>7. \A n \in low..high : f[n] = IF n = low THEN start ELSE Then(n, f[n - 1])
    <2> SUFFICES ASSUME NEW n \in low..high, n # low
                 PROVE  step[<<n, f[n - 1]>>] = Then(n, f[n - 1])
      BY <1>6
    <2>1. n \in (low + 1)..high /\ n - 1 \in low..high
      BY <1>1
    <2> QED
      BY <1>4, <1>6, <2>1
  <1>8. Goes(f)
    BY <1>6, <1>7
  <1>9. Goes(g)
    BY <1>8
  <1>10. DeserializeInstances(tlv, at, c, id, operation, update) = g[high].result
    BY Zenon DEF DeserializeInstances, ReadAll, Then, start, low, high
  <1> HIDE DEF g
  <1>11. \A n \in low..high : g[n] = IF n = low THEN start ELSE Then(n, g[n - 1])
    BY <1>9
  <1> DEFINE S == {n \in low..high : g[n] \in X}
  <1>12. low \in S
    BY <1>1, <1>2, <1>11
  <1>13. \A n \in (low + 1)..high : n - 1 \in S => n \in S
    BY <1>1, <1>3, <1>11
  <1> HIDE DEF S
  <1>14. \A n \in low..high : n \in S
    BY <1>1, <1>12, <1>13, RangeInduction
  <1>15. g \in [low..high -> X]
    BY <1>9, <1>14 DEF S
  <1>16. g[low] = start /\ \A n \in at..high : g[n] = Then(n, g[n - 1])
    BY <1>1, <1>11
  <1> HIDE DEF Goes
  <1>17. \E h \in [low..high -> X] :
             /\ h[low] = start
             /\ \A n \in at..high : h[n] = Then(n, h[n - 1])
             /\ DeserializeInstances(tlv, at, c, id, operation, update) = h[high].result
    BY <1>10, <1>15, <1>16
  <1> QED
    BY <1>17, Zenon DEF X, start, Then, low, high, InstancesRun

LEMMA DeserializeInstancesGrows ==
    ASSUME NEW tlv \in Seq(Records), NEW at \in 1..(Len(tlv) + 1), NEW c \in Contents,
           NEW id \in Identifiers, <<id>> \in DOMAIN c, c[<<id>>].multiple,
           NEW operation, NEW update \in BOOLEAN
    PROVE  DeserializeInstances(tlv, at, c, id, operation, update) \in Results(c, tlv, operation, update)
  <1>1. PICK f : InstancesRun(f, tlv, at, c, id, operation, update)
    BY DeserializeInstancesRuns
  <1>2. f[Len(tlv)] \in Readers(c, tlv, operation, update)
    BY <1>1 DEF InstancesRun
  <1> QED
    BY <1>1, <1>2 DEF Readers, InstancesRun

-----------------------------------------------------------------------------
(* deserialize_resources() at an offset.                                   *)

LEMMA ReadResourceIs ==
    ASSUME NEW tlv, NEW n, NEW c, NEW operation, NEW update,
           NEW slot, slot = <<tlv[n].id>>,
           NEW r, r = ReadResource(tlv, n, c, operation, update)
    PROVE  /\ tlv[n].type = "OI" =>
                  r = Invalid(tlv, c)
           /\ tlv[n].type = "M" /\ slot \in DOMAIN c /\ c[slot].multiple =>
                  r = After(tlv, n, DeserializeInstances(tlv, n + 1, c, tlv[n].id, operation, update))
           /\ tlv[n].type = "M" /\ ~(slot \in DOMAIN c /\ c[slot].multiple) =>
                  r = After(tlv, n, Result("None", c))
           /\ tlv[n].type \in {"R", "RI"} /\ slot \in DOMAIN c =>
                  r = After(tlv, n, Found(c, slot, tlv[n].value, update))
           /\ tlv[n].type \in {"R", "RI"} /\ slot \notin DOMAIN c =>
                  r = After(tlv, n, Missing(c, slot, operation))
  <1>1. tlv[n].type = "OI" =>
            r = Invalid(tlv, c)
    BY Zenon DEF ReadResource
  <1>2. tlv[n].type = "M" /\ slot \in DOMAIN c /\ c[slot].multiple =>
            r = After(tlv, n, DeserializeInstances(tlv, n + 1, c, tlv[n].id, operation, update))
    BY Zenon DEF ReadResource
  <1>3. tlv[n].type = "M" /\ ~(slot \in DOMAIN c /\ c[slot].multiple) =>
            r = After(tlv, n, Result("None", c))
    BY Zenon DEF ReadResource
  <1>4. tlv[n].type \in {"R", "RI"} /\ slot \in DOMAIN c =>
            r = After(tlv, n, Found(c, slot, tlv[n].value, update))
    BY Zenon DEF ReadResource
  <1>5. tlv[n].type \in {"R", "RI"} /\ slot \notin DOMAIN c =>
            r = After(tlv, n, Missing(c, slot, operation))
    BY Zenon DEF ReadResource
  <1> QED
    BY <1>1, <1>2, <1>3, <1>4, <1>5

LEMMA ReadResourceGrows ==
    ASSUME NEW tlv \in Seq(Records), NEW n \in 1..Len(tlv), NEW c \in Contents,
           NEW operation, NEW update \in BOOLEAN
    PROVE  ReadResource(tlv, n, c, operation, update) \in Readers(c, tlv, operation, update)
  <1> DEFINE slot == <<tlv[n].id>>
             r == ReadResource(tlv, n, c, operation, update)
             R == Results(c, tlv, operation, update)
  <1> HIDE DEF Contents, Slots
  <1>1. tlv[n].id \in Identifiers /\ tlv[n].type \in {"OI", "RI", "M", "R"} /\ n + 1 \in 1..(Len(tlv) + 1)
    BY RecordIs
  <1>2. slot \in Slots /\ slot[Len(slot)] = tlv[n].id /\ Len(slot) # 2
    <2>1. Len(slot) = 1 /\ slot[1] = tlv[n].id
      OBVIOUS
    <2>2. slot \in Slots
      BY <1>1, SlotIs
    <2> QED
      BY <2>1, <2>2
  <1>3. /\ slot = <<tlv[n].id>>
        /\ r = ReadResource(tlv, n, c, operation, update)
    OBVIOUS
  <1> HIDE DEF slot, r
  <1>4. /\ tlv[n].type = "OI" =>
               r = Invalid(tlv, c)
        /\ tlv[n].type = "M" /\ slot \in DOMAIN c /\ c[slot].multiple =>
               r = After(tlv, n, DeserializeInstances(tlv, n + 1, c, tlv[n].id, operation, update))
        /\ tlv[n].type = "M" /\ ~(slot \in DOMAIN c /\ c[slot].multiple) =>
               r = After(tlv, n, Result("None", c))
        /\ tlv[n].type \in {"R", "RI"} /\ slot \in DOMAIN c =>
               r = After(tlv, n, Found(c, slot, tlv[n].value, update))
        /\ tlv[n].type \in {"R", "RI"} /\ slot \notin DOMAIN c =>
               r = After(tlv, n, Missing(c, slot, operation))
    BY <1>3, ReadResourceIs
  <1>5. \E x \in R : \/ r = Invalid(tlv, c) /\ x = Result("NotValid", c)
                     \/ r = Reader(Len(tlv) + 1, x)
                     \/ r = After(tlv, n, x)
    <2>1. CASE tlv[n].type = "OI"
      <3>1. r = Invalid(tlv, c)
        BY <2>1, <1>4
      <3>2. Result("NotValid", c) \in R
        BY NothingGrows DEF Errors
      <3> QED
        BY <3>1, <3>2
    <2>2. CASE tlv[n].type = "M" /\ slot \in DOMAIN c /\ c[slot].multiple
      <3>1. r = After(tlv, n, DeserializeInstances(tlv, n + 1, c, tlv[n].id, operation, update))
        BY <2>2, <1>4
      <3>2. DeserializeInstances(tlv, n + 1, c, tlv[n].id, operation, update) \in R
        BY <1>1, <1>3, <2>2, DeserializeInstancesGrows
      <3> QED
        BY <3>1, <3>2
    <2>3. CASE tlv[n].type = "M" /\ ~(slot \in DOMAIN c /\ c[slot].multiple)
      <3>1. r = After(tlv, n, Result("None", c))
        BY <2>3, <1>4
      <3>2. Result("None", c) \in R
        BY NothingGrows DEF Errors
      <3> QED
        BY <3>1, <3>2
    <2>4. CASE tlv[n].type \in {"R", "RI"} /\ slot \in DOMAIN c
      <3>1. r = After(tlv, n, Found(c, slot, tlv[n].value, update))
        BY <2>4, <1>4
      <3>2. Found(c, slot, tlv[n].value, update) \in R
        BY <1>2, <2>4, FoundGrows
      <3> QED
        BY <3>1, <3>2
    <2>5. CASE tlv[n].type \in {"R", "RI"} /\ slot \notin DOMAIN c
      <3>1. r = After(tlv, n, Missing(c, slot, operation))
        BY <2>5, <1>4
      <3>2. Missing(c, slot, operation) \in R
        BY <1>2, <2>5, MissingGrows
      <3> QED
        BY <3>1, <3>2
    <2> QED
      BY <1>1, <2>1, <2>2, <2>3, <2>4, <2>5
  <1>6. PICK x \in R : \/ r = Invalid(tlv, c) /\ x = Result("NotValid", c)
                       \/ r = Reader(Len(tlv) + 1, x)
                       \/ r = After(tlv, n, x)
    BY <1>5
  <1>7. \E at \in Int : r = [at |-> at, result |-> x]
    <2> HIDE DEF R
    <2>1. Len(tlv) + 1 \in Int
      OBVIOUS
    <2> QED
      BY <1>6, <2>1, AfterIs, InvalidIs DEF Reader
  <1> HIDE DEF R
  <1>8. r \in [at : Int, result : R]
    BY <1>6, <1>7
  <1> QED
    BY <1>8 DEF r, R, Readers

\* f is the reader before each record from position at on, and after the last.
AtRun(f, tlv, at, c, operation, update) ==
    /\ f \in [(at - 1)..Len(tlv) -> Readers(c, tlv, operation, update)]
    /\ f[at - 1] = Reader(at, Result("None", c))
    /\ \A n \in at..Len(tlv) :
           f[n] = IF f[n - 1].at = n
                  THEN ReadResource(tlv, n, f[n - 1].result.contents, operation, update)
                  ELSE f[n - 1]
    /\ DeserializeAt(tlv, at, c, operation, update) = f[Len(tlv)].result

LEMMA DeserializeAtRuns ==
    ASSUME NEW tlv \in Seq(Records), NEW at \in 1..(Len(tlv) + 1), NEW c \in Contents,
           NEW operation, NEW update \in BOOLEAN
    PROVE  \E f : AtRun(f, tlv, at, c, operation, update)
  <1> DEFINE low == at - 1
             high == Len(tlv)
             X == Readers(c, tlv, operation, update)
             start == Reader(at, Result("None", c))
             Then(n, x) == IF x.at = n THEN ReadResource(tlv, n, x.result.contents, operation, update)
                           ELSE x
             Goes(f) == f = [n \in low..high |-> IF n = low THEN start ELSE Then(n, f[n - 1])]
             step == [p \in ((low + 1)..high) \X X |-> Then(p[1], p[2])]
             g == CHOOSE f : Goes(f)
  <1> HIDE DEF Contents
  <1>1. low \in Int /\ high \in Int /\ low <= high /\ low + 1 = at /\ at \in Int
    OBVIOUS
  <1>2. start \in X
    BY <1>1, NothingGrows DEF Readers, Reader, Errors
  <1>3. ASSUME NEW n \in (low + 1)..high, NEW x \in X
        PROVE  Then(n, x) \in X
    <2> DEFINE d == x.result.contents
    <2>1. n \in 1..Len(tlv)
      BY <1>1
    <2>2. d \in Contents /\ Grown(c, d, tlv, operation, update)
      BY DEF Readers, Results
    <2> HIDE DEF d
    <2>3. ReadResource(tlv, n, d, operation, update) \in Readers(d, tlv, operation, update)
      BY <2>1, <2>2, ReadResourceGrows
    <2>4. ReadResource(tlv, n, d, operation, update) \in X
      BY <2>2, <2>3, ResultsTransitive DEF Readers
    <2> QED
      BY <2>4 DEF d
  <1> HIDE DEF X, start, Then, low, high
  <1>4. \A n \in (low + 1)..high : \A x \in X : step[<<n, x>>] = Then(n, x)
    OBVIOUS
  <1> HIDE DEF step
  <1>5. \A n \in (low + 1)..high : \A x \in X : step[<<n, x>>] \in X
    BY <1>3, <1>4
  <1>0. Recursion(low, high, X, start, step)
    BY <1>1, <1>2, <1>5, RecursionExists
  <1>6. PICK f \in [low..high -> X] :
            \A n \in low..high : f[n] = IF n = low THEN start ELSE step[<<n, f[n - 1]>>]
    BY <1>0 DEF Recursion
  <1>7. \A n \in low..high : f[n] = IF n = low THEN start ELSE Then(n, f[n - 1])
    <2> SUFFICES ASSUME NEW n \in low..high, n # low
                 PROVE  step[<<n, f[n - 1]>>] = Then(n, f[n - 1])
      BY <1>6
    <2>1. n \in (low + 1)..high /\ n - 1 \in low..high
      BY <1>1
    <2> QED
      BY <1>4, <1>6, <2>1
  <1>8. Goes(f)
    BY <1>6, <1>7
  <1>9. Goes(g)
    BY <1>8
  <1>10. DeserializeAt(tlv, at, c, operation, update) = g[high].result
    BY Zenon DEF DeserializeAt, ReadAll, Then, start, low, high
  <1> HIDE DEF g
  <1>11. \A n \in low..high : g[n] = IF n = low THEN start ELSE Then(n, g[n - 1])
    BY <1>9
  <1> DEFINE S == {n \in low..high : g[n] \in X}
  <1>12. low \in S
    BY <1>1, <1>2, <1>11
  <1>13. \A n \in (low + 1)..high : n - 1 \in S => n \in S
    BY <1>1, <1>3, <1>11
  <1> HIDE DEF S
  <1>14. \A n \in low..high : n \in S
    BY <1>1, <1>12, <1>13, RangeInduction
  <1>15. g \in [low..high -> X]
    BY <1>9, <1>14 DEF S
  <1>16. g[low] = start /\ \A n \in at..high : g[n] = Then(n, g[n - 1])
    BY <1>1, <1>11
  <1> HIDE DEF Goes
  <1>17. \E h \in [low..high -> X] :
             /\ h[low] = start
             /\ \A n \in at..high : h[n] = Then(n, h[n - 1])
             /\ DeserializeAt(tlv, at, c, operation, update) = h[high].result
    BY <1>10, <1>15, <1>16
  <1> QED
    BY <1>17, Zenon DEF X, start, Then, low, high, AtRun

LEMMA DeserializeAtGrows ==
    ASSUME NEW tlv \in Seq(Records), NEW at \in 1..(Len(tlv) + 1), NEW c \in Contents,
           NEW operation, NEW update \in BOOLEAN
    PROVE  DeserializeAt(tlv, at, c, operation, update) \in Results(c, tlv, operation, update)
  <1>1. PICK f : AtRun(f, tlv, at, c, operation, update)
    BY DeserializeAtRuns
  <1>2. f[Len(tlv)] \in Readers(c, tlv, operation, update)
    BY <1>1 DEF AtRun
  <1> QED
    BY <1>1, <1>2 DEF Readers, AtRun

-----------------------------------------------------------------------------
(* The instances of an object.                                             *)

LEMMA ReadObjectIs ==
    ASSUME NEW tlv, NEW n, NEW c, NEW operation, NEW update,
           NEW r, r = ReadObject(tlv, n, c, operation, update)
    PROVE  /\ tlv[n].type # "OI" =>
                  r = Reader(Len(tlv) + 1, Result("None", c))
           /\ tlv[n].type = "OI" /\ tlv[n].id = 0 =>
                  r = After(tlv, n, DeserializeAt(tlv, n + 1, c, operation, update))
           /\ tlv[n].type = "OI" /\ tlv[n].id # 0 =>
                  r = After(tlv, n, Result("None", c))
  <1>1. tlv[n].type # "OI" =>
            r = Reader(Len(tlv) + 1, Result("None", c))
    BY Zenon DEF ReadObject
  <1>2. tlv[n].type = "OI" /\ tlv[n].id = 0 =>
            r = After(tlv, n, DeserializeAt(tlv, n + 1, c, operation, update))
    BY Zenon DEF ReadObject
  <1>3. tlv[n].type = "OI" /\ tlv[n].id # 0 =>
            r = After(tlv, n, Result("None", c))
    BY Zenon DEF ReadObject
  <1> QED
    BY <1>1, <1>2, <1>3

LEMMA ReadObjectGrows ==
    ASSUME NEW tlv \in Seq(Records), NEW n \in 1..Len(tlv), NEW c \in Contents,
           NEW operation, NEW update \in BOOLEAN
    PROVE  ReadObject(tlv, n, c, operation, update) \in Readers(c, tlv, operation, update)
  <1> DEFINE r == ReadObject(tlv, n, c, operation, update)
             R == Results(c, tlv, operation, update)
  <1> HIDE DEF Contents
  <1>1. tlv[n].id \in Identifiers /\ tlv[n].type \in {"OI", "RI", "M", "R"} /\ n + 1 \in 1..(Len(tlv) + 1)
    BY RecordIs
  <1>3. r = ReadObject(tlv, n, c, operation, update)
    OBVIOUS
  <1> HIDE DEF r
  <1>4. /\ tlv[n].type # "OI" =>
               r = Reader(Len(tlv) + 1, Result("None", c))
        /\ tlv[n].type = "OI" /\ tlv[n].id = 0 =>
               r = After(tlv, n, DeserializeAt(tlv, n + 1, c, operation, update))
        /\ tlv[n].type = "OI" /\ tlv[n].id # 0 =>
               r = After(tlv, n, Result("None", c))
    BY <1>3, ReadObjectIs
  <1>5. \E x \in R : \/ r = Invalid(tlv, c) /\ x = Result("NotValid", c)
                     \/ r = Reader(Len(tlv) + 1, x)
                     \/ r = After(tlv, n, x)
    <2>1. CASE tlv[n].type # "OI"
      <3>1. r = Reader(Len(tlv) + 1, Result("None", c))
        BY <2>1, <1>4
      <3>2. Result("None", c) \in R
        BY NothingGrows DEF Errors
      <3> QED
        BY <3>1, <3>2
    <2>2. CASE tlv[n].type = "OI" /\ tlv[n].id = 0
      <3>1. r = After(tlv, n, DeserializeAt(tlv, n + 1, c, operation, update))
        BY <2>2, <1>4
      <3>2. DeserializeAt(tlv, n + 1, c, operation, update) \in R
        BY <1>1, DeserializeAtGrows
      <3> QED
        BY <3>1, <3>2
    <2>3. CASE tlv[n].type = "OI" /\ tlv[n].id # 0
      <3>1. r = After(tlv, n, Result("None", c))
        BY <2>3, <1>4
      <3>2. Result("None", c) \in R
        BY NothingGrows DEF Errors
      <3> QED
        BY <3>1, <3>2
    <2> QED
      BY <1>1, <2>1, <2>2, <2>3
  <1>6. PICK x \in R : \/ r = Invalid(tlv, c) /\ x = Result("NotValid", c)
                       \/ r = Reader(Len(tlv) + 1, x)
                       \/ r = After(tlv, n, x)
    BY <1>5
  <1>7. \E at \in Int : r = [at |-> at, result |-> x]
    <2> HIDE DEF R
    <2>1. Len(tlv) + 1 \in Int
      OBVIOUS
    <2> QED
      BY <1>6, <2>1, AfterIs, InvalidIs DEF Reader
  <1> HIDE DEF R
  <1>8. r \in [at : Int, result : R]
    BY <1>6, <1>7
  <1> QED
    BY <1>8 DEF r, R, Readers

\* f is the reader before each record from position at on, and after the last.
ObjectAtRun(f, tlv, at, c, operation, update) ==
    /\ f \in [(at - 1)..Len(tlv) -> Readers(c, tlv, operation, update)]
    /\ f[at - 1] = Reader(at, Result("None", c))
    /\ \A n \in at..Len(tlv) :
           f[n] = IF f[n - 1].at = n
                  THEN ReadObject(tlv, n, f[n - 1].result.contents, operation, update)
                  ELSE f[n - 1]
    /\ DeserializeObjectAt(tlv, at, c, operation, update) = f[Len(tlv)].result

LEMMA DeserializeObjectAtRuns ==
    ASSUME NEW tlv \in Seq(Records), NEW at \in 1..(Len(tlv) + 1), NEW c \in Contents,
           NEW operation, NEW update \in BOOLEAN
    PROVE  \E f : ObjectAtRun(f, tlv, at, c, operation, update)
  <1> DEFINE low == at - 1
             high == Len(tlv)
             X == Readers(c, tlv, operation, update)
             start == Reader(at, Result("None", c))
             Then(n, x) == IF x.at = n THEN ReadObject(tlv, n, x.result.contents, operation, update)
                           ELSE x
             Goes(f) == f = [n \in low..high |-> IF n = low THEN start ELSE Then(n, f[n - 1])]
             step == [p \in ((low + 1)..high) \X X |-> Then(p[1], p[2])]
             g == CHOOSE f : Goes(f)
  <1> HIDE DEF Contents
  <1>1. low \in Int /\ high \in Int /\ low <= high /\ low + 1 = at /\ at \in Int
    OBVIOUS
  <1>2. start \in X
    BY <1>1, NothingGrows DEF Readers, Reader, Errors
  <1>3. ASSUME NEW n \in (low + 1)..high, NEW x \in X
        PROVE  Then(n, x) \in X
    <2> DEFINE d == x.result.contents
    <2>1. n \in 1..Len(tlv)
      BY <1>1
    <2>2. d \in Contents /\ Grown(c, d, tlv, operation, update)
      BY DEF Readers, Results
    <2> HIDE DEF d
    <2>3. ReadObject(tlv, n, d, operation, update) \in Readers(d, tlv, operation, update)
      BY <2>1, <2>2, ReadObjectGrows
    <2>4. ReadObject(tlv, n, d, operation, update) \in X
      BY <2>2, <2>3, ResultsTransitive DEF Readers
    <2> QED
      BY <2>4 DEF d
  <1> HIDE DEF X, start, Then, low, high
  <1>4. \A n \in (low + 1)..high : \A x \in X : step[<<n, x>>] = Then(n, x)
    OBVIOUS
  <1> HIDE DEF step
  <1>5. \A n \in (low + 1)..high : \A x \in X : step[<<n, x>>] \in X
    BY <1>3, <1>4
  <1>0. Recursion(low, high, X, start, step)
    BY <1>1, <1>2, <1>5, RecursionExists
  <1>6. PICK f \in [low..high -> X] :
            \A n \in low..high : f[n] = IF n = low THEN start ELSE step[<<n, f[n - 1]>>]
    BY <1>0 DEF Recursion
  <1>7. \A n \in low..high : f[n] = IF n = low THEN start ELSE Then(n, f[n - 1])
    <2> SUFFICES ASSUME NEW n \in low..high, n # low
                 PROVE  step[<<n, f[n - 1]>>] = Then(n, f[n - 1])
      BY <1>6
    <2>1. n \in (low + 1)..high /\ n - 1 \in low..high
      BY <1>1
    <2> QED
      BY <1>4, <1>6, <2>1
  <1>8. Goes(f)
    BY <1>6, <1>7
  <1>9. Goes(g)
    BY <1>8
  <1>10. DeserializeObjectAt(tlv, at, c, operation, update) = g[high].result
    BY Zenon DEF DeserializeObjectAt, ReadAll, Then, start, low, high
  <1> HIDE DEF g
  <1>11. \A n \in low..high : g[n] = IF n = low THEN start ELSE Then(n, g[n - 1])
    BY <1>9
  <1> DEFINE S == {n \in low..high : g[n] \in X}
  <1>12. low \in S
    BY <1>1, <1>2, <1>11
  <1>13. \A n \in (low + 1)..high : n - 1 \in S => n \in S
    BY <1>1, <1>3, <1>11
  <1> HIDE DEF S
  <1>14. \A n \in low..high : n \in S
    BY <1>1, <1>12, <1>13, RangeInduction
  <1>15. g \in [low..high -> X]
    BY <1>9, <1>14 DEF S
  <1>16. g[low] = start /\ \A n \in at..high : g[n] = Then(n, g[n - 1])
    BY <1>1, <1>11
  <1> HIDE DEF Goes
  <1>17. \E h \in [low..high -> X] :
             /\ h[low] = start
             /\ \A n \in at..high : h[n] = Then(n, h[n - 1])
             /\ DeserializeObjectAt(tlv, at, c, operation, update) = h[high].result
    BY <1>10, <1>15, <1>16
  <1> QED
    BY <1>17, Zenon DEF X, start, Then, low, high, ObjectAtRun

LEMMA DeserializeObjectAtGrows ==
    ASSUME NEW tlv \in Seq(Records), NEW at \in 1..(Len(tlv) + 1), NEW c \in Contents,
           NEW operation, NEW update \in BOOLEAN
    PROVE  DeserializeObjectAt(tlv, at, c, operation, update) \in Results(c, tlv, operation, update)
  <1>1. PICK f : ObjectAtRun(f, tlv, at, c, operation, update)
    BY DeserializeObjectAtRuns
  <1>2. f[Len(tlv)] \in Readers(c, tlv, operation, update)
    BY <1>1 DEF ObjectAtRun
  <1> QED
    BY <1>1, <1>2 DEF Readers, ObjectAtRun

-----------------------------------------------------------------------------
(* deserialize_resource_instances() of one resource.                       *)

LEMMA ReadResourceInstanceIs ==
    ASSUME NEW tlv, NEW n, NEW c, NEW id, NEW operation, NEW update,
           NEW slot, slot = <<id, tlv[n].id>>,
           NEW r, r = ReadResourceInstance(tlv, n, c, id, operation, update)
    PROVE  /\ tlv[n].type # "RI" =>
                  r = Invalid(tlv, c)
           /\ tlv[n].type = "RI" /\ slot \in DOMAIN c =>
                  r = After(tlv, n, Found(c, slot, tlv[n].value, update))
           /\ tlv[n].type = "RI" /\ slot \notin DOMAIN c =>
                  r = After(tlv, n, Result(IF operation = "Post" THEN "NotAllowed" ELSE "NotFound", c))
  <1>1. tlv[n].type # "RI" =>
            r = Invalid(tlv, c)
    BY Zenon DEF ReadResourceInstance
  <1>2. tlv[n].type = "RI" /\ slot \in DOMAIN c =>
            r = After(tlv, n, Found(c, slot, tlv[n].value, update))
    BY Zenon DEF ReadResourceInstance
  <1>3. tlv[n].type = "RI" /\ slot \notin DOMAIN c =>
            r = After(tlv, n, Result(IF operation = "Post" THEN "NotAllowed" ELSE "NotFound", c))
    BY Zenon DEF ReadResourceInstance
  <1> QED
    BY <1>1, <1>2, <1>3

LEMMA ReadResourceInstanceGrows ==
    ASSUME NEW tlv \in Seq(Records), NEW n \in 1..Len(tlv), NEW c \in Contents,
           NEW id \in Identifiers, NEW operation, NEW update \in BOOLEAN
    PROVE  ReadResourceInstance(tlv, n, c, id, operation, update) \in Readers(c, tlv, operation, update)
  <1> DEFINE slot == <<id, tlv[n].id>>
             r == ReadResourceInstance(tlv, n, c, id, operation, update)
             R == Results(c, tlv, operation, update)
  <1> HIDE DEF Contents, Slots
  <1>1. tlv[n].id \in Identifiers /\ tlv[n].type \in {"OI", "RI", "M", "R"} /\ n + 1 \in 1..(Len(tlv) + 1)
    BY RecordIs
  <1>2. slot \in Slots /\ slot[Len(slot)] = tlv[n].id /\ Len(slot) = 2
    BY <1>1, SlotIs
  <1>3. /\ slot = <<id, tlv[n].id>>
        /\ r = ReadResourceInstance(tlv, n, c, id, operation, update)
    OBVIOUS
  <1> HIDE DEF slot, r
  <1>4. /\ tlv[n].type # "RI" =>
               r = Invalid(tlv, c)
        /\ tlv[n].type = "RI" /\ slot \in DOMAIN c =>
               r = After(tlv, n, Found(c, slot, tlv[n].value, update))
        /\ tlv[n].type = "RI" /\ slot \notin DOMAIN c =>
               r = After(tlv, n, Result(IF operation = "Post" THEN "NotAllowed" ELSE "NotFound", c))
    BY <1>3, ReadResourceInstanceIs
  <1>5. \E x \in R : \/ r = Invalid(tlv, c) /\ x = Result("NotValid", c)
                     \/ r = Reader(Len(tlv) + 1, x)
                     \/ r = After(tlv, n, x)
    <2>1. CASE tlv[n].type # "RI"
      <3>1. r = Invalid(tlv, c)
        BY <2>1, <1>4
      <3>2. Result("NotValid", c) \in R
        BY NothingGrows DEF Errors
      <3> QED
        BY <3>1, <3>2
    <2>2. CASE tlv[n].type = "RI" /\ slot \in DOMAIN c
      <3>1. r = After(tlv, n, Found(c, slot, tlv[n].value, update))
        BY <2>2, <1>4
      <3>2. Found(c, slot, tlv[n].value, update) \in R
        BY <1>2, <2>2, FoundGrows
      <3> QED
        BY <3>1, <3>2
    <2>3. CASE tlv[n].type = "RI" /\ slot \notin DOMAIN c
      <3>1. r = After(tlv, n, Result(IF operation = "Post" THEN "NotAllowed" ELSE "NotFound", c))
        BY <2>3, <1>4
      <3>2. Result(IF operation = "Post" THEN "NotAllowed" ELSE "NotFound", c) \in R
        BY NothingGrows DEF Errors
      <3> QED
        BY <3>1, <3>2
    <2> QED
      BY <1>1, <2>1, <2>2, <2>3
  <1>6. PICK x \in R : \/ r = Invalid(tlv, c) /\ x = Result("NotValid", c)
                       \/ r = Reader(Len(tlv) + 1, x)
                       \/ r = After(tlv, n, x)
    BY <1>5
  <1>7. \E at \in Int : r = [at |-> at, result |-> x]
    <2> HIDE DEF R
    <2>1. Len(tlv) + 1 \in Int
      OBVIOUS
    <2> QED
      BY <1>6, <2>1, AfterIs, InvalidIs DEF Reader
  <1> HIDE DEF R
  <1>8. r \in [at : Int, result : R]
    BY <1>6, <1>7
  <1> QED
    BY <1>8 DEF r, R, Readers

\* f is the reader before each record from position at on, and after the last.
ResourceAtRun(f, tlv, at, c, id, operation, update) ==
    /\ f \in [(at - 1)..Len(tlv) -> Readers(c, tlv, operation, update)]
    /\ f[at - 1] = Reader(at, Result("None", c))
    /\ \A n \in at..Len(tlv) :
           f[n] = IF f[n - 1].at = n
                  THEN ReadResourceInstance(tlv, n, f[n - 1].result.contents, id, operation, update)
                  ELSE f[n - 1]
    /\ DeserializeResourceAt(tlv, at, c, id, operation, update) = f[Len(tlv)].result

LEMMA DeserializeResourceAtRuns ==
    ASSUME NEW tlv \in Seq(Records), NEW at \in 1..(Len(tlv) + 1), NEW c \in Contents,
           NEW id \in Identifiers, NEW operation, NEW update \in BOOLEAN
    PROVE  \E f : ResourceAtRun(f, tlv, at, c, id, operation, update)
  <1> DEFINE low == at - 1
             high == Len(tlv)
             X == Readers(c, tlv, operation, update)
             start == Reader(at, Result("None", c))
             Then(n, x) == IF x.at = n THEN ReadResourceInstance(tlv, n, x.result.contents, id, operation, update)
                           ELSE x
             Goes(f) == f = [n \in low..high |-> IF n = low THEN start ELSE Then(n, f[n - 1])]
             step == [p \in ((low + 1)..high) \X X |-> Then(p[1], p[2])]
             g == CHOOSE f : Goes(f)
  <1> HIDE DEF Contents
  <1>1. low \in Int /\ high \in Int /\ low <= high /\ low + 1 = at /\ at \in Int
    OBVIOUS
  <1>2. start \in X
    BY <1>1, NothingGrows DEF Readers, Reader, Errors
  <1>3. ASSUME NEW n \in (low + 1)..high, NEW x \in X
        PROVE  Then(n, x) \in X
    <2> DEFINE d == x.result.contents
    <2>1. n \in 1..Len(tlv)
      BY <1>1
    <2>2. d \in Contents /\ Grown(c, d, tlv, operation, update)
      BY DEF Readers, Results
    <2> HIDE DEF d
    <2>3. ReadResourceInstance(tlv, n, d, id, operation, update) \in Readers(d, tlv, operation, update)
      BY <2>1, <2>2, ReadResourceInstanceGrows
    <2>4. ReadResourceInstance(tlv, n, d, id, operation, update) \in X
      BY <2>2, <2>3, ResultsTransitive DEF Readers
    <2> QED
      BY <2>4 DEF d
  <1> HIDE DEF X, start, Then, low, high
  <1>4. \A n \in (low + 1)..high : \A x \in X : step[<<n, x>>] = Then(n, x)
    OBVIOUS
  <1> HIDE DEF step
  <1>5. \A n \in (low + 1)..high : \A x \in X : step[<<n, x>>] \in X
    BY <1>3, <1>4
  <1>0. Recursion(low, high, X, start, step)
    BY <1>1, <1>2, <1>5, RecursionExists
  <1>6. PICK f \in [low..high -> X] :
            \A n \in low..high : f[n] = IF n = low THEN start ELSE step[<<n, f[n - 1]>>]
    BY <1>0 DEF Recursion
  <1>7. \A n \in low..high : f[n] = IF n = low THEN start ELSE Then(n, f[n - 1])
    <2> SUFFICES ASSUME NEW n \in low..high, n # low
                 PROVE  step[<<n, f[n - 1]>>] = Then(n, f[n - 1])
      BY <1>6
    <2>1. n \in (low + 1)..high /\ n - 1 \in low..high
      BY <1>1
    <2> QED
      BY <1>4, <1>6, <2>1
  <1>8. Goes(f)
    BY <1>6, <1>7
  <1>9. Goes(g)
    BY <1>8
  <1>10. DeserializeResourceAt(tlv, at, c, id, operation, update) = g[high].result
    BY Zenon DEF DeserializeResourceAt, ReadAll, Then, start, low, high
  <1> HIDE DEF g
  <1>11. \A n \in low..high : g[n] = IF n = low THEN start ELSE Then(n, g[n - 1])
    BY <1>9
  <1> DEFINE S == {n \in low..high : g[n] \in X}
  <1>12. low \in S
    BY <1>1, <1>2, <1>11
  <1>13. \A n \in (low + 1)..high : n - 1 \in S => n \in S
    BY <1>1, <1>3, <1>11
  <1> HIDE DEF S
  <1>14. \A n \in low..high : n \in S
    BY <1>1, <1>12, <1>13, RangeInduction
  <1>15. g \in [low..high -> X]
    BY <1>9, <1>14 DEF S
  <1>16. g[low] = start /\ \A n \in at..high : g[n] = Then(n, g[n - 1])
    BY <1>1, <1>11
  <1> HIDE DEF Goes
  <1>17. \E h \in [low..high -> X] :
             /\ h[low] = start
             /\ \A n \in at..high : h[n] = Then(n, h[n - 1])
             /\ DeserializeResourceAt(tlv, at, c, id, operation, update) = h[high].result
    BY <1>10, <1>15, <1>16
  <1> QED
    BY <1>17, Zenon DEF X, start, Then, low, high, ResourceAtRun

LEMMA DeserializeResourceAtGrows ==
    ASSUME NEW tlv \in Seq(Records), NEW at \in 1..(Len(tlv) + 1), NEW c \in Contents,
           NEW id \in Identifiers, NEW operation, NEW update \in BOOLEAN
    PROVE  DeserializeResourceAt(tlv, at, c, id, operation, update) \in Results(c, tlv, operation, update)
  <1>1. PICK f : ResourceAtRun(f, tlv, at, c, id, operation, update)
    BY DeserializeResourceAtRuns
  <1>2. f[Len(tlv)] \in Readers(c, tlv, operation, update)
    BY <1>1 DEF ResourceAtRun
  <1> QED
    BY <1>1, <1>2 DEF Readers, ResourceAtRun

-----------------------------------------------------------------------------
(* The two passes: the second meets no error that the first has not met.   *)

\* The contents in the second pass are those in the first and what that pass is still
\* to create: single resources and instances.
Ahead(c, d) ==
    /\ DOMAIN c \subseteq DOMAIN d
    /\ \A s \in DOMAIN c : d[s].multiple <=> c[s].multiple
    /\ \A s \in DOMAIN d \ DOMAIN c : ~d[s].multiple

Succeeds(x, y) ==
    /\ x.error = "None" => y.error = "None"
    /\ Ahead(x.contents, y.contents)

Follows(x, y) == x.at = y.at /\ Succeeds(x.result, y.result)

LEMMA AheadTransitive ==
    ASSUME NEW c, NEW d, NEW e, Ahead(c, d), Ahead(d, e)
    PROVE  Ahead(c, e)
  <1>1. DOMAIN c \subseteq DOMAIN d /\ DOMAIN d \subseteq DOMAIN e
    BY DEF Ahead
  <1>2. \A s \in DOMAIN c : e[s].multiple <=> c[s].multiple
    BY <1>1, Zenon DEF Ahead
  <1>3. \A s \in DOMAIN e \ DOMAIN c : ~e[s].multiple
    BY Zenon DEF Ahead
  <1> QED
    BY <1>1, <1>2, <1>3, Zenon DEF Ahead

\* What the first pass creates leaves the second ahead.
LEMMA GrownIsAhead ==
    ASSUME NEW c, NEW d, NEW tlv, NEW operation, NEW update, Grown(c, d, tlv, operation, update)
    PROVE  Ahead(c, d)
  BY DEF Grown, Ahead

LEMMA ResultIs ==
    ASSUME NEW error, NEW c
    PROVE  Result(error, c).error = error /\ Result(error, c).contents = c
  BY DEF Result

\* The first pass creates what it does not find.
LEMMA CreatedIs ==
    ASSUME NEW c \in Contents, NEW slot \in Slots, slot \notin DOMAIN c
    PROVE  \E e :
               /\ Missing(c, slot, "Post") = Result("None", e)
               /\ DOMAIN e = DOMAIN c \cup {slot}
               /\ ~e[slot].multiple
               /\ \A s \in DOMAIN c : e[s].multiple <=> c[s].multiple
  <1> DEFINE leaf == Leaf("INTEGER", AllOperations, NoValue)
             e == With(c, slot, leaf)
  <1> HIDE DEF Contents, Slots
  <1>1. leaf \in Leaves /\ ~leaf.multiple
    BY LeafIs DEF Types, Values
  <1>2. Missing(c, slot, "Post") = Result("None", e)
    BY DEF Missing
  <1> HIDE DEF leaf, e
  <1>3. /\ e \in Contents
        /\ DOMAIN e = DOMAIN c \cup {slot}
        /\ e[slot] = leaf
        /\ \A s \in DOMAIN c : s # slot => e[s] = c[s]
    BY <1>1, WithIs DEF e
  <1>4. ~e[slot].multiple
    BY <1>1, <1>3
  <1>5. \A s \in DOMAIN c : e[s].multiple <=> c[s].multiple
    BY <1>3, Zenon
  <1> QED
    BY <1>2, <1>3, <1>4, <1>5, Zenon

LEMMA MissingFollows ==
    ASSUME NEW c \in Contents, NEW d \in Contents, Ahead(c, d),
           NEW slot \in Slots, slot \notin DOMAIN c, NEW operation
    PROVE  /\ slot \notin DOMAIN d =>
                  Succeeds(Missing(c, slot, operation), Missing(d, slot, operation))
           /\ \A y : slot \in DOMAIN d /\ Ahead(d, y.contents)
                     /\ (operation = "Post" => y.error = "None") =>
                         Succeeds(Missing(c, slot, operation), y)
  <1> HIDE DEF Contents, Slots
  <1>1. CASE operation = "Post"
    <2>1. PICK e : /\ Missing(c, slot, "Post") = Result("None", e)
                   /\ DOMAIN e = DOMAIN c \cup {slot}
                   /\ ~e[slot].multiple
                   /\ \A s \in DOMAIN c : e[s].multiple <=> c[s].multiple
      BY CreatedIs
    <2>2. ASSUME slot \notin DOMAIN d
          PROVE  Succeeds(Missing(c, slot, operation), Missing(d, slot, operation))
      <3>1. PICK f : /\ Missing(d, slot, "Post") = Result("None", f)
                     /\ DOMAIN f = DOMAIN d \cup {slot}
                     /\ ~f[slot].multiple
                     /\ \A s \in DOMAIN d : f[s].multiple <=> d[s].multiple
        BY <2>2, CreatedIs
      <3>2. Ahead(e, f)
        BY <2>1, <2>2, <3>1 DEF Ahead
      <3>3. /\ Result("None", e).contents = e
            /\ Result("None", f).error = "None" /\ Result("None", f).contents = f
        BY ResultIs
      <3> QED
        BY <1>1, <2>1, <3>1, <3>2, <3>3, Zenon DEF Succeeds
    <2>3. ASSUME slot \in DOMAIN d, NEW y, Ahead(d, y.contents), y.error = "None"
          PROVE  Succeeds(Missing(c, slot, operation), y)
      <3>1. Ahead(e, d)
        BY <2>1, <2>3 DEF Ahead
      <3>2. Ahead(e, y.contents)
        BY <2>3, <3>1, AheadTransitive
      <3>3. Result("None", e).contents = e
        BY ResultIs
      <3> QED
        BY <1>1, <2>1, <2>3, <3>2, <3>3, Zenon DEF Succeeds
    <2> QED
      BY <1>1, <2>2, <2>3, Zenon
  <1>2. CASE operation # "Post"
    <2>1. \A e : Missing(e, slot, operation) = Result("NotFound", e)
      BY <1>2 DEF Missing
    <2>2. \A e : Result("NotFound", e).error # "None" /\ Result("NotFound", e).contents = e
      BY DEF Result
    <2>3. \A y : Ahead(d, y.contents) => Ahead(c, y.contents)
      BY AheadTransitive
    <2> QED
      BY <2>1, <2>2, <2>3, Zenon DEF Succeeds
  <1> QED
    BY <1>1, <1>2

\* The first pass checks, the second updates.
Passes(check, update) == ~check /\ update

\* What a record that is found does in each pass.
LEMMA CheckedIs ==
    ASSUME NEW c, NEW slot, NEW value, NEW check, ~check
    PROVE  Found(c, slot, value, check).contents = c
  BY DEF Found, Result

LEMMA UpdatedIs ==
    ASSUME NEW d \in Contents, NEW slot \in DOMAIN d, NEW value \in Values, NEW update, update
    PROVE  /\ Found(d, slot, value, update).error = "None"
           /\ Ahead(d, Found(d, slot, value, update).contents)
  <1> DEFINE e == SetLeaf(d, slot, value)
  <1> HIDE DEF Contents
  <1>1. Found(d, slot, value, update) = Result("None", e)
    BY DEF Found
  <1>2. /\ DOMAIN e = DOMAIN d
        /\ \A s \in DOMAIN d : e[s].multiple = d[s].multiple
    BY SetLeafIs
  <1> HIDE DEF e
  <1>3. Ahead(d, e)
    BY <1>2, Zenon DEF Ahead
  <1>4. Result("None", e).error = "None" /\ Result("None", e).contents = e
    BY ResultIs
  <1> QED
    BY <1>1, <1>3, <1>4

LEMMA FoundFollows ==
    ASSUME NEW c, NEW d \in Contents, Ahead(c, d), NEW slot \in DOMAIN d, NEW value \in Values,
           NEW check, NEW update, Passes(check, update)
    PROVE  Succeeds(Found(c, slot, value, check), Found(d, slot, value, update))
  <1>1. Found(c, slot, value, check).contents = c
    BY CheckedIs DEF Passes
  <1>2. /\ Found(d, slot, value, update).error = "None"
        /\ Ahead(d, Found(d, slot, value, update).contents)
    BY UpdatedIs DEF Passes
  <1>3. Ahead(c, Found(d, slot, value, update).contents)
    BY <1>2, AheadTransitive
  <1> QED
    BY <1>1, <1>2, <1>3, Zenon DEF Succeeds

LEMMA ResultFollows ==
    ASSUME NEW error, NEW c, NEW d, Ahead(c, d)
    PROVE  Succeeds(Result(error, c), Result(error, d))
  BY DEF Succeeds, Result

LEMMA InvalidFollows ==
    ASSUME NEW tlv, NEW c, NEW d, Ahead(c, d)
    PROVE  Follows(Invalid(tlv, c), Invalid(tlv, d))
  BY DEF Follows, Succeeds, Invalid, Reader, Result

LEMMA AfterFollows ==
    ASSUME NEW tlv, NEW n, NEW x, NEW y, Succeeds(x, y)
    PROVE  Follows(After(tlv, n, x), After(tlv, n, y))
  BY DEF Follows, After, Reader

-----------------------------------------------------------------------------
(* Each reader in the two passes.                                          *)

LEMMA ReadInstanceFollows ==
    ASSUME NEW tlv \in Seq(Records), NEW n \in 1..Len(tlv), NEW c \in Contents, NEW d \in Contents,
           Ahead(c, d), NEW id \in Identifiers, NEW operation,
           NEW check, NEW update, Passes(check, update)
    PROVE  Follows(ReadInstance(tlv, n, c, id, operation, check),
                   ReadInstance(tlv, n, d, id, operation, update))
  <1> DEFINE slot == <<id, tlv[n].id>>
             x == ReadInstance(tlv, n, c, id, operation, check)
             y == ReadInstance(tlv, n, d, id, operation, update)
             v == tlv[n].value
  <1> HIDE DEF Contents, Slots
  <1>1. v \in Values /\ slot \in Slots
    BY RecordIs, SlotIs
  <1>2. slot = <<id, tlv[n].id>> /\ v = tlv[n].value
    OBVIOUS
  <1>12. x = ReadInstance(tlv, n, c, id, operation, check)
    OBVIOUS
  <1>13. y = ReadInstance(tlv, n, d, id, operation, update)
    OBVIOUS
  <1> SUFFICES Follows(x, y)
    OBVIOUS
  <1> HIDE DEF slot, x, y, v
  <1>3. /\ tlv[n].type \notin {"M", "RI"} => x = Invalid(tlv, c)
        /\ tlv[n].type = "RI" /\ slot \in DOMAIN c =>
               x = After(tlv, n, Found(c, slot, v, check))
        /\ tlv[n].type = "M" /\ slot \in DOMAIN c /\ operation = "Post" =>
               x = After(tlv, n, Result("None", c))
        /\ tlv[n].type = "M" /\ slot \in DOMAIN c /\ operation # "Post" =>
               x = After(tlv, n, Result("NotFound", c))
        /\ tlv[n].type \in {"M", "RI"} /\ slot \notin DOMAIN c =>
               x = After(tlv, n, Missing(c, slot, operation))
    BY <1>2, <1>12, ReadInstanceIs
  <1>4. /\ tlv[n].type \notin {"M", "RI"} => y = Invalid(tlv, d)
        /\ tlv[n].type = "RI" /\ slot \in DOMAIN d =>
               y = After(tlv, n, Found(d, slot, v, update))
        /\ tlv[n].type = "M" /\ slot \in DOMAIN d /\ operation = "Post" =>
               y = After(tlv, n, Result("None", d))
        /\ tlv[n].type = "M" /\ slot \in DOMAIN d /\ operation # "Post" =>
               y = After(tlv, n, Result("NotFound", d))
        /\ tlv[n].type \in {"M", "RI"} /\ slot \notin DOMAIN d =>
               y = After(tlv, n, Missing(d, slot, operation))
    BY <1>2, <1>13, ReadInstanceIs
  <1>5. DOMAIN c \subseteq DOMAIN d
    BY DEF Ahead
  <1>6. CASE tlv[n].type \notin {"M", "RI"}
    <2>1. x = Invalid(tlv, c) /\ y = Invalid(tlv, d)
      BY <1>3, <1>4, <1>6
    <2> QED
      BY <2>1, InvalidFollows
  <1>7. CASE tlv[n].type = "RI" /\ slot \in DOMAIN c
    <2>1. /\ x = After(tlv, n, Found(c, slot, v, check))
          /\ y = After(tlv, n, Found(d, slot, v, update))
      BY <1>3, <1>4, <1>5, <1>7
    <2>2. slot \in DOMAIN d
      BY <1>5, <1>7
    <2> QED
      BY <1>1, <2>1, <2>2, FoundFollows, AfterFollows
  <1>8. CASE tlv[n].type = "M" /\ slot \in DOMAIN c /\ operation = "Post"
    <2>1. x = After(tlv, n, Result("None", c)) /\ y = After(tlv, n, Result("None", d))
      BY <1>3, <1>4, <1>5, <1>8
    <2> QED
      BY <2>1, ResultFollows, AfterFollows
  <1>9. CASE tlv[n].type = "M" /\ slot \in DOMAIN c /\ operation # "Post"
    <2>1. x = After(tlv, n, Result("NotFound", c)) /\ y = After(tlv, n, Result("NotFound", d))
      BY <1>3, <1>4, <1>5, <1>9
    <2> QED
      BY <2>1, ResultFollows, AfterFollows
  <1>10. CASE tlv[n].type \in {"M", "RI"} /\ slot \notin DOMAIN c /\ slot \notin DOMAIN d
    <2>1. /\ x = After(tlv, n, Missing(c, slot, operation))
          /\ y = After(tlv, n, Missing(d, slot, operation))
      BY <1>3, <1>4, <1>10
    <2>2. Succeeds(Missing(c, slot, operation), Missing(d, slot, operation))
      BY <1>1, <1>10, MissingFollows
    <2> QED
      BY <2>1, <2>2, AfterFollows
  <1>11. CASE tlv[n].type \in {"M", "RI"} /\ slot \notin DOMAIN c /\ slot \in DOMAIN d
    <2>1. x = After(tlv, n, Missing(c, slot, operation))
      BY <1>3, <1>11
    <2>2. PICK z : /\ y = After(tlv, n, z) /\ Ahead(d, z.contents)
                   /\ operation = "Post" => z.error = "None"
      <3>1. CASE tlv[n].type = "RI"
        <4>1. y = After(tlv, n, Found(d, slot, v, update))
          BY <1>4, <1>11, <3>1
        <4>2. Found(d, slot, v, update).error = "None" /\ Ahead(d, Found(d, slot, v, update).contents)
          BY <1>1, <1>11, UpdatedIs DEF Passes
        <4> QED
          BY <4>1, <4>2
      <3>2. CASE tlv[n].type = "M"
        <4>1. Ahead(d, d)
          BY DEF Ahead
        <4>2. y = After(tlv, n, Result(IF operation = "Post" THEN "None" ELSE "NotFound", d))
          BY <1>4, <1>11, <3>2
        <4> QED
          BY <4>1, <4>2, ResultIs
      <3> QED
        BY <1>11, <3>1, <3>2
    <2>3. Succeeds(Missing(c, slot, operation), z)
      BY <1>1, <1>11, <2>2, MissingFollows
    <2> QED
      BY <2>1, <2>2, <2>3, AfterFollows
  <1> QED
    BY <1>6, <1>7, <1>8, <1>9, <1>10, <1>11

LEMMA DeserializeInstancesFollows ==
    ASSUME NEW tlv \in Seq(Records), NEW at \in 1..(Len(tlv) + 1), NEW c \in Contents,
           NEW d \in Contents, Ahead(c, d),
           NEW id \in Identifiers, <<id>> \in DOMAIN c, c[<<id>>].multiple, NEW operation,
           NEW check \in BOOLEAN, NEW update \in BOOLEAN, Passes(check, update)
    PROVE  Succeeds(DeserializeInstances(tlv, at, c, id, operation, check),
                    DeserializeInstances(tlv, at, d, id, operation, update))
  <1> DEFINE low == at - 1
             high == Len(tlv)
  <1> HIDE DEF Contents
  <1>1. PICK f : InstancesRun(f, tlv, at, c, id, operation, check)
    BY DeserializeInstancesRuns
  <1>2. <<id>> \in DOMAIN d /\ d[<<id>>].multiple
    BY DEF Ahead
  <1>3. PICK g : InstancesRun(g, tlv, at, d, id, operation, update)
    BY <1>2, DeserializeInstancesRuns
  <1> DEFINE S == {n \in low..high : Follows(f[n], g[n])}
  <1>4. low \in Int /\ high \in Int /\ low <= high /\ low + 1 = at /\ at \in Int
    OBVIOUS
  <1>5. low \in S
    <2>1. Follows(f[low], g[low])
      BY <1>1, <1>3 DEF InstancesRun, Follows, Succeeds, Reader, Result
    <2> QED
      BY <1>4, <2>1
  <1>6. ASSUME NEW n \in (low + 1)..high, n - 1 \in S
        PROVE  n \in S
    <2>1. n \in 1..Len(tlv) /\ n \in at..Len(tlv) /\ n - 1 \in low..high /\ n \in low..high
      BY <1>4
    <2>2. Follows(f[n - 1], g[n - 1])
      BY <1>6
    <2> DEFINE x == f[n - 1].result.contents
               y == g[n - 1].result.contents
    <2>3. x \in Contents /\ y \in Contents
      BY <1>1, <1>3, <2>1 DEF InstancesRun, Readers, Results
    <2>4. Ahead(x, y) /\ f[n - 1].at = g[n - 1].at
      BY <2>2 DEF Follows, Succeeds
    <2>5. f[n] = IF f[n - 1].at = n THEN ReadInstance(tlv, n, x, id, operation, check) ELSE f[n - 1]
      BY <1>1, <2>1 DEF InstancesRun
    <2>6. g[n] = IF g[n - 1].at = n THEN ReadInstance(tlv, n, y, id, operation, update) ELSE g[n - 1]
      BY <1>3, <2>1 DEF InstancesRun
    <2> HIDE DEF x, y
    <2>7. Follows(ReadInstance(tlv, n, x, id, operation, check), ReadInstance(tlv, n, y, id, operation, update))
      BY <2>1, <2>3, <2>4, ReadInstanceFollows
    <2>8. Follows(f[n], g[n])
      BY <2>2, <2>4, <2>5, <2>6, <2>7
    <2> QED
      BY <2>1, <2>8
  <1> HIDE DEF S, low, high
  <1>7. \A n \in low..high : n \in S
    BY <1>4, <1>5, <1>6, RangeInduction
  <1>8. high \in low..high
    BY <1>4
  <1>9. Follows(f[Len(tlv)], g[Len(tlv)])
    BY <1>7, <1>8 DEF S, high
  <1> QED
    BY <1>1, <1>3, <1>9 DEF Follows, InstancesRun

LEMMA ReadResourceFollows ==
    ASSUME NEW tlv \in Seq(Records), NEW n \in 1..Len(tlv), NEW c \in Contents, NEW d \in Contents,
           Ahead(c, d), NEW operation,
           NEW check \in BOOLEAN, NEW update \in BOOLEAN, Passes(check, update)
    PROVE  Follows(ReadResource(tlv, n, c, operation, check),
                   ReadResource(tlv, n, d, operation, update))
  <1> DEFINE x == ReadResource(tlv, n, c, operation, check)
             y == ReadResource(tlv, n, d, operation, update)
             slot == <<tlv[n].id>>
             v == tlv[n].value
  <1> HIDE DEF Contents, Slots
  <1>1. /\ tlv[n].id \in Identifiers /\ n + 1 \in 1..(Len(tlv) + 1)
        /\ tlv[n].type \in {"OI", "RI", "M", "R"}
        /\ v \in Values
    BY RecordIs
  <1>0. slot \in Slots
    BY <1>1, SlotIs
  <1>2. slot = <<tlv[n].id>> /\ v = tlv[n].value
    OBVIOUS
  <1>3. x = ReadResource(tlv, n, c, operation, check)
    OBVIOUS
  <1>4. y = ReadResource(tlv, n, d, operation, update)
    OBVIOUS
  <1> SUFFICES Follows(x, y)
    OBVIOUS
  <1> HIDE DEF slot, v, x, y
  <1>5. /\ tlv[n].type = "OI" =>
               x = Invalid(tlv, c)
        /\ tlv[n].type = "M" /\ slot \in DOMAIN c /\ c[slot].multiple =>
               x = After(tlv, n, DeserializeInstances(tlv, n + 1, c, tlv[n].id, operation, check))
        /\ tlv[n].type = "M" /\ ~(slot \in DOMAIN c /\ c[slot].multiple) =>
               x = After(tlv, n, Result("None", c))
        /\ tlv[n].type \in {"R", "RI"} /\ slot \in DOMAIN c =>
               x = After(tlv, n, Found(c, slot, v, check))
        /\ tlv[n].type \in {"R", "RI"} /\ slot \notin DOMAIN c =>
               x = After(tlv, n, Missing(c, slot, operation))
    BY <1>2, <1>3, ReadResourceIs
  <1>6. /\ tlv[n].type = "OI" =>
               y = Invalid(tlv, d)
        /\ tlv[n].type = "M" /\ slot \in DOMAIN d /\ d[slot].multiple =>
               y = After(tlv, n, DeserializeInstances(tlv, n + 1, d, tlv[n].id, operation, update))
        /\ tlv[n].type = "M" /\ ~(slot \in DOMAIN d /\ d[slot].multiple) =>
               y = After(tlv, n, Result("None", d))
        /\ tlv[n].type \in {"R", "RI"} /\ slot \in DOMAIN d =>
               y = After(tlv, n, Found(d, slot, v, update))
        /\ tlv[n].type \in {"R", "RI"} /\ slot \notin DOMAIN d =>
               y = After(tlv, n, Missing(d, slot, operation))
    BY <1>2, <1>4, ReadResourceIs
  <1>7. DOMAIN c \subseteq DOMAIN d
    BY DEF Ahead
  <1>8. CASE tlv[n].type = "OI"
    <2>1. x = Invalid(tlv, c) /\ y = Invalid(tlv, d)
      BY <1>5, <1>6, <1>8
    <2> QED
      BY <2>1, InvalidFollows
  <1>9. (slot \in DOMAIN d /\ d[slot].multiple) <=> (slot \in DOMAIN c /\ c[slot].multiple)
    BY <1>7, Zenon DEF Ahead
  <1>10. CASE tlv[n].type = "M" /\ slot \in DOMAIN c /\ c[slot].multiple
    <2>1. /\ x = After(tlv, n, DeserializeInstances(tlv, n + 1, c, tlv[n].id, operation, check))
          /\ y = After(tlv, n, DeserializeInstances(tlv, n + 1, d, tlv[n].id, operation, update))
      BY <1>5, <1>6, <1>9, <1>10
    <2>2. Succeeds(DeserializeInstances(tlv, n + 1, c, tlv[n].id, operation, check),
                   DeserializeInstances(tlv, n + 1, d, tlv[n].id, operation, update))
      BY <1>1, <1>2, <1>10, DeserializeInstancesFollows
    <2> QED
      BY <2>1, <2>2, AfterFollows
  <1>11. CASE tlv[n].type = "M" /\ ~(slot \in DOMAIN c /\ c[slot].multiple)
    <2>1. x = After(tlv, n, Result("None", c)) /\ y = After(tlv, n, Result("None", d))
      BY <1>5, <1>6, <1>11, <1>9
    <2> QED
      BY <2>1, ResultFollows, AfterFollows
  <1>12. CASE tlv[n].type \in {"R", "RI"} /\ slot \in DOMAIN c
    <2>1. /\ x = After(tlv, n, Found(c, slot, v, check))
          /\ y = After(tlv, n, Found(d, slot, v, update))
      BY <1>5, <1>6, <1>7, <1>12
    <2>2. slot \in DOMAIN d
      BY <1>7, <1>12
    <2> QED
      BY <1>1, <2>1, <2>2, FoundFollows, AfterFollows
  <1>13. CASE tlv[n].type \in {"R", "RI"} /\ slot \notin DOMAIN c /\ slot \notin DOMAIN d
    <2>1. /\ x = After(tlv, n, Missing(c, slot, operation))
          /\ y = After(tlv, n, Missing(d, slot, operation))
      BY <1>5, <1>6, <1>13
    <2>2. Succeeds(Missing(c, slot, operation), Missing(d, slot, operation))
      BY <1>0, <1>13, MissingFollows
    <2> QED
      BY <2>1, <2>2, AfterFollows
  <1>14. CASE tlv[n].type \in {"R", "RI"} /\ slot \notin DOMAIN c /\ slot \in DOMAIN d
    <2>1. /\ x = After(tlv, n, Missing(c, slot, operation))
          /\ y = After(tlv, n, Found(d, slot, v, update))
      BY <1>5, <1>6, <1>14
    <2>2. /\ Found(d, slot, v, update).error = "None"
          /\ Ahead(d, Found(d, slot, v, update).contents)
      BY <1>1, <1>14, UpdatedIs DEF Passes
    <2>3. Succeeds(Missing(c, slot, operation), Found(d, slot, v, update))
      BY <1>0, <1>14, <2>2, MissingFollows
    <2> QED
      BY <2>1, <2>3, AfterFollows
  <1> QED
    BY <1>1, <1>8, <1>10, <1>11, <1>12, <1>13, <1>14

LEMMA DeserializeAtFollows ==
    ASSUME NEW tlv \in Seq(Records), NEW at \in 1..(Len(tlv) + 1), NEW c \in Contents,
           NEW d \in Contents, Ahead(c, d),
           NEW operation,
           NEW check \in BOOLEAN, NEW update \in BOOLEAN, Passes(check, update)
    PROVE  Succeeds(DeserializeAt(tlv, at, c, operation, check),
                    DeserializeAt(tlv, at, d, operation, update))
  <1> DEFINE low == at - 1
             high == Len(tlv)
  <1> HIDE DEF Contents
  <1>1. PICK f : AtRun(f, tlv, at, c, operation, check)
    BY DeserializeAtRuns
  <1>3. PICK g : AtRun(g, tlv, at, d, operation, update)
    BY DeserializeAtRuns
  <1> DEFINE S == {n \in low..high : Follows(f[n], g[n])}
  <1>4. low \in Int /\ high \in Int /\ low <= high /\ low + 1 = at /\ at \in Int
    OBVIOUS
  <1>5. low \in S
    <2>1. Follows(f[low], g[low])
      BY <1>1, <1>3 DEF AtRun, Follows, Succeeds, Reader, Result
    <2> QED
      BY <1>4, <2>1
  <1>6. ASSUME NEW n \in (low + 1)..high, n - 1 \in S
        PROVE  n \in S
    <2>1. n \in 1..Len(tlv) /\ n \in at..Len(tlv) /\ n - 1 \in low..high /\ n \in low..high
      BY <1>4
    <2>2. Follows(f[n - 1], g[n - 1])
      BY <1>6
    <2> DEFINE x == f[n - 1].result.contents
               y == g[n - 1].result.contents
    <2>3. x \in Contents /\ y \in Contents
      BY <1>1, <1>3, <2>1 DEF AtRun, Readers, Results
    <2>4. Ahead(x, y) /\ f[n - 1].at = g[n - 1].at
      BY <2>2 DEF Follows, Succeeds
    <2>5. f[n] = IF f[n - 1].at = n THEN ReadResource(tlv, n, x, operation, check) ELSE f[n - 1]
      BY <1>1, <2>1 DEF AtRun
    <2>6. g[n] = IF g[n - 1].at = n THEN ReadResource(tlv, n, y, operation, update) ELSE g[n - 1]
      BY <1>3, <2>1 DEF AtRun
    <2> HIDE DEF x, y
    <2>7. Follows(ReadResource(tlv, n, x, operation, check), ReadResource(tlv, n, y, operation, update))
      BY <2>1, <2>3, <2>4, ReadResourceFollows
    <2>8. Follows(f[n], g[n])
      BY <2>2, <2>4, <2>5, <2>6, <2>7
    <2> QED
      BY <2>1, <2>8
  <1> HIDE DEF S, low, high
  <1>7. \A n \in low..high : n \in S
    BY <1>4, <1>5, <1>6, RangeInduction
  <1>8. high \in low..high
    BY <1>4
  <1>9. Follows(f[Len(tlv)], g[Len(tlv)])
    BY <1>7, <1>8 DEF S, high
  <1> QED
    BY <1>1, <1>3, <1>9 DEF Follows, AtRun

LEMMA ReadObjectFollows ==
    ASSUME NEW tlv \in Seq(Records), NEW n \in 1..Len(tlv), NEW c \in Contents, NEW d \in Contents,
           Ahead(c, d), NEW operation,
           NEW check \in BOOLEAN, NEW update \in BOOLEAN, Passes(check, update)
    PROVE  Follows(ReadObject(tlv, n, c, operation, check),
                   ReadObject(tlv, n, d, operation, update))
  <1> DEFINE x == ReadObject(tlv, n, c, operation, check)
             y == ReadObject(tlv, n, d, operation, update)
  <1> HIDE DEF Contents, Slots
  <1>1. /\ tlv[n].id \in Identifiers /\ n + 1 \in 1..(Len(tlv) + 1)
        /\ tlv[n].type \in {"OI", "RI", "M", "R"}
    BY RecordIs
  <1>3. x = ReadObject(tlv, n, c, operation, check)
    OBVIOUS
  <1>4. y = ReadObject(tlv, n, d, operation, update)
    OBVIOUS
  <1> SUFFICES Follows(x, y)
    OBVIOUS
  <1> HIDE DEF x, y
  <1>5. /\ tlv[n].type # "OI" =>
               x = Reader(Len(tlv) + 1, Result("None", c))
        /\ tlv[n].type = "OI" /\ tlv[n].id = 0 =>
               x = After(tlv, n, DeserializeAt(tlv, n + 1, c, operation, check))
        /\ tlv[n].type = "OI" /\ tlv[n].id # 0 =>
               x = After(tlv, n, Result("None", c))
    BY <1>3, ReadObjectIs
  <1>6. /\ tlv[n].type # "OI" =>
               y = Reader(Len(tlv) + 1, Result("None", d))
        /\ tlv[n].type = "OI" /\ tlv[n].id = 0 =>
               y = After(tlv, n, DeserializeAt(tlv, n + 1, d, operation, update))
        /\ tlv[n].type = "OI" /\ tlv[n].id # 0 =>
               y = After(tlv, n, Result("None", d))
    BY <1>4, ReadObjectIs
  <1>7. DOMAIN c \subseteq DOMAIN d
    BY DEF Ahead
  <1>8. CASE tlv[n].type # "OI"
    <2>1. x = Reader(Len(tlv) + 1, Result("None", c)) /\ y = Reader(Len(tlv) + 1, Result("None", d))
      BY <1>5, <1>6, <1>8
    <2> QED
      BY <2>1, ResultFollows DEF Follows, Reader
  <1>9. CASE tlv[n].type = "OI" /\ tlv[n].id = 0
    <2>1. /\ x = After(tlv, n, DeserializeAt(tlv, n + 1, c, operation, check))
          /\ y = After(tlv, n, DeserializeAt(tlv, n + 1, d, operation, update))
      BY <1>5, <1>6, <1>9
    <2>2. Succeeds(DeserializeAt(tlv, n + 1, c, operation, check),
                   DeserializeAt(tlv, n + 1, d, operation, update))
      BY <1>1, DeserializeAtFollows
    <2> QED
      BY <2>1, <2>2, AfterFollows
  <1>10. CASE tlv[n].type = "OI" /\ tlv[n].id # 0
    <2>1. x = After(tlv, n, Result("None", c)) /\ y = After(tlv, n, Result("None", d))
      BY <1>5, <1>6, <1>10
    <2> QED
      BY <2>1, ResultFollows, AfterFollows
  <1> QED
    BY <1>8, <1>9, <1>10

LEMMA DeserializeObjectAtFollows ==
    ASSUME NEW tlv \in Seq(Records), NEW at \in 1..(Len(tlv) + 1), NEW c \in Contents,
           NEW d \in Contents, Ahead(c, d),
           NEW operation,
           NEW check \in BOOLEAN, NEW update \in BOOLEAN, Passes(check, update)
    PROVE  Succeeds(DeserializeObjectAt(tlv, at, c, operation, check),
                    DeserializeObjectAt(tlv, at, d, operation, update))
  <1> DEFINE low == at - 1
             high == Len(tlv)
  <1> HIDE DEF Contents
  <1>1. PICK f : ObjectAtRun(f, tlv, at, c, operation, check)
    BY DeserializeObjectAtRuns
  <1>3. PICK g : ObjectAtRun(g, tlv, at, d, operation, update)
    BY DeserializeObjectAtRuns
  <1> DEFINE S == {n \in low..high : Follows(f[n], g[n])}
  <1>4. low \in Int /\ high \in Int /\ low <= high /\ low + 1 = at /\ at \in Int
    OBVIOUS
  <1>5. low \in S
    <2>1. Follows(f[low], g[low])
      BY <1>1, <1>3 DEF ObjectAtRun, Follows, Succeeds, Reader, Result
    <2> QED
      BY <1>4, <2>1
  <1>6. ASSUME NEW n \in (low + 1)..high, n - 1 \in S
        PROVE  n \in S
    <2>1. n \in 1..Len(tlv) /\ n \in at..Len(tlv) /\ n - 1 \in low..high /\ n \in low..high
      BY <1>4
    <2>2. Follows(f[n - 1], g[n - 1])
      BY <1>6
    <2> DEFINE x == f[n - 1].result.contents
               y == g[n - 1].result.contents
    <2>3. x \in Contents /\ y \in Contents
      BY <1>1, <1>3, <2>1 DEF ObjectAtRun, Readers, Results
    <2>4. Ahead(x, y) /\ f[n - 1].at = g[n - 1].at
      BY <2>2 DEF Follows, Succeeds
    <2>5. f[n] = IF f[n - 1].at = n THEN ReadObject(tlv, n, x, operation, check) ELSE f[n - 1]
      BY <1>1, <2>1 DEF ObjectAtRun
    <2>6. g[n] = IF g[n - 1].at = n THEN ReadObject(tlv, n, y, operation, update) ELSE g[n - 1]
      BY <1>3, <2>1 DEF ObjectAtRun
    <2> HIDE DEF x, y
    <2>7. Follows(ReadObject(tlv, n, x, operation, check), ReadObject(tlv, n, y, operation, update))
      BY <2>1, <2>3, <2>4, ReadObjectFollows
    <2>8. Follows(f[n], g[n])
      BY <2>2, <2>4, <2>5, <2>6, <2>7
    <2> QED
      BY <2>1, <2>8
  <1> HIDE DEF S, low, high
  <1>7. \A n \in low..high : n \in S
    BY <1>4, <1>5, <1>6, RangeInduction
  <1>8. high \in low..high
    BY <1>4
  <1>9. Follows(f[Len(tlv)], g[Len(tlv)])
    BY <1>7, <1>8 DEF S, high
  <1> QED
    BY <1>1, <1>3, <1>9 DEF Follows, ObjectAtRun

LEMMA ReadResourceInstanceFollows ==
    ASSUME NEW tlv \in Seq(Records), NEW n \in 1..Len(tlv), NEW c \in Contents, NEW d \in Contents,
           Ahead(c, d), NEW id \in Identifiers, NEW operation,
           NEW check \in BOOLEAN, NEW update \in BOOLEAN, Passes(check, update)
    PROVE  Follows(ReadResourceInstance(tlv, n, c, id, operation, check),
                   ReadResourceInstance(tlv, n, d, id, operation, update))
  <1> DEFINE x == ReadResourceInstance(tlv, n, c, id, operation, check)
             y == ReadResourceInstance(tlv, n, d, id, operation, update)
             slot == <<id, tlv[n].id>>
             v == tlv[n].value
  <1> HIDE DEF Contents, Slots
  <1>1. /\ tlv[n].id \in Identifiers /\ n + 1 \in 1..(Len(tlv) + 1)
        /\ tlv[n].type \in {"OI", "RI", "M", "R"}
        /\ v \in Values
    BY RecordIs
  <1>2. slot = <<id, tlv[n].id>> /\ v = tlv[n].value
    OBVIOUS
  <1>3. x = ReadResourceInstance(tlv, n, c, id, operation, check)
    OBVIOUS
  <1>4. y = ReadResourceInstance(tlv, n, d, id, operation, update)
    OBVIOUS
  <1> SUFFICES Follows(x, y)
    OBVIOUS
  <1> HIDE DEF slot, v, x, y
  <1>5. /\ tlv[n].type # "RI" =>
               x = Invalid(tlv, c)
        /\ tlv[n].type = "RI" /\ slot \in DOMAIN c =>
               x = After(tlv, n, Found(c, slot, v, check))
        /\ tlv[n].type = "RI" /\ slot \notin DOMAIN c =>
               x = After(tlv, n, Result(IF operation = "Post" THEN "NotAllowed" ELSE "NotFound", c))
    BY <1>2, <1>3, ReadResourceInstanceIs
  <1>6. /\ tlv[n].type # "RI" =>
               y = Invalid(tlv, d)
        /\ tlv[n].type = "RI" /\ slot \in DOMAIN d =>
               y = After(tlv, n, Found(d, slot, v, update))
        /\ tlv[n].type = "RI" /\ slot \notin DOMAIN d =>
               y = After(tlv, n, Result(IF operation = "Post" THEN "NotAllowed" ELSE "NotFound", d))
    BY <1>2, <1>4, ReadResourceInstanceIs
  <1>7. DOMAIN c \subseteq DOMAIN d
    BY DEF Ahead
  <1>8. CASE tlv[n].type # "RI"
    <2>1. x = Invalid(tlv, c) /\ y = Invalid(tlv, d)
      BY <1>5, <1>6, <1>8
    <2> QED
      BY <2>1, InvalidFollows
  <1>9. CASE tlv[n].type = "RI" /\ slot \in DOMAIN c
    <2>1. /\ x = After(tlv, n, Found(c, slot, v, check))
          /\ y = After(tlv, n, Found(d, slot, v, update))
      BY <1>5, <1>6, <1>7, <1>9
    <2>2. slot \in DOMAIN d
      BY <1>7, <1>9
    <2> QED
      BY <1>1, <2>1, <2>2, FoundFollows, AfterFollows
  <1> DEFINE error == IF operation = "Post" THEN "NotAllowed" ELSE "NotFound"
  <1>10. CASE tlv[n].type = "RI" /\ slot \notin DOMAIN c /\ slot \notin DOMAIN d
    <2>1. x = After(tlv, n, Result(error, c)) /\ y = After(tlv, n, Result(error, d))
      BY <1>5, <1>6, <1>10
    <2> HIDE DEF error
    <2> QED
      BY <2>1, ResultFollows, AfterFollows
  <1>11. CASE tlv[n].type = "RI" /\ slot \notin DOMAIN c /\ slot \in DOMAIN d
    <2>1. x = After(tlv, n, Result(error, c)) /\ y = After(tlv, n, Found(d, slot, v, update))
      BY <1>5, <1>6, <1>11
    <2>2. /\ Found(d, slot, v, update).error = "None"
          /\ Ahead(d, Found(d, slot, v, update).contents)
      BY <1>1, <1>11, UpdatedIs DEF Passes
    <2>3. Ahead(c, Found(d, slot, v, update).contents)
      BY <2>2, AheadTransitive
    <2>4. Succeeds(Result(error, c), Found(d, slot, v, update))
      <3>1. Result(error, c).contents = c
        BY ResultIs
      <3>2. error # "None"
        BY DEF error
      <3>3. Result(error, c).error = error
        BY ResultIs
      <3> QED
        BY <2>2, <2>3, <3>1, Zenon DEF Succeeds
    <2> QED
      BY <2>1, <2>4, AfterFollows
  <1> QED
    BY <1>8, <1>9, <1>10, <1>11

LEMMA DeserializeResourceAtFollows ==
    ASSUME NEW tlv \in Seq(Records), NEW at \in 1..(Len(tlv) + 1), NEW c \in Contents,
           NEW d \in Contents, Ahead(c, d),
           NEW id \in Identifiers, NEW operation,
           NEW check \in BOOLEAN, NEW update \in BOOLEAN, Passes(check, update)
    PROVE  Succeeds(DeserializeResourceAt(tlv, at, c, id, operation, check),
                    DeserializeResourceAt(tlv, at, d, id, operation, update))
  <1> DEFINE low == at - 1
             high == Len(tlv)
  <1> HIDE DEF Contents
  <1>1. PICK f : ResourceAtRun(f, tlv, at, c, id, operation, check)
    BY DeserializeResourceAtRuns
  <1>3. PICK g : ResourceAtRun(g, tlv, at, d, id, operation, update)
    BY DeserializeResourceAtRuns
  <1> DEFINE S == {n \in low..high : Follows(f[n], g[n])}
  <1>4. low \in Int /\ high \in Int /\ low <= high /\ low + 1 = at /\ at \in Int
    OBVIOUS
  <1>5. low \in S
    <2>1. Follows(f[low], g[low])
      BY <1>1, <1>3 DEF ResourceAtRun, Follows, Succeeds, Reader, Result
    <2> QED
      BY <1>4, <2>1
  <1>6. ASSUME NEW n \in (low + 1)..high, n - 1 \in S
        PROVE  n \in S
    <2>1. n \in 1..Len(tlv) /\ n \in at..Len(tlv) /\ n - 1 \in low..high /\ n \in low..high
      BY <1>4
    <2>2. Follows(f[n - 1], g[n - 1])
      BY <1>6
    <2> DEFINE x == f[n - 1].result.contents
               y == g[n - 1].result.contents
    <2>3. x \in Contents /\ y \in Contents
      BY <1>1, <1>3, <2>1 DEF ResourceAtRun, Readers, Results
    <2>4. Ahead(x, y) /\ f[n - 1].at = g[n - 1].at
      BY <2>2 DEF Follows, Succeeds
    <2>5. f[n] = IF f[n - 1].at = n THEN ReadResourceInstance(tlv, n, x, id, operation, check) ELSE f[n - 1]
      BY <1>1, <2>1 DEF ResourceAtRun
    <2>6. g[n] = IF g[n - 1].at = n THEN ReadResourceInstance(tlv, n, y, id, operation, update) ELSE g[n - 1]
      BY <1>3, <2>1 DEF ResourceAtRun
    <2> HIDE DEF x, y
    <2>7. Follows(ReadResourceInstance(tlv, n, x, id, operation, check), ReadResourceInstance(tlv, n, y, id, operation, update))
      BY <2>1, <2>3, <2>4, ReadResourceInstanceFollows
    <2>8. Follows(f[n], g[n])
      BY <2>2, <2>4, <2>5, <2>6, <2>7
    <2> QED
      BY <2>1, <2>8
  <1> HIDE DEF S, low, high
  <1>7. \A n \in low..high : n \in S
    BY <1>4, <1>5, <1>6, RangeInduction
  <1>8. high \in low..high
    BY <1>4
  <1>9. Follows(f[Len(tlv)], g[Len(tlv)])
    BY <1>7, <1>8 DEF S, high
  <1> QED
    BY <1>1, <1>3, <1>9 DEF Follows, ResourceAtRun

-----------------------------------------------------------------------------
(* Payloads: both passes.                                                  *)

\* What a payload makes of the contents: they grow, and if it is refused no value changes.
Written(c, r, tlv, operation) ==
    /\ r.error \in Errors
    /\ r.contents \in Contents
    /\ Grown(c, r.contents, tlv, operation, TRUE)
    /\ r.error # "None" => Grown(c, r.contents, tlv, operation, FALSE)

LEMMA CheckedGrows ==
    ASSUME NEW c, NEW d, NEW tlv, NEW operation, NEW check, NEW update, Passes(check, update),
           Grown(c, d, tlv, operation, check)
    PROVE  Grown(c, d, tlv, operation, update)
  BY DEF Grown, Passes

LEMMA RefusedAtOnce ==
    ASSUME NEW tlv, NEW c \in Contents, NEW operation
    PROVE  Written(c, Result("NotValid", c), tlv, operation)
  <1> HIDE DEF Contents
  <1>1. Grown(c, c, tlv, operation, TRUE) /\ Grown(c, c, tlv, operation, FALSE)
    BY GrownReflexive
  <1> QED
    BY <1>1 DEF Written, Result, Errors

LEMMA TwoPasses ==
    ASSUME NEW tlv, NEW c \in Contents, NEW operation, NEW check, NEW update,
           Passes(check, update),
           NEW checked \in Results(c, tlv, operation, check), NEW updated,
           Ahead(c, checked.contents) =>
               /\ updated \in Results(checked.contents, tlv, operation, update)
               /\ Succeeds(checked, updated)
    PROVE  Written(c, IF checked.error = "None" THEN updated ELSE checked, tlv, operation)
  <1> HIDE DEF Contents
  <1>1. /\ checked.error \in Errors
        /\ checked.contents \in Contents
        /\ Grown(c, checked.contents, tlv, operation, check)
    BY DEF Results
  <1>2. /\ updated \in Results(checked.contents, tlv, operation, update)
        /\ Succeeds(checked, updated)
    BY <1>1, GrownIsAhead
  <1>3. Grown(c, checked.contents, tlv, operation, update)
    BY <1>1, CheckedGrows
  <1>4. /\ updated.error \in Errors
        /\ updated.contents \in Contents
        /\ Grown(checked.contents, updated.contents, tlv, operation, update)
    BY <1>2 DEF Results
  <1>5. Grown(c, updated.contents, tlv, operation, update)
    BY <1>3, <1>4, GrownTransitive
  <1>6. checked.error = "None" => updated.error = "None"
    BY <1>2 DEF Succeeds
  <1>7. ASSUME NEW d
        PROVE  /\ Grown(c, d, tlv, operation, update) => Grown(c, d, tlv, operation, TRUE)
               /\ Grown(c, d, tlv, operation, check) => Grown(c, d, tlv, operation, FALSE)
    BY DEF Grown, Passes
  <1> QED
    BY <1>1, <1>3, <1>4, <1>5, <1>6, <1>7 DEF Written

\* A payload for an object instance, of any records and for any contents, leaves
\* resources and types in their place, adds what a POST may add, gives values that it
\* sends, and gives none if it is refused (deserialize_resources()).
THEOREM DeserializeResourcesWrites ==
    ASSUME NEW tlv \in Seq(Records), tlv # <<>>, NEW c \in Contents, NEW operation
    PROVE  Written(c, DeserializeResources(tlv, c, operation), tlv, operation)
  <1> HIDE DEF Contents
  <1>1. PICK check \in BOOLEAN : check = FALSE
    OBVIOUS
  <1>2. PICK update \in BOOLEAN : update = TRUE
    OBVIOUS
  <1> DEFINE checked == DeserializeAt(tlv, 1, c, operation, check)
             updated == DeserializeAt(tlv, 1, checked.contents, operation, update)
  <1>3. Passes(check, update)
    BY <1>1, <1>2 DEF Passes
  <1>4. 1 \in 1..(Len(tlv) + 1)
    OBVIOUS
  <1>5. checked \in Results(c, tlv, operation, check)
    BY <1>4, DeserializeAtGrows
  <1>6. checked.contents \in Contents
    BY <1>5 DEF Results
  <1>7. updated \in Results(checked.contents, tlv, operation, update)
    BY <1>4, <1>6, DeserializeAtGrows
  <1>8. Ahead(c, checked.contents) => Succeeds(checked, updated)
    BY <1>3, <1>4, <1>6, DeserializeAtFollows
  <1>9. CASE tlv[1].type \in {"R", "M"}
    <2>1. DeserializeResources(tlv, c, operation)
              = IF checked.error = "None" THEN updated ELSE checked
      <3>1. checked = DeserializeAt(tlv, 1, c, operation, FALSE)
        BY <1>1
      <3>2. updated = DeserializeAt(tlv, 1, checked.contents, operation, TRUE)
        BY <1>2
      <3> HIDE DEF checked, updated
      <3> QED
        BY <1>9, <3>1, <3>2 DEF DeserializeResources
    <2> HIDE DEF checked, updated
    <2>2. Ahead(c, checked.contents) =>
              /\ updated \in Results(checked.contents, tlv, operation, update)
              /\ Succeeds(checked, updated)
      BY <1>7, <1>8
    <2>3. Written(c, IF checked.error = "None" THEN updated ELSE checked, tlv, operation)
      BY <1>3, <1>5, <2>2, TwoPasses
    <2> QED
      BY <2>1, <2>3
  <1>10. CASE tlv[1].type \notin {"R", "M"}
    <2>1. DeserializeResources(tlv, c, operation) = Result("NotValid", c)
      BY <1>10 DEF DeserializeResources
    <2> QED
      BY <2>1, RefusedAtOnce
  <1> QED
    BY <1>9, <1>10

\* A payload for an object: the same (deserialise_object_instances()).
THEOREM DeserialiseObjectInstancesWrites ==
    ASSUME NEW tlv \in Seq(Records), tlv # <<>>, NEW c \in Contents, NEW operation
    PROVE  Written(c, DeserialiseObjectInstances(tlv, c, operation), tlv, operation)
  <1> HIDE DEF Contents
  <1>1. PICK check \in BOOLEAN : check = FALSE
    OBVIOUS
  <1>2. PICK update \in BOOLEAN : update = TRUE
    OBVIOUS
  <1> DEFINE checked == DeserializeObjectAt(tlv, 1, c, operation, check)
             updated == DeserializeObjectAt(tlv, 1, checked.contents, operation, update)
  <1>3. Passes(check, update)
    BY <1>1, <1>2 DEF Passes
  <1>4. 1 \in 1..(Len(tlv) + 1)
    OBVIOUS
  <1>5. checked \in Results(c, tlv, operation, check)
    BY <1>4, DeserializeObjectAtGrows
  <1>6. checked.contents \in Contents
    BY <1>5 DEF Results
  <1>7. updated \in Results(checked.contents, tlv, operation, update)
    BY <1>4, <1>6, DeserializeObjectAtGrows
  <1>8. Ahead(c, checked.contents) => Succeeds(checked, updated)
    BY <1>3, <1>4, <1>6, DeserializeObjectAtFollows
  <1>9. CASE tlv[1].type = "OI"
    <2>1. DeserialiseObjectInstances(tlv, c, operation)
              = IF checked.error = "None" THEN updated ELSE checked
      <3>1. checked = DeserializeObjectAt(tlv, 1, c, operation, FALSE)
        BY <1>1
      <3>2. updated = DeserializeObjectAt(tlv, 1, checked.contents, operation, TRUE)
        BY <1>2
      <3> HIDE DEF checked, updated
      <3> QED
        BY <1>9, <3>1, <3>2 DEF DeserialiseObjectInstances
    <2> HIDE DEF checked, updated
    <2>2. Ahead(c, checked.contents) =>
              /\ updated \in Results(checked.contents, tlv, operation, update)
              /\ Succeeds(checked, updated)
      BY <1>7, <1>8
    <2>3. Written(c, IF checked.error = "None" THEN updated ELSE checked, tlv, operation)
      BY <1>3, <1>5, <2>2, TwoPasses
    <2> QED
      BY <2>1, <2>3
  <1>10. CASE tlv[1].type # "OI"
    <2>1. DeserialiseObjectInstances(tlv, c, operation) = Result("NotValid", c)
      BY <1>10 DEF DeserialiseObjectInstances
    <2> QED
      BY <2>1, RefusedAtOnce
  <1> QED
    BY <1>9, <1>10

\* A payload for a resource with instances: the same, and none is added
\* (deserialize_resource_instances() of one resource).
THEOREM DeserializeResourceInstancesWrites ==
    ASSUME NEW tlv \in Seq(Records), tlv # <<>>, NEW c \in Contents,
           NEW id \in Identifiers, NEW operation
    PROVE  Written(c, DeserializeResourceInstances(tlv, c, id, operation), tlv, operation)
  <1> HIDE DEF Contents
  <1>1. PICK check \in BOOLEAN : check = FALSE
    OBVIOUS
  <1>2. PICK update \in BOOLEAN : update = TRUE
    OBVIOUS
  <1> DEFINE checked == DeserializeResourceAt(tlv, 2, c, id, operation, check)
             updated == DeserializeResourceAt(tlv, 2, checked.contents, id, operation, update)
  <1>3. Passes(check, update)
    BY <1>1, <1>2 DEF Passes
  <1>4. 2 \in 1..(Len(tlv) + 1)
    OBVIOUS
  <1>5. checked \in Results(c, tlv, operation, check)
    BY <1>4, DeserializeResourceAtGrows
  <1>6. checked.contents \in Contents
    BY <1>5 DEF Results
  <1>7. updated \in Results(checked.contents, tlv, operation, update)
    BY <1>4, <1>6, DeserializeResourceAtGrows
  <1>8. Ahead(c, checked.contents) => Succeeds(checked, updated)
    BY <1>3, <1>4, <1>6, DeserializeResourceAtFollows
  <1>9. CASE tlv[1].type = "M"
    <2>1. DeserializeResourceInstances(tlv, c, id, operation)
              = IF checked.error = "None" THEN updated ELSE checked
      <3>1. checked = DeserializeResourceAt(tlv, 2, c, id, operation, FALSE)
        BY <1>1
      <3>2. updated = DeserializeResourceAt(tlv, 2, checked.contents, id, operation, TRUE)
        BY <1>2
      <3> HIDE DEF checked, updated
      <3> QED
        BY <1>9, <3>1, <3>2 DEF DeserializeResourceInstances
    <2> HIDE DEF checked, updated
    <2>2. Ahead(c, checked.contents) =>
              /\ updated \in Results(checked.contents, tlv, operation, update)
              /\ Succeeds(checked, updated)
      BY <1>7, <1>8
    <2>3. Written(c, IF checked.error = "None" THEN updated ELSE checked, tlv, operation)
      BY <1>3, <1>5, <2>2, TwoPasses
    <2> QED
      BY <2>1, <2>3
  <1>10. CASE tlv[1].type # "M"
    <2>1. DeserializeResourceInstances(tlv, c, id, operation) = Result("NotValid", c)
      BY <1>10 DEF DeserializeResourceInstances
    <2> QED
      BY <2>1, RefusedAtOnce
  <1> QED
    BY <1>9, <1>10

-----------------------------------------------------------------------------
(* Where the values go: payloads whose records are nested as the format    *)
(* says.                                                                   *)

Within(tlv, i, j) == tlv[i].type = "M" /\ i < j /\ j <= i + tlv[i].span

\* Resource instances and nothing else are in a container, and a container ends where the
\* payload does or before. Of what precedes position at nothing is read here.
WellFormed(tlv, at) ==
    /\ \A i \in 1..(at - 1) : tlv[i].type = "OI"
    /\ \A j \in at..Len(tlv) : tlv[j].type # "OI" /\ (tlv[j].type # "M" => tlv[j].span = 0)
    /\ \A i \in at..Len(tlv) :
           tlv[i].type = "M" =>
               /\ i + tlv[i].span <= Len(tlv)
               /\ \A j \in (i + 1)..(i + tlv[i].span) : tlv[j].type = "RI"
    /\ \A j \in at..Len(tlv) : tlv[j].type = "RI" => \E i \in at..Len(tlv) : Within(tlv, i, j)

\* No container is open before position n.
Boundary(tlv, n) == \A i \in DOMAIN tlv : tlv[i].type = "M" /\ i < n => i + tlv[i].span < n

\* The record at j names slot s.
Designates(tlv, j, s) ==
    IF Len(s) = 1 THEN tlv[j].type = "R" /\ tlv[j].id = s[1]
    ELSE /\ tlv[j].type = "RI" /\ tlv[j].id = s[2]
         /\ \E i \in DOMAIN tlv : Within(tlv, i, j) /\ tlv[i].id = s[1]

LEMMA BoundaryIs ==
    ASSUME NEW tlv \in Seq(Records), NEW at \in 1..(Len(tlv) + 1), WellFormed(tlv, at)
    PROVE  /\ Boundary(tlv, at)
           /\ Boundary(tlv, Len(tlv) + 1)
           /\ \A n \in at..Len(tlv) : Boundary(tlv, n) =>
                  /\ tlv[n].type \in {"R", "M"}
                  /\ n + 1 + tlv[n].span \in (n + 1)..(Len(tlv) + 1)
                  /\ Boundary(tlv, n + 1 + tlv[n].span)
  <1>0. DOMAIN tlv = 1..Len(tlv) /\ Len(tlv) \in Nat
    OBVIOUS
  <1>1. \A i \in 1..(at - 1) : tlv[i].type # "M"
    BY DEF WellFormed
  <1>2. \A i \in 1..Len(tlv) : tlv[i].type \in {"OI", "RI", "M", "R"} /\ tlv[i].span \in Nat
    BY RecordIs
  <1>3. Boundary(tlv, at)
    BY <1>0, <1>1 DEF Boundary
  <1>4. \A i \in at..Len(tlv) : tlv[i].type = "M" => i + tlv[i].span <= Len(tlv)
    BY DEF WellFormed
  <1>5. Boundary(tlv, Len(tlv) + 1)
    BY <1>0, <1>1, <1>2, <1>4 DEF Boundary
  <1>6. ASSUME NEW n \in at..Len(tlv), Boundary(tlv, n)
        PROVE  /\ tlv[n].type \in {"R", "M"}
               /\ n + 1 + tlv[n].span \in (n + 1)..(Len(tlv) + 1)
               /\ Boundary(tlv, n + 1 + tlv[n].span)
    <2>0. n \in 1..Len(tlv)
      OBVIOUS
    <2>1. tlv[n].type # "OI" /\ (tlv[n].type # "M" => tlv[n].span = 0)
      BY DEF WellFormed
    <2>2. tlv[n].type # "RI"
      <3> SUFFICES ASSUME tlv[n].type = "RI"
                   PROVE  FALSE
        OBVIOUS
      <3>1. PICK i \in at..Len(tlv) : Within(tlv, i, n)
        BY DEF WellFormed
      <3>2. tlv[i].type = "M" /\ i < n /\ n <= i + tlv[i].span
        BY <3>1 DEF Within
      <3>3. i + tlv[i].span < n
        BY <1>0, <3>2, <1>6 DEF Boundary
      <3>4. tlv[i].span \in Nat /\ i \in Nat /\ n \in Nat
        BY <1>2, <2>0
      <3> QED
        BY <3>2, <3>3, <3>4
    <2>3. tlv[n].type \in {"R", "M"}
      BY <1>2, <2>0, <2>1, <2>2
    <2>4. tlv[n].span \in Nat /\ n + tlv[n].span <= Len(tlv)
      BY <1>2, <1>4, <2>0, <2>1
    <2>5. n + 1 + tlv[n].span \in (n + 1)..(Len(tlv) + 1)
      BY <2>4
    <2>6. ASSUME NEW i \in 1..Len(tlv), tlv[i].type = "M", i < n + 1 + tlv[n].span
          PROVE  i + tlv[i].span < n + 1 + tlv[n].span
      <3>1. CASE i < n
        <4>1. i + tlv[i].span < n /\ tlv[i].span \in Nat
          BY <1>0, <1>2, <1>6, <2>6, <3>1 DEF Boundary
        <4> QED
          BY <2>4, <4>1
      <3>2. CASE i = n
        BY <2>4, <3>2
      <3>3. CASE i > n
        <4>1. tlv[n].type = "M"
          BY <2>1, <2>4, <2>6, <3>3
        <4>2. i \in (n + 1)..(n + tlv[n].span)
          BY <2>4, <2>6, <3>3
        <4>3. tlv[i].type = "RI"
          BY <4>1, <4>2 DEF WellFormed
        <4> QED
          BY <2>6, <4>3
      <3> QED
        BY <2>0, <3>1, <3>2, <3>3
    <2> QED
      BY <1>0, <2>3, <2>5, <2>6 DEF Boundary
  <1> QED
    BY <1>3, <1>5, <1>6

LEMMA SlotsAre ==
    ASSUME NEW s \in Slots
    PROVE  \/ Len(s) = 1 /\ s = <<s[1]>>
           \/ Len(s) = 2 /\ s = <<s[1], s[2]>>
  BY DEF Slots

\* What a record read at a position names: one slot, or none.
LEMMA DesignatesIs ==
    ASSUME NEW tlv \in Seq(Records), NEW at \in 1..(Len(tlv) + 1), WellFormed(tlv, at),
           NEW n \in at..Len(tlv), Boundary(tlv, n)
    PROVE  /\ tlv[n].type = "R" => \A s \in Slots : Designates(tlv, n, s) <=> s = <<tlv[n].id>>
           /\ tlv[n].type = "M" =>
                  /\ \A s \in Slots : ~Designates(tlv, n, s)
                  /\ \A j \in (n + 1)..(n + tlv[n].span) :
                         /\ j \in 1..Len(tlv)
                         /\ tlv[j].type = "RI" /\ tlv[j].span = 0
                         /\ \A s \in Slots :
                                Designates(tlv, j, s) <=> s = <<tlv[n].id, tlv[j].id>>
           /\ \A j \in 1..(at - 1) : \A s \in Slots : ~Designates(tlv, j, s)
  <1>0. /\ DOMAIN tlv = 1..Len(tlv) /\ Len(tlv) \in Nat
        /\ n \in 1..Len(tlv)
    OBVIOUS
  <1>1. ASSUME NEW s \in Slots
        PROVE  \/ Len(s) = 1 /\ s = <<s[1]>>
               \/ Len(s) = 2 /\ s = <<s[1], s[2]>>
    BY SlotsAre
  <1>2. \A i \in 1..Len(tlv) : tlv[i].type \in {"OI", "RI", "M", "R"} /\ tlv[i].span \in Nat
    BY RecordIs
  <1>3. ASSUME tlv[n].type = "R", NEW s \in Slots
        PROVE  Designates(tlv, n, s) <=> s = <<tlv[n].id>>
    BY <1>1, <1>3 DEF Designates
  <1>4. ASSUME tlv[n].type = "M", NEW s \in Slots
        PROVE  ~Designates(tlv, n, s)
    BY <1>4 DEF Designates
  <1>5. ASSUME tlv[n].type = "M", NEW j \in (n + 1)..(n + tlv[n].span)
        PROVE  /\ j \in 1..Len(tlv)
               /\ tlv[j].type = "RI" /\ tlv[j].span = 0
               /\ \A s \in Slots : Designates(tlv, j, s) <=> s = <<tlv[n].id, tlv[j].id>>
    <2>1. n + tlv[n].span <= Len(tlv) /\ tlv[j].type = "RI"
      BY <1>5 DEF WellFormed
    <2>2. j \in 1..Len(tlv) /\ j \in at..Len(tlv)
      BY <1>0, <1>2, <2>1
    <2>3. tlv[j].span = 0
      BY <2>1, <2>2 DEF WellFormed
    <2>4. ASSUME NEW i \in 1..Len(tlv), Within(tlv, i, j)
          PROVE  i = n
      <3>1. tlv[i].type = "M" /\ i < j /\ j <= i + tlv[i].span /\ tlv[i].span \in Nat
        BY <1>2, <2>4 DEF Within
      <3>2. CASE i < n
        <4>1. i + tlv[i].span < n
          BY <1>0, <3>1, <3>2 DEF Boundary
        <4> QED
          BY <1>0, <3>1, <4>1
      <3>3. CASE i > n
        <4>1. i \in (n + 1)..(n + tlv[n].span)
          BY <1>0, <1>2, <3>1, <3>3
        <4>2. tlv[i].type = "RI"
          BY <1>5, <4>1 DEF WellFormed
        <4> QED
          BY <3>1, <4>2
      <3> QED
        BY <1>0, <3>2, <3>3
    <2>5. Within(tlv, n, j)
      BY <1>0, <1>2, <1>5 DEF Within
    <2>6. ASSUME NEW s \in Slots
          PROVE  Designates(tlv, j, s) <=> s = <<tlv[n].id, tlv[j].id>>
      <3>1. (\E i \in DOMAIN tlv : Within(tlv, i, j) /\ tlv[i].id = s[1]) <=> tlv[n].id = s[1]
        BY <1>0, <2>4, <2>5
      <3>2. CASE Len(s) = 1
        BY <1>1, <2>1, <3>2 DEF Designates
      <3>3. CASE Len(s) = 2
        <4>1. Designates(tlv, j, s) <=> tlv[j].id = s[2] /\ tlv[n].id = s[1]
          BY <2>1, <3>1, <3>3 DEF Designates
        <4> QED
          BY <1>1, <3>3, <4>1
      <3> QED
        BY <1>1, <3>2, <3>3
    <2> QED
      BY <2>1, <2>2, <2>3, <2>6
  <1>6. ASSUME NEW j \in 1..(at - 1), NEW s \in Slots
        PROVE  ~Designates(tlv, j, s)
    <2>1. tlv[j].type = "OI"
      BY DEF WellFormed
    <2> QED
      BY <2>1 DEF Designates
  <1> QED
    BY <1>3, <1>4, <1>5, <1>6

-----------------------------------------------------------------------------
(* What the contents are when the records before a position are read.      *)

\* An instance is no resource with instances, and belongs to one.
Nested(c) ==
    \A s \in DOMAIN c :
        Len(s) = 2 => ~c[s].multiple /\ <<s[1]>> \in DOMAIN c /\ c[<<s[1]>>].multiple

Old(base, s) == IF s \in DOMAIN base THEN base[s].value ELSE NoValue

\* The value of the last record before position n that names s, or the old one.
Latest(tlv, s, n, value, old) ==
    \/ /\ value = old
       /\ \A j \in DOMAIN tlv : Designates(tlv, j, s) => j >= n
    \/ \E j \in DOMAIN tlv :
           /\ j < n /\ Designates(tlv, j, s) /\ value = tlv[j].value
           /\ \A k \in DOMAIN tlv : Designates(tlv, k, s) /\ k < n => k <= j

\* Every slot that a record before position n names and that there can be is there.
Made(tlv, d, n) ==
    \A j \in DOMAIN tlv, s \in Slots :
        /\ j < n /\ Designates(tlv, j, s)
        /\ Len(s) = 2 => <<s[1]>> \in DOMAIN d /\ d[<<s[1]>>].multiple
        => s \in DOMAIN d

\* The pass that checks makes what a POST names; the pass that updates finds it made, and
\* sets what was in base.
Progress(base, tlv, operation, update, d, n) ==
    /\ Nested(d)
    /\ update =>
           /\ DOMAIN base \subseteq DOMAIN d
           /\ operation = "Post" => Made(tlv, d, Len(tlv) + 1)
           /\ \A s \in DOMAIN d : Latest(tlv, s, n, d[s].value, Old(base, s))
    /\ ~update /\ operation = "Post" => Made(tlv, d, n)

LEMMA LatestAdvances ==
    ASSUME NEW tlv \in Seq(Records), NEW s, NEW n \in Nat, NEW m \in Nat, n <= m,
           \A j \in n..(m - 1) : ~Designates(tlv, j, s),
           NEW value, NEW old, Latest(tlv, s, n, value, old)
    PROVE  Latest(tlv, s, m, value, old)
  <1>0. DOMAIN tlv \subseteq Nat
    OBVIOUS
  <1>1. CASE value = old /\ \A j \in DOMAIN tlv : Designates(tlv, j, s) => j >= n
    <2>1. \A j \in DOMAIN tlv : Designates(tlv, j, s) => j >= m
      BY <1>0, <1>1
    <2> QED
      BY <1>1, <2>1 DEF Latest
  <1>2. CASE \E j \in DOMAIN tlv :
                 /\ j < n /\ Designates(tlv, j, s) /\ value = tlv[j].value
                 /\ \A k \in DOMAIN tlv : Designates(tlv, k, s) /\ k < n => k <= j
    <2>1. PICK j \in DOMAIN tlv :
                 /\ j < n /\ Designates(tlv, j, s) /\ value = tlv[j].value
                 /\ \A k \in DOMAIN tlv : Designates(tlv, k, s) /\ k < n => k <= j
      BY <1>2
    <2>2. j < m /\ \A k \in DOMAIN tlv : Designates(tlv, k, s) /\ k < m => k <= j
      BY <1>0, <2>1
    <2> QED
      BY <2>1, <2>2 DEF Latest
  <1> QED
    BY <1>1, <1>2 DEF Latest

LEMMA LatestSet ==
    ASSUME NEW tlv \in Seq(Records), NEW s, NEW n \in 1..Len(tlv), Designates(tlv, n, s), NEW old
    PROVE  Latest(tlv, s, n + 1, tlv[n].value, old)
  <1>1. n \in DOMAIN tlv /\ DOMAIN tlv \subseteq Nat
    OBVIOUS
  <1>2. n < n + 1 /\ \A k \in DOMAIN tlv : Designates(tlv, k, s) /\ k < n + 1 => k <= n
    BY <1>1
  <1> QED
    BY <1>1, <1>2 DEF Latest

LEMMA MadeGrown ==
    ASSUME NEW tlv, NEW operation, NEW update, NEW d, NEW e, NEW n,
           Grown(d, e, tlv, operation, update), Made(tlv, d, n)
    PROVE  Made(tlv, e, n)
  <1> HIDE DEF Slots
  <1>1. /\ DOMAIN d \subseteq DOMAIN e
        /\ \A s \in DOMAIN d : e[s].multiple = d[s].multiple
        /\ \A s \in DOMAIN e : e[s].multiple => s \in DOMAIN d
    BY Zenon DEF Grown
  <1>2. ASSUME NEW j \in DOMAIN tlv, NEW s \in Slots, j < n, Designates(tlv, j, s),
               Len(s) = 2 => <<s[1]>> \in DOMAIN e /\ e[<<s[1]>>].multiple
        PROVE  s \in DOMAIN e
    <2>1. Len(s) = 2 => <<s[1]>> \in DOMAIN d /\ d[<<s[1]>>].multiple
      BY <1>1, <1>2, Zenon
    <2>2. s \in DOMAIN d
      BY <1>2, <2>1, Zenon DEF Made
    <2> QED
      BY <1>1, <2>2
  <1> QED
    BY <1>2, Zenon DEF Made

LEMMA NestedGrown ==
    ASSUME NEW tlv, NEW operation, NEW update, NEW d, NEW e,
           Grown(d, e, tlv, operation, update), Nested(d)
    PROVE  Nested(e)
  <1>1. /\ DOMAIN d \subseteq DOMAIN e
        /\ \A s \in DOMAIN d : e[s].multiple = d[s].multiple
        /\ \A s \in DOMAIN e \ DOMAIN d :
               /\ ~e[s].multiple
               /\ Len(s) = 2 => <<s[1]>> \in DOMAIN d /\ d[<<s[1]>>].multiple
    BY Zenon DEF Grown
  <1>2. \A s \in DOMAIN e :
            Len(s) = 2 => ~e[s].multiple /\ <<s[1]>> \in DOMAIN d /\ d[<<s[1]>>].multiple
    BY <1>1, Zenon DEF Nested
  <1> QED
    BY <1>1, <1>2, Zenon DEF Nested

-----------------------------------------------------------------------------
(* One record more.                                                        *)

\* Records that name nothing there is or could be.
LEMMA ProgressSkips ==
    ASSUME NEW tlv \in Seq(Records), NEW base, NEW operation, NEW update \in BOOLEAN,
           NEW d \in Contents, NEW n \in 1..(Len(tlv) + 1), NEW m \in n..(Len(tlv) + 1),
           Progress(base, tlv, operation, update, d, n),
           \A j \in n..(m - 1) : \A s \in Slots :
               Designates(tlv, j, s) =>
                   Len(s) = 2 /\ ~(<<s[1]>> \in DOMAIN d /\ d[<<s[1]>>].multiple)
    PROVE  Progress(base, tlv, operation, update, d, m)
  <1> HIDE DEF Contents, Slots
  <1>0. DOMAIN d \subseteq Slots
    BY ContentsIs
  <1>1. Nested(d)
    BY DEF Progress
  <1>2. \A s \in DOMAIN d : \A j \in n..(m - 1) : ~Designates(tlv, j, s)
    BY <1>0, <1>1, Zenon DEF Nested
  <1>3. n \in Nat /\ m \in Nat /\ n <= m
    OBVIOUS
  <1>4. ASSUME update, NEW s \in DOMAIN d
        PROVE  Latest(tlv, s, m, d[s].value, Old(base, s))
    <2>1. Latest(tlv, s, n, d[s].value, Old(base, s))
      BY <1>4 DEF Progress
    <2> QED
      BY <1>2, <1>3, <2>1, LatestAdvances
  <1>5. ASSUME Made(tlv, d, n)
        PROVE  Made(tlv, d, m)
    <2> SUFFICES ASSUME NEW j \in DOMAIN tlv, NEW s \in Slots, j < m, Designates(tlv, j, s),
                        Len(s) = 2 => <<s[1]>> \in DOMAIN d /\ d[<<s[1]>>].multiple
                 PROVE  s \in DOMAIN d
      BY Zenon DEF Made
    <2>1. j \in n..(m - 1) => FALSE
      BY Zenon
    <2>2. j < n
      BY <1>3, <2>1
    <2> QED
      BY <1>5, <2>2, Zenon DEF Made
  <1> QED
    BY <1>4, <1>5, Zenon DEF Progress

\* A record that names what is there.
LEMMA ProgressFinds ==
    ASSUME NEW tlv \in Seq(Records), NEW base, NEW operation, NEW update \in BOOLEAN,
           NEW d \in Contents, NEW n \in 1..Len(tlv),
           Progress(base, tlv, operation, update, d, n),
           NEW slot \in DOMAIN d, \A s \in Slots : Designates(tlv, n, s) <=> s = slot
    PROVE  Progress(base, tlv, operation, update,
                    Found(d, slot, tlv[n].value, update).contents, n + 1)
  <1> DEFINE value == tlv[n].value
             e == Found(d, slot, value, update).contents
  <1> HIDE DEF Contents, Slots, Values
  <1>0. DOMAIN d \subseteq Slots /\ value \in Values
    BY ContentsIs, RecordIs
  <1>1. n \in Nat /\ n + 1 \in Nat /\ n \in 1..(Len(tlv) + 1) /\ n..(n + 1 - 1) = {n}
    OBVIOUS
  <1>2. CASE update
    <2>1. e = SetLeaf(d, slot, value)
      BY <1>2 DEF Found, Result
    <2> HIDE DEF e, value
    <2>2. /\ DOMAIN e = DOMAIN d
          /\ \A s \in DOMAIN d :
                 /\ e[s].multiple = d[s].multiple
                 /\ e[s].value = IF s = slot THEN value ELSE d[s].value
      BY <1>0, <2>1, SetLeafIs
    <2>3. ASSUME NEW s \in DOMAIN e
          PROVE  Latest(tlv, s, n + 1, e[s].value, Old(base, s))
      <3>1. CASE s = slot
        <4>1. Designates(tlv, n, s)
          BY <1>0, <3>1
        <4>2. e[s].value = tlv[n].value
          BY <2>2, <3>1 DEF value
        <4> QED
          BY <4>1, <4>2, LatestSet
      <3>2. CASE s # slot
        <4>1. Latest(tlv, s, n, e[s].value, Old(base, s))
          BY <1>2, <2>2, <3>2, Zenon DEF Progress
        <4>2. \A j \in n..(n + 1 - 1) : ~Designates(tlv, j, s)
          BY <1>0, <1>1, <2>2, <3>2
        <4> QED
          BY <1>1, <4>1, <4>2, LatestAdvances
      <3> QED
        BY <3>1, <3>2
    <2>4. Nested(e)
      BY <2>2, Zenon DEF Progress, Nested
    <2>5. Made(tlv, d, Len(tlv) + 1) => Made(tlv, e, Len(tlv) + 1)
      BY <2>2, Zenon DEF Made
    <2> QED
      BY <1>2, <2>2, <2>3, <2>4, <2>5, Zenon DEF Progress, e, value
  <1>3. CASE ~update
    <2>1. e = d
      BY <1>3 DEF Found, Result
    <2> HIDE DEF e, value
    <2>2. Made(tlv, d, n) => Made(tlv, d, n + 1)
      <3> SUFFICES ASSUME Made(tlv, d, n), NEW j \in DOMAIN tlv, NEW s \in Slots, j < n + 1,
                          Designates(tlv, j, s),
                          Len(s) = 2 => <<s[1]>> \in DOMAIN d /\ d[<<s[1]>>].multiple
                   PROVE  s \in DOMAIN d
        BY Zenon DEF Made
      <3>1. CASE j = n
        BY <3>1
      <3>2. CASE j # n
        <4>1. j < n
          BY <1>1, <3>2
        <4> QED
          BY <4>1, Zenon DEF Made
      <3> QED
        BY <3>1, <3>2
    <2> QED
      BY <1>3, <2>1, <2>2, Zenon DEF Progress, e, value
  <1> QED
    BY <1>2, <1>3

\* What is made of a slot that is not there.
LEMMA MissingMakes ==
    ASSUME NEW tlv, NEW d \in Contents, NEW slot \in Slots, slot \notin DOMAIN d,
           Len(slot) = 2 => <<slot[1]>> \in DOMAIN d /\ d[<<slot[1]>>].multiple,
           NEW operation, NEW e, e = Missing(d, slot, operation).contents
    PROVE  /\ e \in Contents
           /\ Grown(d, e, tlv, operation, FALSE)
           /\ operation = "Post" => DOMAIN e = DOMAIN d \cup {slot}
  <1> HIDE DEF Contents, Slots
  <1>1. Missing(d, slot, operation) \in Results(d, tlv, operation, FALSE)
    BY MissingGrows
  <1>2. operation = "Post" => DOMAIN e = DOMAIN d \cup {slot}
    BY DEF Missing, Result, With
  <1> QED
    BY <1>1, <1>2 DEF Results

\* A record that names what is not there.
LEMMA ProgressMisses ==
    ASSUME NEW tlv \in Seq(Records), NEW base, NEW operation, NEW update \in BOOLEAN,
           NEW d \in Contents, NEW n \in 1..Len(tlv),
           Progress(base, tlv, operation, update, d, n),
           NEW slot \in Slots, slot \notin DOMAIN d,
           Len(slot) = 2 => <<slot[1]>> \in DOMAIN d /\ d[<<slot[1]>>].multiple,
           \A s \in Slots : Designates(tlv, n, s) <=> s = slot
    PROVE  Progress(base, tlv, operation, update, Missing(d, slot, operation).contents, n + 1)
  <1> DEFINE e == Missing(d, slot, operation).contents
  <1> HIDE DEF Contents, Slots
  <1> e = Missing(d, slot, operation).contents
    OBVIOUS
  <1> HIDE DEF e
  <1>0. /\ Grown(d, e, tlv, operation, FALSE)
        /\ operation = "Post" => DOMAIN e = DOMAIN d \cup {slot}
        /\ operation # "Post" => e = d
    BY MissingMakes DEF Missing, Result
  <1>1. /\ n \in Nat /\ n + 1 \in Nat /\ n..(n + 1 - 1) = {n}
        /\ n < Len(tlv) + 1 /\ n \in DOMAIN tlv /\ DOMAIN tlv \subseteq Nat
    OBVIOUS
  <1>2. DOMAIN d \subseteq Slots
    BY ContentsIs
  <1>3. Nested(d) /\ Nested(e)
    BY <1>0, NestedGrown DEF Progress
  <1>4. CASE operation = "Post" /\ update
    <2>1. Made(tlv, d, Len(tlv) + 1)
      BY <1>4 DEF Progress
    <2>2. slot \in DOMAIN d
      BY <1>1, <2>1, Zenon DEF Made
    <2> QED
      BY <2>2
  <1>5. CASE operation = "Post" /\ ~update
    <2>1. Made(tlv, d, n)
      BY <1>5 DEF Progress
    <2>2. Made(tlv, e, n)
      BY <1>0, <2>1, MadeGrown
    <2>3. Made(tlv, e, n + 1)
      <3> SUFFICES ASSUME NEW j \in DOMAIN tlv, NEW s \in Slots, j < n + 1,
                          Designates(tlv, j, s),
                          Len(s) = 2 => <<s[1]>> \in DOMAIN e /\ e[<<s[1]>>].multiple
                   PROVE  s \in DOMAIN e
        BY Zenon DEF Made
      <3>1. CASE j = n
        BY <1>0, <1>5, <3>1
      <3>2. CASE j # n
        <4>1. j < n
          BY <1>1, <3>2
        <4> QED
          BY <2>2, <4>1, Zenon DEF Made
      <3> QED
        BY <3>1, <3>2
    <2> QED
      BY <1>3, <1>5, <2>3 DEF Progress, e
  <1>6. CASE operation # "Post"
    <2>1. ASSUME update, NEW s \in DOMAIN d
          PROVE  Latest(tlv, s, n + 1, d[s].value, Old(base, s))
      <3>1. Latest(tlv, s, n, d[s].value, Old(base, s))
        BY <2>1 DEF Progress
      <3>2. \A j \in n..(n + 1 - 1) : ~Designates(tlv, j, s)
        BY <1>1, <1>2
      <3> QED
        BY <1>1, <3>1, <3>2, LatestAdvances
    <2>2. update => DOMAIN base \subseteq DOMAIN d
      BY DEF Progress
    <2> QED
      BY <1>0, <1>3, <1>6, <2>1, <2>2 DEF Progress, e
  <1> QED
    BY <1>4, <1>5, <1>6

\* A record that makes an instance it does not name.
LEMMA ProgressMakes ==
    ASSUME NEW tlv \in Seq(Records), NEW base, NEW operation, NEW update \in BOOLEAN,
           NEW d \in Contents, NEW n \in 1..(Len(tlv) + 1),
           Progress(base, tlv, operation, update, d, n),
           NEW slot \in Slots, slot \notin DOMAIN d,
           Len(slot) = 2 => <<slot[1]>> \in DOMAIN d /\ d[<<slot[1]>>].multiple
    PROVE  Progress(base, tlv, operation, update, Missing(d, slot, operation).contents, n)
  <1> DEFINE e == Missing(d, slot, operation).contents
  <1> HIDE DEF Contents, Slots
  <1> e = Missing(d, slot, operation).contents
    OBVIOUS
  <1> HIDE DEF e
  <1>0. /\ Grown(d, e, tlv, operation, FALSE)
        /\ operation = "Post" => DOMAIN e = DOMAIN d \cup {slot}
        /\ operation # "Post" => e = d
    BY MissingMakes DEF Missing, Result
  <1>1. Nested(d) /\ Nested(e)
    BY <1>0, NestedGrown DEF Progress
  <1>2. CASE operation # "Post"
    BY <1>0, <1>2 DEF e
  <1>3. CASE operation = "Post" /\ ~update
    <2>1. Made(tlv, d, n)
      BY <1>3 DEF Progress
    <2>2. Made(tlv, e, n)
      BY <1>0, <2>1, MadeGrown
    <2> QED
      BY <1>1, <1>3, <2>2 DEF Progress, e
  <1>4. CASE operation = "Post" /\ update
    <2>1. Made(tlv, d, Len(tlv) + 1) /\ DOMAIN base \subseteq DOMAIN d
      BY <1>4 DEF Progress
    <2>2. Made(tlv, e, Len(tlv) + 1)
      BY <1>0, <2>1, MadeGrown
    <2>3. \A s \in DOMAIN d : e[s].value = d[s].value
      BY <1>0, Zenon DEF Grown
    <2>4. e[slot].value = NoValue
      <3>1. slot \in DOMAIN e \ DOMAIN d
        BY <1>0, <1>4
      <3> QED
        BY <1>0, <3>1, Zenon DEF Grown
    <2>5. \A j \in DOMAIN tlv : ~Designates(tlv, j, slot)
      <3> SUFFICES ASSUME NEW j \in DOMAIN tlv, Designates(tlv, j, slot)
                   PROVE  FALSE
        OBVIOUS
      <3>1. j < Len(tlv) + 1
        OBVIOUS
      <3>2. slot \in DOMAIN d
        BY <2>1, <3>1, Zenon DEF Made
      <3> QED
        BY <3>2
    <2>6. Old(base, slot) = NoValue
      BY <2>1 DEF Old
    <2>7. ASSUME NEW s \in DOMAIN e
          PROVE  Latest(tlv, s, n, e[s].value, Old(base, s))
      <3>1. CASE s = slot
        BY <2>4, <2>5, <2>6, <3>1 DEF Latest
      <3>2. CASE s # slot
        <4>1. s \in DOMAIN d
          BY <1>0, <1>4, <3>2
        <4>2. Latest(tlv, s, n, d[s].value, Old(base, s))
          BY <1>4, <4>1 DEF Progress
        <4> QED
          BY <2>3, <4>1, <4>2
      <3> QED
        BY <3>1, <3>2
    <2>8. DOMAIN base \subseteq DOMAIN e
      BY <1>0, <1>4, <2>1
    <2> QED
      BY <1>1, <1>4, <2>2, <2>7, <2>8 DEF Progress, e
  <1> QED
    BY <1>2, <1>3, <1>4

-----------------------------------------------------------------------------
(* deserialize_resource_instances(): the records of a container that begins *)
(* at n, and what follows it.                                              *)

\* How far the container is read by a reader that is at a position.
Reached(tlv, n, at) == IF at < n + 1 + tlv[n].span THEN at ELSE n + 1 + tlv[n].span

LEMMA ReadInstanceProgresses ==
    ASSUME NEW tlv \in Seq(Records), NEW at \in 1..(Len(tlv) + 1), WellFormed(tlv, at),
           NEW n \in at..Len(tlv), Boundary(tlv, n), tlv[n].type = "M",
           NEW base, NEW operation, NEW update \in BOOLEAN, NEW d \in Contents,
           NEW id, id = tlv[n].id, <<id>> \in DOMAIN d, d[<<id>>].multiple,
           NEW m \in (n + 1)..Len(tlv),
           m >= n + 1 + tlv[n].span => Boundary(tlv, m),
           Progress(base, tlv, operation, update, d, Reached(tlv, n, m))
    PROVE  LET r == ReadInstance(tlv, m, d, id, operation, update)
           IN  /\ r.at \in (m + 1)..(Len(tlv) + 1)
               /\ r.at >= n + 1 + tlv[n].span => Boundary(tlv, r.at)
               /\ Progress(base, tlv, operation, update, r.result.contents,
                           Reached(tlv, n, r.at))
  <1> DEFINE r == ReadInstance(tlv, m, d, id, operation, update)
             slot == <<id, tlv[m].id>>
             end == n + 1 + tlv[n].span
  <1> HIDE DEF Contents, Slots
  <1>0. /\ n \in Nat /\ m \in Nat /\ n \in 1..Len(tlv) /\ m \in 1..Len(tlv) /\ m \in at..Len(tlv)
        /\ Len(tlv) \in Nat
    OBVIOUS
  <1>1. /\ tlv[n].id \in Identifiers /\ tlv[n].span \in Nat
        /\ tlv[m].id \in Identifiers /\ tlv[m].span \in Nat
        /\ tlv[m].type \in {"OI", "RI", "M", "R"}
    BY <1>0, RecordIs
  <1>2. end \in (n + 1)..(Len(tlv) + 1) /\ Boundary(tlv, end) /\ Boundary(tlv, Len(tlv) + 1)
    BY BoundaryIs
  <1>3. slot \in Slots /\ Len(slot) = 2 /\ slot[1] = id
    BY <1>1, SlotIs
  <1>4. slot = <<id, tlv[m].id>> /\ r = ReadInstance(tlv, m, d, id, operation, update)
    OBVIOUS
  <1>5. end = n + 1 + tlv[n].span
    OBVIOUS
  <1>6. \A k \in Int : Reached(tlv, n, k) = IF k < end THEN k ELSE end
    BY DEF Reached
  <1> HIDE DEF slot, r, end
  <1>7. /\ tlv[m].type \notin {"M", "RI"} => r = Invalid(tlv, d)
        /\ tlv[m].type = "RI" /\ slot \in DOMAIN d =>
               r = After(tlv, m, Found(d, slot, tlv[m].value, update))
        /\ tlv[m].type = "M" /\ slot \in DOMAIN d /\ operation = "Post" =>
               r = After(tlv, m, Result("None", d))
        /\ tlv[m].type = "M" /\ slot \in DOMAIN d /\ operation # "Post" =>
               r = After(tlv, m, Result("NotFound", d))
        /\ tlv[m].type \in {"M", "RI"} /\ slot \notin DOMAIN d =>
               r = After(tlv, m, Missing(d, slot, operation))
    BY <1>4, ReadInstanceIs
  <1>8. \A x : After(tlv, m, x).at = m + 1 + tlv[m].span /\ After(tlv, m, x).result = x
    BY DEF After, Reader
  <1>9. \A error : Result(error, d).contents = d
    BY ResultIs
  <1>10. SUFFICES /\ r.at \in (m + 1)..(Len(tlv) + 1)
                  /\ r.at >= end => Boundary(tlv, r.at)
                  /\ Progress(base, tlv, operation, update, r.result.contents,
                              Reached(tlv, n, r.at))
    BY DEF r, end
  <1>11. CASE m < end
    <2>1. m \in (n + 1)..(n + tlv[n].span)
      BY <1>0, <1>1, <1>5, <1>11
    <2>2. /\ tlv[m].type = "RI" /\ tlv[m].span = 0
          /\ \A s \in Slots : Designates(tlv, m, s) <=> s = slot
      BY <1>4, <2>1, DesignatesIs
    <2>3. Progress(base, tlv, operation, update, d, m)
      BY <1>0, <1>6, <1>11
    <2>4. m + 1 \in (m + 1)..(Len(tlv) + 1) /\ m + 1 <= end /\ m + 1 \in Int /\ m + 1 + 0 = m + 1
      BY <1>0, <1>2, <1>11
    <2>5. Reached(tlv, n, m + 1) = m + 1 /\ (m + 1 >= end => m + 1 = end)
      BY <1>0, <1>2, <1>6, <2>4
    <2>6. CASE slot \in DOMAIN d
      <3>1. r = After(tlv, m, Found(d, slot, tlv[m].value, update))
        BY <1>7, <2>2, <2>6
      <3>2. Progress(base, tlv, operation, update,
                     Found(d, slot, tlv[m].value, update).contents, m + 1)
        BY <1>0, <2>2, <2>3, <2>6, ProgressFinds
      <3>3. r.at = m + 1 /\ r.result = Found(d, slot, tlv[m].value, update)
        BY <1>8, <2>2, <2>4, <3>1
      <3> QED
        BY <1>2, <2>4, <2>5, <3>2, <3>3
    <2>7. CASE slot \notin DOMAIN d
      <3>1. r = After(tlv, m, Missing(d, slot, operation))
        BY <1>7, <2>2, <2>7
      <3>2. Progress(base, tlv, operation, update, Missing(d, slot, operation).contents, m + 1)
        BY <1>0, <1>3, <2>2, <2>3, <2>7, ProgressMisses
      <3>3. r.at = m + 1 /\ r.result = Missing(d, slot, operation)
        BY <1>8, <2>2, <2>4, <3>1
      <3> QED
        BY <1>2, <2>4, <2>5, <3>2, <3>3
    <2> QED
      BY <2>6, <2>7
  <1>12. CASE m >= end
    <2>1. /\ tlv[m].type \in {"R", "M"}
          /\ m + 1 + tlv[m].span \in (m + 1)..(Len(tlv) + 1)
          /\ Boundary(tlv, m + 1 + tlv[m].span)
      BY <1>0, <1>5, <1>12, BoundaryIs
    <2>2. Progress(base, tlv, operation, update, d, end)
      BY <1>0, <1>2, <1>6, <1>12
    <2>3. /\ m + 1 + tlv[m].span \in Int /\ m + 1 + tlv[m].span >= end
          /\ Len(tlv) + 1 \in Int /\ Len(tlv) + 1 >= end /\ Len(tlv) + 1 \in (m + 1)..(Len(tlv) + 1)
          /\ end \in 1..(Len(tlv) + 1)
      BY <1>0, <1>1, <1>2, <1>12
    <2>4. Reached(tlv, n, m + 1 + tlv[m].span) = end /\ Reached(tlv, n, Len(tlv) + 1) = end
      BY <1>2, <1>6, <2>3
    <2>5. CASE tlv[m].type = "R"
      <3>1. r.at = Len(tlv) + 1 /\ r.result = Result("NotValid", d)
        BY <1>7, <2>5 DEF Invalid, Reader
      <3> QED
        BY <1>2, <1>9, <2>2, <2>3, <2>4, <3>1
    <2>6. CASE tlv[m].type = "M" /\ slot \in DOMAIN d
      <3>1. r.at = m + 1 + tlv[m].span /\ r.result.contents = d
        BY <1>7, <1>8, <1>9, <2>6
      <3> QED
        BY <2>1, <2>2, <2>4, <3>1
    <2>7. CASE tlv[m].type = "M" /\ slot \notin DOMAIN d
      <3>1. r.at = m + 1 + tlv[m].span /\ r.result = Missing(d, slot, operation)
        BY <1>7, <1>8, <2>7
      <3>2. Progress(base, tlv, operation, update, Missing(d, slot, operation).contents, end)
        BY <1>3, <2>2, <2>3, <2>7, ProgressMakes
      <3> QED
        BY <2>1, <2>4, <3>1, <3>2
    <2> QED
      BY <2>1, <2>5, <2>6, <2>7
  <1> QED
    BY <1>0, <1>2, <1>11, <1>12

LEMMA DeserializeInstancesProgresses ==
    ASSUME NEW tlv \in Seq(Records), NEW at \in 1..(Len(tlv) + 1), WellFormed(tlv, at),
           NEW n \in at..Len(tlv), Boundary(tlv, n), tlv[n].type = "M",
           NEW base, NEW operation, NEW update \in BOOLEAN, NEW c \in Contents,
           NEW id, id = tlv[n].id, <<id>> \in DOMAIN c, c[<<id>>].multiple,
           Progress(base, tlv, operation, update, c, n)
    PROVE  Progress(base, tlv, operation, update,
                    DeserializeInstances(tlv, n + 1, c, id, operation, update).contents,
                    n + 1 + tlv[n].span)
  <1> DEFINE high == Len(tlv)
             end == n + 1 + tlv[n].span
             Read(r, m) == /\ r.at \in (m + 1)..(high + 1)
                           /\ r.at >= end => Boundary(tlv, r.at)
                           /\ Progress(base, tlv, operation, update, r.result.contents,
                                       Reached(tlv, n, r.at))
  <1> HIDE DEF Contents, Slots
  <1>0. /\ n \in Nat /\ n \in 1..high /\ high \in Nat /\ n <= high /\ n + 1 \in 1..(high + 1)
        /\ n + 1 - 1 = n
    OBVIOUS
  <1>1. end \in (n + 1)..(high + 1) /\ Boundary(tlv, end)
    BY BoundaryIs
  <1>2. id \in Identifiers
    BY <1>0, RecordIs
  <1>3. PICK f : InstancesRun(f, tlv, n + 1, c, id, operation, update)
    BY <1>0, <1>2, DeserializeInstancesRuns
  <1>4. /\ f \in [n..high -> Readers(c, tlv, operation, update)]
        /\ f[n] = Reader(n + 1, Result("None", c))
        /\ \A m \in (n + 1)..high :
               f[m] = IF f[m - 1].at = m
                      THEN ReadInstance(tlv, m, f[m - 1].result.contents, id, operation, update)
                      ELSE f[m - 1]
        /\ DeserializeInstances(tlv, n + 1, c, id, operation, update) = f[high].result
    BY <1>0, <1>3 DEF InstancesRun
  <1> DEFINE S == {m \in n..high : Read(f[m], m)}
  <1>5. n \in S
    <2>1. f[n].at = n + 1 /\ f[n].result.contents = c
      BY <1>4 DEF Reader, Result
    <2>2. Reached(tlv, n, n + 1) = n + 1 /\ (n + 1 >= end => n + 1 = end)
      BY <1>0, <1>1 DEF Reached
    <2>3. Progress(base, tlv, operation, update, c, n + 1)
      <3>1. \A s \in Slots : ~Designates(tlv, n, s)
        BY DesignatesIs
      <3>2. \A j \in n..(n + 1 - 1) : j = n
        BY <1>0
      <3>3. n \in 1..(Len(tlv) + 1) /\ n + 1 \in n..(Len(tlv) + 1)
        BY <1>0
      <3> QED
        BY <3>1, <3>2, <3>3, ProgressSkips
    <2>4. n + 1 \in (n + 1)..(high + 1) /\ n \in n..high
      BY <1>0
    <2> QED
      BY <1>1, <2>1, <2>2, <2>3, <2>4
  <1>6. ASSUME NEW m \in (n + 1)..high, m - 1 \in S
        PROVE  m \in S
    <2> DEFINE x == f[m - 1]
               d == x.result.contents
    <2>1. /\ m \in n..high /\ m - 1 \in n..high /\ m \in (n + 1)..Len(tlv)
          /\ m - 1 + 1 = m
      BY <1>0
    <2>2. d \in Contents /\ Grown(c, d, tlv, operation, update)
      BY <1>4, <2>1 DEF Readers, Results
    <2>3. <<id>> \in DOMAIN d /\ d[<<id>>].multiple
      BY <2>2 DEF Grown
    <2>4. Read(x, m - 1)
      BY <1>6
    <2>5. x.at \in m..(high + 1)
      BY <2>1, <2>4
    <2>6. f[m] = IF x.at = m THEN ReadInstance(tlv, m, d, id, operation, update) ELSE x
      BY <1>4
    <2> HIDE DEF x
    <2>7. CASE x.at = m
      <3>1. /\ m >= end => Boundary(tlv, m)
            /\ Progress(base, tlv, operation, update, d, Reached(tlv, n, m))
        BY <2>4, <2>7
      <3> HIDE DEF d
      <3>2. Read(ReadInstance(tlv, m, d, id, operation, update), m)
        BY <2>1, <2>2, <2>3, <3>1, ReadInstanceProgresses
      <3> QED
        BY <2>1, <2>6, <2>7, <3>2
    <2>8. CASE x.at # m
      <3>1. x.at \in (m + 1)..(high + 1)
        BY <1>0, <2>5, <2>8
      <3>2. Read(x, m)
        BY <2>4, <3>1
      <3> QED
        BY <2>1, <2>6, <2>8, <3>2
    <2> QED
      BY <2>7, <2>8
  <1> HIDE DEF S
  <1>7. \A m \in n..high : m \in S
    <2> n \in Int /\ high \in Int /\ n <= high
      BY <1>0
    <2> HIDE DEF high
    <2> QED
      BY <1>5, <1>6, RangeInduction
  <1>8. Read(f[high], high)
    <2> high \in n..high
      BY <1>0
    <2> HIDE DEF high
    <2> QED
      BY <1>7 DEF S
  <1>9. Reached(tlv, n, f[high].at) = end
    BY <1>0, <1>1, <1>8 DEF Reached
  <1> QED
    BY <1>4, <1>8, <1>9

-----------------------------------------------------------------------------
(* deserialize_resources(): the records of a payload.                      *)

LEMMA ReadResourceProgresses ==
    ASSUME NEW tlv \in Seq(Records), NEW at \in 1..(Len(tlv) + 1), WellFormed(tlv, at),
           NEW n \in at..Len(tlv), Boundary(tlv, n),
           NEW base, NEW operation, NEW update \in BOOLEAN, NEW d \in Contents,
           Progress(base, tlv, operation, update, d, n)
    PROVE  LET r == ReadResource(tlv, n, d, operation, update)
           IN  /\ r.at \in (n + 1)..(Len(tlv) + 1)
               /\ Boundary(tlv, r.at)
               /\ Progress(base, tlv, operation, update, r.result.contents, r.at)
  <1> DEFINE r == ReadResource(tlv, n, d, operation, update)
             slot == <<tlv[n].id>>
             end == n + 1 + tlv[n].span
  <1> HIDE DEF Contents, Slots
  <1>0. /\ n \in Nat /\ n \in 1..Len(tlv) /\ n \in 1..(Len(tlv) + 1) /\ Len(tlv) \in Nat
    OBVIOUS
  <1>1. tlv[n].id \in Identifiers /\ tlv[n].span \in Nat
    BY <1>0, RecordIs
  <1>2. /\ tlv[n].type \in {"R", "M"}
        /\ end \in (n + 1)..(Len(tlv) + 1)
        /\ Boundary(tlv, end)
    BY BoundaryIs
  <1>3. slot \in Slots /\ Len(slot) # 2 /\ slot = <<tlv[n].id>>
    <2>1. slot \in Slots
      BY <1>1, SlotIs
    <2> QED
      BY <2>1
  <1>4. /\ tlv[n].type = "M" /\ slot \in DOMAIN d /\ d[slot].multiple =>
               r = After(tlv, n, DeserializeInstances(tlv, n + 1, d, tlv[n].id, operation, update))
        /\ tlv[n].type = "M" /\ ~(slot \in DOMAIN d /\ d[slot].multiple) =>
               r = After(tlv, n, Result("None", d))
        /\ tlv[n].type \in {"R", "RI"} /\ slot \in DOMAIN d =>
               r = After(tlv, n, Found(d, slot, tlv[n].value, update))
        /\ tlv[n].type \in {"R", "RI"} /\ slot \notin DOMAIN d =>
               r = After(tlv, n, Missing(d, slot, operation))
    BY ReadResourceIs
  <1>5. \A x : After(tlv, n, x).at = end /\ After(tlv, n, x).result = x
    BY DEF After, Reader
  <1> SUFFICES r.at = end /\ Progress(base, tlv, operation, update, r.result.contents, end)
    BY <1>2
  <1>6. Result("None", d).contents = d
    BY ResultIs
  <1>7. tlv[n].type = "R" => end = n + 1
    <2>1. tlv[n].type # "M" => tlv[n].span = 0
      BY DEF WellFormed
    <2> QED
      BY <1>0, <2>1
  <1> HIDE DEF r, end, slot
  <1>8. CASE tlv[n].type = "M" /\ slot \in DOMAIN d /\ d[slot].multiple
    <2>1. Progress(base, tlv, operation, update,
                   DeserializeInstances(tlv, n + 1, d, tlv[n].id, operation, update).contents, end)
      BY <1>3, <1>8, DeserializeInstancesProgresses DEF end
    <2> QED
      BY <1>4, <1>5, <1>8, <2>1
  <1>9. CASE tlv[n].type = "M" /\ ~(slot \in DOMAIN d /\ d[slot].multiple)
    <2>1. ASSUME NEW j \in n..(end - 1), NEW s \in Slots, Designates(tlv, j, s)
          PROVE  Len(s) = 2 /\ ~(<<s[1]>> \in DOMAIN d /\ d[<<s[1]>>].multiple)
      <3>1. j # n
        BY <1>9, <2>1, DesignatesIs
      <3>2. j \in (n + 1)..(n + tlv[n].span)
        BY <1>0, <1>1, <1>2, <3>1 DEF end
      <3>3. s = <<tlv[n].id, tlv[j].id>>
        BY <1>9, <2>1, <3>2, DesignatesIs
      <3>4. Len(s) = 2 /\ <<s[1]>> = slot
        BY <1>3, <3>3
      <3> QED
        BY <1>9, <3>4
    <2>2. end \in n..(Len(tlv) + 1)
      BY <1>0, <1>2
    <2>3. Progress(base, tlv, operation, update, d, end)
      BY <1>0, <2>1, <2>2, ProgressSkips
    <2> QED
      BY <1>4, <1>5, <1>6, <1>9, <2>3
  <1>10. CASE tlv[n].type = "R"
    <2>1. \A s \in Slots : Designates(tlv, n, s) <=> s = slot
      BY <1>3, <1>10, DesignatesIs
    <2>2. CASE slot \in DOMAIN d
      <3>1. Progress(base, tlv, operation, update,
                     Found(d, slot, tlv[n].value, update).contents, n + 1)
        BY <1>0, <2>1, <2>2, ProgressFinds
      <3> QED
        BY <1>4, <1>5, <1>7, <1>10, <2>2, <3>1
    <2>3. CASE slot \notin DOMAIN d
      <3>1. Progress(base, tlv, operation, update, Missing(d, slot, operation).contents, n + 1)
        BY <1>0, <1>3, <2>1, <2>3, ProgressMisses
      <3> QED
        BY <1>4, <1>5, <1>7, <1>10, <2>3, <3>1
    <2> QED
      BY <2>2, <2>3
  <1> QED
    BY <1>2, <1>8, <1>9, <1>10

LEMMA DeserializeAtProgresses ==
    ASSUME NEW tlv \in Seq(Records), NEW at \in 1..(Len(tlv) + 1), WellFormed(tlv, at),
           NEW base, NEW operation, NEW update \in BOOLEAN, NEW c \in Contents,
           Progress(base, tlv, operation, update, c, at)
    PROVE  Progress(base, tlv, operation, update,
                    DeserializeAt(tlv, at, c, operation, update).contents, Len(tlv) + 1)
  <1> DEFINE low == at - 1
             high == Len(tlv)
             Read(r, n) == /\ r.at \in (n + 1)..(high + 1)
                           /\ Boundary(tlv, r.at)
                           /\ Progress(base, tlv, operation, update, r.result.contents, r.at)
  <1> HIDE DEF Contents, Slots
  <1>0. low \in Int /\ high \in Int /\ low <= high /\ low + 1 = at /\ at \in Int
    OBVIOUS
  <1>1. PICK f : AtRun(f, tlv, at, c, operation, update)
    BY DeserializeAtRuns
  <1>2. /\ f \in [low..high -> Readers(c, tlv, operation, update)]
        /\ f[low] = Reader(at, Result("None", c))
        /\ \A n \in at..high :
               f[n] = IF f[n - 1].at = n
                      THEN ReadResource(tlv, n, f[n - 1].result.contents, operation, update)
                      ELSE f[n - 1]
        /\ DeserializeAt(tlv, at, c, operation, update) = f[high].result
    BY <1>1 DEF AtRun
  <1> DEFINE S == {n \in low..high : Read(f[n], n)}
  <1>3. low \in S
    <2>1. f[low].at = at /\ f[low].result.contents = c
      BY <1>2 DEF Reader, Result
    <2>2. Boundary(tlv, at)
      BY BoundaryIs
    <2>3. at \in (low + 1)..(high + 1) /\ low \in low..high
      BY <1>0
    <2> HIDE DEF low, high
    <2> QED
      BY <2>1, <2>2, <2>3
  <1>4. ASSUME NEW n \in (low + 1)..high, n - 1 \in S
        PROVE  n \in S
    <2> DEFINE x == f[n - 1]
               d == x.result.contents
    <2>1. /\ n \in low..high /\ n - 1 \in low..high /\ n \in at..Len(tlv) /\ n - 1 + 1 = n
          /\ n \in at..high
      BY <1>0
    <2>2. d \in Contents
      BY <1>2, <2>1 DEF Readers, Results
    <2>3. Read(x, n - 1)
      BY <1>4
    <2>4. x.at \in n..(high + 1)
      BY <2>1, <2>3
    <2>5. f[n] = IF x.at = n THEN ReadResource(tlv, n, d, operation, update) ELSE x
      BY <1>2, <2>1
    <2> HIDE DEF x
    <2>6. CASE x.at = n
      <3>1. Boundary(tlv, n) /\ Progress(base, tlv, operation, update, d, n)
        BY <2>3, <2>6
      <3> HIDE DEF d
      <3>2. Read(ReadResource(tlv, n, d, operation, update), n)
        BY <2>1, <2>2, <3>1, ReadResourceProgresses
      <3> QED
        BY <2>1, <2>5, <2>6, <3>2
    <2>7. CASE x.at # n
      <3>1. x.at \in (n + 1)..(high + 1)
        BY <1>0, <2>4, <2>7
      <3>2. Read(x, n)
        BY <2>3, <3>1
      <3> QED
        BY <2>1, <2>5, <2>7, <3>2
    <2> QED
      BY <2>6, <2>7
  <1> HIDE DEF S
  <1>5. \A n \in low..high : n \in S
    <2> HIDE DEF low, high
    <2> QED
      BY <1>0, <1>3, <1>4, RangeInduction
  <1>6. Read(f[high], high)
    BY <1>0, <1>5 DEF S
  <1>7. f[high].at = high + 1
    BY <1>0, <1>6
  <1> QED
    BY <1>2, <1>6, <1>7

-----------------------------------------------------------------------------
(* Both passes.                                                            *)

\* An accepted payload leaves everywhere the value of the last record that names a slot,
\* and the value it had where none does.
Applied(c, r, tlv) ==
    r.error = "None" =>
        \A s \in DOMAIN r.contents :
            Latest(tlv, s, Len(tlv) + 1, r.contents[s].value, Old(c, s))

LEMMA DesignatesNothing ==
    ASSUME NEW tlv \in Seq(Records), NEW at \in 1..(Len(tlv) + 1), WellFormed(tlv, at),
           NEW j \in DOMAIN tlv, j < at, NEW s
    PROVE  ~Designates(tlv, j, s)
  <1>1. j \in 1..(at - 1)
    OBVIOUS
  <1>2. tlv[j].type = "OI"
    BY <1>1 DEF WellFormed
  <1> QED
    BY <1>2 DEF Designates

\* The second pass begins with what the first made.
LEMMA ProgressBegins ==
    ASSUME NEW tlv \in Seq(Records), NEW c, NEW d, NEW operation, NEW n \in Nat,
           Nested(c), Grown(c, d, tlv, operation, FALSE),
           operation = "Post" => Made(tlv, d, Len(tlv) + 1),
           \A j \in DOMAIN tlv : \A s : j < n => ~Designates(tlv, j, s)
    PROVE  \A update \in BOOLEAN : update => Progress(c, tlv, operation, update, d, n)
  <1>1. Nested(d)
    BY NestedGrown
  <1>2. DOMAIN c \subseteq DOMAIN d
    BY DEF Grown
  <1>3. ASSUME NEW s \in DOMAIN d
        PROVE  Latest(tlv, s, n, d[s].value, Old(c, s))
    <2>1. d[s].value = Old(c, s)
      BY Zenon DEF Grown, Old
    <2>2. \A j \in DOMAIN tlv : Designates(tlv, j, s) => j >= n
      <3>1. DOMAIN tlv \subseteq Nat
        OBVIOUS
      <3> QED
        BY <3>1
    <2> QED
      BY <2>1, <2>2 DEF Latest
  <1> QED
    BY <1>1, <1>2, <1>3, Zenon DEF Progress

LEMMA AppliedAt ==
    ASSUME NEW tlv \in Seq(Records), NEW at \in 1..(Len(tlv) + 1), WellFormed(tlv, at),
           NEW c \in Contents, Nested(c), NEW operation,
           NEW d, d = DeserializeAt(tlv, at, c, operation, FALSE).contents,
           NEW e, e = DeserializeAt(tlv, at, d, operation, TRUE).contents
    PROVE  \A s \in DOMAIN e : Latest(tlv, s, Len(tlv) + 1, e[s].value, Old(c, s))
  <1> HIDE DEF Contents, Slots
  <1>1. PICK check \in BOOLEAN : check = FALSE
    OBVIOUS
  <1>2. PICK update \in BOOLEAN : update = TRUE
    OBVIOUS
  <1>3. \A j \in DOMAIN tlv : \A s : j < at => ~Designates(tlv, j, s)
    BY DesignatesNothing
  <1>4. Made(tlv, c, at)
    BY <1>3, Zenon DEF Made
  <1>5. Progress(c, tlv, operation, check, c, at)
    BY <1>1, <1>4 DEF Progress
  <1>6. Progress(c, tlv, operation, check, d, Len(tlv) + 1)
    BY <1>1, <1>5, DeserializeAtProgresses
  <1>7. operation = "Post" => Made(tlv, d, Len(tlv) + 1)
    BY <1>1, <1>6 DEF Progress
  <1>8. DeserializeAt(tlv, at, c, operation, check) \in Results(c, tlv, operation, check)
    BY DeserializeAtGrows
  <1>9. d \in Contents /\ Grown(c, d, tlv, operation, FALSE)
    BY <1>1, <1>8 DEF Results
  <1>10. Progress(c, tlv, operation, update, d, at)
    <2>1. at \in Nat
      OBVIOUS
    <2> QED
      BY <1>2, <1>3, <1>7, <1>9, <2>1, ProgressBegins
  <1>11. Progress(c, tlv, operation, update, e, Len(tlv) + 1)
    BY <1>2, <1>9, <1>10, DeserializeAtProgresses
  <1> QED
    BY <1>2, <1>11 DEF Progress

\* PUT and POST to an instance: whatever was made while the payload was checked, every
\* resource has in the end the last value a record names for it, at the right place of
\* the nesting, or its old one (deserialize_resources()).
THEOREM DeserializeResourcesApplies ==
    ASSUME NEW tlv \in Seq(Records), tlv # <<>>, WellFormed(tlv, 1),
           NEW c \in Contents, Nested(c), NEW operation
    PROVE  Applied(c, DeserializeResources(tlv, c, operation), tlv)
  <1> DEFINE checked == DeserializeAt(tlv, 1, c, operation, FALSE)
             updated == DeserializeAt(tlv, 1, checked.contents, operation, TRUE)
             r == DeserializeResources(tlv, c, operation)
  <1> HIDE DEF Contents
  <1>1. \/ r = Result("NotValid", c)
        \/ r = checked /\ checked.error # "None"
        \/ r = updated
    BY Zenon DEF DeserializeResources
  <1>2. 1 \in 1..(Len(tlv) + 1)
    OBVIOUS
  <1>3. checked.contents = DeserializeAt(tlv, 1, c, operation, FALSE).contents
    OBVIOUS
  <1>4. updated.contents = DeserializeAt(tlv, 1, checked.contents, operation, TRUE).contents
    OBVIOUS
  <1> HIDE DEF checked, updated, r
  <1>5. \A s \in DOMAIN updated.contents :
            Latest(tlv, s, Len(tlv) + 1, updated.contents[s].value, Old(c, s))
    BY <1>2, <1>3, <1>4, AppliedAt
  <1>6. Result("NotValid", c).error # "None"
    BY ResultIs
  <1>7. Applied(c, r, tlv)
    BY <1>1, <1>5, <1>6, Zenon DEF Applied
  <1> QED
    BY <1>7 DEF r

-----------------------------------------------------------------------------
(* A payload for an object: the records are in one for its instance.       *)

LEMMA ObjectIsInstance ==
    ASSUME NEW tlv \in Seq(Records), Len(tlv) >= 1,
           tlv[1].type = "OI", tlv[1].id = 0, tlv[1].span = Len(tlv) - 1,
           NEW c \in Contents, NEW operation, NEW update \in BOOLEAN
    PROVE  DeserializeObjectAt(tlv, 1, c, operation, update)
               = DeserializeAt(tlv, 2, c, operation, update)
  <1> DEFINE high == Len(tlv)
             x == DeserializeAt(tlv, 2, c, operation, update)
  <1> HIDE DEF Contents
  <1>0. 1 \in 1..(high + 1) /\ high \in Nat /\ high >= 1
    OBVIOUS
  <1>1. PICK f : ObjectAtRun(f, tlv, 1, c, operation, update)
    BY <1>0, DeserializeObjectAtRuns
  <1>2. /\ f[0] = Reader(1, Result("None", c))
        /\ \A n \in 1..high :
               f[n] = IF f[n - 1].at = n
                      THEN ReadObject(tlv, n, f[n - 1].result.contents, operation, update)
                      ELSE f[n - 1]
        /\ DeserializeObjectAt(tlv, 1, c, operation, update) = f[high].result
    BY <1>1 DEF ObjectAtRun
  <1>3. f[1] = ReadObject(tlv, 1, c, operation, update)
    <2>1. f[0].at = 1 /\ f[0].result.contents = c
      BY <1>2 DEF Reader, Result
    <2> QED
      BY <1>0, <1>2, <2>1
  <1>4. f[1] = After(tlv, 1, x)
    BY <1>3, ReadObjectIs
  <1>5. f[1] = Reader(high + 1, x)
    BY <1>4 DEF After
  <1> DEFINE S == {n \in 1..high : f[n] = Reader(high + 1, x)}
  <1>6. 1 \in S
    BY <1>0, <1>5
  <1> HIDE DEF x
  <1>7. ASSUME NEW n \in (1 + 1)..high, n - 1 \in S
        PROVE  n \in S
    <2>1. f[n - 1].at = high + 1 /\ n \in 1..high
      BY <1>0, <1>7 DEF Reader
    <2> QED
      BY <1>0, <1>2, <1>7, <2>1
  <1> HIDE DEF S
  <1>8. \A n \in 1..high : n \in S
    <2> 1 \in Int /\ high \in Int /\ 1 <= high
      BY <1>0
    <2> HIDE DEF high
    <2> QED
      BY <1>6, <1>7, RangeInduction
  <1>9. f[high] = Reader(high + 1, x)
    BY <1>0, <1>8 DEF S
  <1> QED
    BY <1>2, <1>9 DEF Reader, x

\* The same for the record of an object instance around a payload, as a bootstrap server
\* sends it (deserialise_object_instances()).
THEOREM DeserialiseObjectInstancesApplies ==
    ASSUME NEW tlv \in Seq(Records), Len(tlv) >= 1, WellFormed(tlv, 2),
           tlv[1].type = "OI", tlv[1].id = 0, tlv[1].span = Len(tlv) - 1,
           NEW c \in Contents, Nested(c), NEW operation
    PROVE  Applied(c, DeserialiseObjectInstances(tlv, c, operation), tlv)
  <1> DEFINE checked == DeserializeObjectAt(tlv, 1, c, operation, FALSE)
             updated == DeserializeObjectAt(tlv, 1, checked.contents, operation, TRUE)
             r == DeserialiseObjectInstances(tlv, c, operation)
  <1> HIDE DEF Contents
  <1>1. \/ r = checked /\ checked.error # "None"
        \/ r = updated
    BY Zenon DEF DeserialiseObjectInstances
  <1>2. 2 \in 1..(Len(tlv) + 1) /\ FALSE \in BOOLEAN /\ TRUE \in BOOLEAN
    OBVIOUS
  <1> USE <1>2
  <1>3. checked = DeserializeAt(tlv, 2, c, operation, FALSE)
    BY ObjectIsInstance
  <1>4. checked.contents \in Contents
    <2>1. checked \in Results(c, tlv, operation, FALSE)
      BY <1>3, DeserializeAtGrows
    <2> QED
      BY <2>1 DEF Results
  <1>5. updated.contents = DeserializeAt(tlv, 2, checked.contents, operation, TRUE).contents
    <2> HIDE DEF checked
    <2> QED
      BY <1>4, ObjectIsInstance
  <1> HIDE DEF checked, updated, r
  <1>6. checked.contents = DeserializeAt(tlv, 2, c, operation, FALSE).contents
    BY <1>3
  <1>7. \A s \in DOMAIN updated.contents :
            Latest(tlv, s, Len(tlv) + 1, updated.contents[s].value, Old(c, s))
    BY <1>5, <1>6, AppliedAt
  <1>8. Applied(c, r, tlv)
    BY <1>1, <1>7, Zenon DEF Applied
  <1> QED
    BY <1>8 DEF r

-----------------------------------------------------------------------------
(* A payload for a multiple resource: nothing but its instances.           *)

LEMMA ReadResourceInstanceProgresses ==
    ASSUME NEW tlv \in Seq(Records), WellFormed(tlv, 1), Len(tlv) >= 1, tlv[1].type = "M",
           NEW n \in 2..Len(tlv), \A j \in 2..(n - 1) : tlv[j].type = "RI",
           NEW base, NEW update \in BOOLEAN, NEW d \in Contents,
           Progress(base, tlv, "Put", update, d, n)
    PROVE  LET r == ReadResourceInstance(tlv, n, d, tlv[1].id, "Put", update)
           IN  \/ r.at = Len(tlv) + 1 /\ r.result.error # "None"
               \/ /\ r.at = n + 1 /\ tlv[n].type = "RI"
                  /\ Progress(base, tlv, "Put", update, r.result.contents, n + 1)
  <1> DEFINE id == tlv[1].id
             r == ReadResourceInstance(tlv, n, d, id, "Put", update)
             slot == <<id, tlv[n].id>>
  <1> HIDE DEF Contents, Slots
  <1>0. /\ n \in 1..Len(tlv) /\ n \in Nat /\ Len(tlv) \in Nat /\ 1 \in 1..Len(tlv)
        /\ DOMAIN tlv = 1..Len(tlv)
    OBVIOUS
  <1>1. id \in Identifiers /\ tlv[n].id \in Identifiers
    BY <1>0, RecordIs
  <1>2. /\ slot \in Slots /\ Len(slot) = 2 /\ slot[1] = id /\ slot[2] = tlv[n].id
    BY <1>1, SlotIs
  <1>9. ASSUME NEW s \in Slots
        PROVE  \/ Len(s) = 1 /\ s = <<s[1]>>
               \/ Len(s) = 2 /\ s = <<s[1], s[2]>>
    BY SlotsAre
  <1>10. \A s : Len(s) = 1 => s # slot
    OBVIOUS
  <1>3. slot = <<id, tlv[n].id>> /\ r = ReadResourceInstance(tlv, n, d, id, "Put", update)
    OBVIOUS
  <1> DEFINE missing == Result(IF "Put" = "Post" THEN "NotAllowed" ELSE "NotFound", d)
  <1>4. /\ tlv[n].type # "RI" => r = Invalid(tlv, d)
        /\ tlv[n].type = "RI" /\ slot \in DOMAIN d =>
               r = After(tlv, n, Found(d, slot, tlv[n].value, update))
        /\ tlv[n].type = "RI" /\ slot \notin DOMAIN d => r = After(tlv, n, missing)
    BY <1>3, ReadResourceInstanceIs
  <1>5. missing.contents = d
    BY DEF Result
  <1> SUFFICES \/ r.at = Len(tlv) + 1 /\ r.result.error # "None"
               \/ /\ r.at = n + 1 /\ tlv[n].type = "RI"
                  /\ Progress(base, tlv, "Put", update, r.result.contents, n + 1)
    OBVIOUS
  <1>6. id = tlv[1].id
    OBVIOUS
  <1> HIDE DEF missing, r, slot, id
  <1>7. CASE tlv[n].type # "RI"
    BY <1>4, <1>7 DEF Invalid, Reader, Result
  <1>8. CASE tlv[n].type = "RI"
    <2>1. tlv[n].span = 0
      BY <1>0, <1>8 DEF WellFormed
    <2>2. \A x : After(tlv, n, x).at = n + 1 /\ After(tlv, n, x).result = x
      BY <1>0, <2>1 DEF After, Reader
    <2>3. \A i \in DOMAIN tlv : Within(tlv, i, n) <=> i = 1
      <3>1. PICK i \in 1..Len(tlv) : Within(tlv, i, n)
        BY <1>0, <1>8 DEF WellFormed
      <3>2. ASSUME NEW k \in 1..Len(tlv), Within(tlv, k, n)
            PROVE  k = 1
        <4>1. tlv[k].type = "M" /\ k < n
          BY <3>2 DEF Within
        <4>2. k \notin 2..(n - 1)
          BY <4>1
        <4> QED
          BY <1>0, <4>1, <4>2
      <3> QED
        BY <1>0, <3>1, <3>2
    <2>4. ASSUME NEW s \in Slots
          PROVE  Designates(tlv, n, s) <=> s = slot
      <3>1. (\E i \in DOMAIN tlv : Within(tlv, i, n) /\ tlv[i].id = s[1]) <=> id = s[1]
        BY <1>0, <1>6, <2>3
      <3>2. CASE Len(s) = 1
        <4>1. ~Designates(tlv, n, s)
          BY <1>8, <3>2 DEF Designates
        <4>2. s # slot
          BY <1>10, <3>2
        <4> QED
          BY <4>1, <4>2
      <3>3. CASE Len(s) = 2 /\ s = <<s[1], s[2]>>
        <4>1. Designates(tlv, n, s) <=> tlv[n].id = s[2] /\ id = s[1]
          BY <1>8, <3>1, <3>3 DEF Designates
        <4> QED
          BY <1>3, <3>3, <4>1
      <3> QED
        BY <1>9, <3>2, <3>3
    <2>5. CASE slot \in DOMAIN d
      <3>1. Progress(base, tlv, "Put", update, Found(d, slot, tlv[n].value, update).contents,
                     n + 1)
        BY <1>0, <2>4, <2>5, ProgressFinds
      <3> QED
        BY <1>4, <1>8, <2>2, <2>5, <3>1
    <2>6. CASE slot \notin DOMAIN d /\ <<id>> \in DOMAIN d /\ d[<<id>>].multiple
      <3>1. Missing(d, slot, "Put").contents = d
        BY DEF Missing, Result
      <3>2. Progress(base, tlv, "Put", update, Missing(d, slot, "Put").contents, n + 1)
        BY <1>0, <1>2, <2>4, <2>6, ProgressMisses
      <3> QED
        BY <1>4, <1>5, <1>8, <2>2, <2>6, <3>1, <3>2
    <2>7. CASE slot \notin DOMAIN d /\ ~(<<id>> \in DOMAIN d /\ d[<<id>>].multiple)
      <3>1. /\ \A j \in n..(n + 1 - 1) : j = n
            /\ n \in 1..(Len(tlv) + 1) /\ n + 1 \in n..(Len(tlv) + 1)
        BY <1>0
      <3>2. Progress(base, tlv, "Put", update, d, n + 1)
        BY <1>2, <2>4, <2>7, <3>1, ProgressSkips
      <3> QED
        BY <1>4, <1>5, <1>8, <2>2, <2>7, <3>2
    <2> QED
      BY <2>5, <2>6, <2>7
  <1> QED
    BY <1>7, <1>8

LEMMA DeserializeResourceAtProgresses ==
    ASSUME NEW tlv \in Seq(Records), WellFormed(tlv, 1), Len(tlv) >= 1, tlv[1].type = "M",
           NEW base, NEW update \in BOOLEAN, NEW c \in Contents,
           Progress(base, tlv, "Put", update, c, 2),
           NEW r, r = DeserializeResourceAt(tlv, 2, c, tlv[1].id, "Put", update),
           r.error = "None"
    PROVE  Progress(base, tlv, "Put", update, r.contents, Len(tlv) + 1)
  <1> DEFINE high == Len(tlv)
             id == tlv[1].id
             Read(x, n) ==
                 \/ x.at = high + 1 /\ x.result.error # "None"
                 \/ /\ x.at = n + 1 /\ \A j \in 2..n : tlv[j].type = "RI"
                    /\ Progress(base, tlv, "Put", update, x.result.contents, n + 1)
  <1> HIDE DEF Contents
  <1>0. 2 \in 1..(high + 1) /\ high \in Nat /\ high >= 1 /\ 2 - 1 = 1
    OBVIOUS
  <1>1. id \in Identifiers
    BY RecordIs
  <1>2. PICK f : ResourceAtRun(f, tlv, 2, c, id, "Put", update)
    BY <1>0, <1>1, DeserializeResourceAtRuns
  <1>3. /\ f \in [1..high -> Readers(c, tlv, "Put", update)]
        /\ f[1] = Reader(2, Result("None", c))
        /\ \A n \in 2..high :
               f[n] = IF f[n - 1].at = n
                      THEN ReadResourceInstance(tlv, n, f[n - 1].result.contents, id, "Put", update)
                      ELSE f[n - 1]
        /\ r = f[high].result
    BY <1>0, <1>2 DEF ResourceAtRun
  <1> DEFINE S == {n \in 1..high : Read(f[n], n)}
  <1>4. 1 \in S
    <2>1. f[1].at = 1 + 1 /\ f[1].result.contents = c
      BY <1>3 DEF Reader, Result
    <2>2. 1 \in 1..high /\ (\A j \in 2..1 : tlv[j].type = "RI") /\ 1 + 1 = 2
      BY <1>0
    <2> QED
      BY <2>1, <2>2
  <1>5. ASSUME NEW n \in (1 + 1)..high, n - 1 \in S
        PROVE  n \in S
    <2> DEFINE x == f[n - 1]
               d == x.result.contents
    <2>1. n \in 2..high /\ n \in 1..high /\ n - 1 \in 1..high /\ n - 1 + 1 = n /\ n # high + 1
      BY <1>0
    <2>2. d \in Contents
      BY <1>3, <2>1 DEF Readers, Results
    <2>3. Read(x, n - 1)
      BY <1>5
    <2>4. f[n] = IF x.at = n THEN ReadResourceInstance(tlv, n, d, id, "Put", update) ELSE x
      BY <1>3, <2>1
    <2> HIDE DEF x
    <2>5. CASE x.at = high + 1 /\ x.result.error # "None"
      BY <2>1, <2>4, <2>5
    <2>6. CASE /\ x.at = n /\ \A j \in 2..(n - 1) : tlv[j].type = "RI"
               /\ Progress(base, tlv, "Put", update, d, n)
      <3> HIDE DEF d
      <3> DEFINE y == ReadResourceInstance(tlv, n, d, id, "Put", update)
      <3>1. \/ y.at = high + 1 /\ y.result.error # "None"
            \/ /\ y.at = n + 1 /\ tlv[n].type = "RI"
               /\ Progress(base, tlv, "Put", update, y.result.contents, n + 1)
        BY <2>1, <2>2, <2>6, ReadResourceInstanceProgresses
      <3>2. \A j \in 2..n : j = n \/ j \in 2..(n - 1)
        BY <2>1
      <3> HIDE DEF y
      <3>3. Read(y, n)
        BY <2>6, <3>1, <3>2
      <3>4. f[n] = y
        BY <2>4, <2>6 DEF y
      <3> QED
        BY <2>1, <3>3, <3>4
    <2> QED
      BY <2>1, <2>3, <2>5, <2>6
  <1> HIDE DEF S
  <1>6. \A n \in 1..high : n \in S
    <2> 1 \in Int /\ high \in Int /\ 1 <= high
      BY <1>0
    <2> HIDE DEF high
    <2> QED
      BY <1>4, <1>5, RangeInduction
  <1>7. Read(f[high], high)
    BY <1>0, <1>6 DEF S
  <1> QED
    BY <1>3, <1>7

\* The same for PUT to a resource with instances: its container is the whole payload
\* (deserialize_resource_instances() of one resource).
THEOREM DeserializeResourceInstancesApplies ==
    ASSUME NEW tlv \in Seq(Records), tlv # <<>>, WellFormed(tlv, 1),
           NEW c \in Contents, Nested(c)
    PROVE  Applied(c, DeserializeResourceInstances(tlv, c, tlv[1].id, "Put"), tlv)
  <1> DEFINE id == tlv[1].id
             checked == DeserializeResourceAt(tlv, 2, c, id, "Put", FALSE)
             updated == DeserializeResourceAt(tlv, 2, checked.contents, id, "Put", TRUE)
             r == DeserializeResourceInstances(tlv, c, id, "Put")
  <1> HIDE DEF Contents
  <1>1. \/ r = Result("NotValid", c)
        \/ r = checked /\ checked.error # "None"
        \/ tlv[1].type = "M" /\ r = updated
    BY Zenon DEF DeserializeResourceInstances
  <1>2. Result("NotValid", c).error # "None"
    BY ResultIs
  <1>3. ASSUME tlv[1].type = "M", updated.error = "None"
        PROVE  \A s \in DOMAIN updated.contents :
                   Latest(tlv, s, Len(tlv) + 1, updated.contents[s].value, Old(c, s))
    <2>1. PICK check \in BOOLEAN : check = FALSE
      OBVIOUS
    <2>2. PICK update \in BOOLEAN : update = TRUE
      OBVIOUS
    <2>3. id \in Identifiers /\ 2 \in 1..(Len(tlv) + 1) /\ Len(tlv) >= 1
      <3>1. 1 \in 1..Len(tlv)
        OBVIOUS
      <3> QED
        BY <3>1, RecordIs
    <2>4. DeserializeResourceAt(tlv, 2, c, id, "Put", check) \in Results(c, tlv, "Put", check)
      BY <2>3, DeserializeResourceAtGrows
    <2>5. checked.contents \in Contents /\ Grown(c, checked.contents, tlv, "Put", FALSE)
      BY <2>1, <2>4 DEF Results
    <2>6. \A j \in DOMAIN tlv : \A s : j < 2 => ~Designates(tlv, j, s)
      <3>1. \A j \in DOMAIN tlv : j < 2 => j = 1
        OBVIOUS
      <3>2. \A s : ~Designates(tlv, 1, s)
        BY <1>3 DEF Designates
      <3> QED
        BY <3>1, <3>2
    <2> HIDE DEF checked
    <2>7. Progress(c, tlv, "Put", update, checked.contents, 2)
      BY <2>2, <2>5, <2>6, ProgressBegins
    <2>8. updated = DeserializeResourceAt(tlv, 2, checked.contents, tlv[1].id, "Put", update)
      BY <2>2
    <2> HIDE DEF updated
    <2>9. Progress(c, tlv, "Put", update, updated.contents, Len(tlv) + 1)
      BY <1>3, <2>3, <2>5, <2>7, <2>8, DeserializeResourceAtProgresses
    <2> QED
      BY <2>2, <2>9 DEF Progress
  <1> HIDE DEF checked, updated, r
  <1>4. Applied(c, r, tlv)
    BY <1>1, <1>2, <1>3, Zenon DEF Applied
  <1> QED
    BY <1>4 DEF r, id

-----------------------------------------------------------------------------
(* Functions defined by recursion over the subsets of a finite set.        *)

First(s) == CHOOSE x \in s : TRUE

\* Induction over subsets, each of which loses its first element.
LEMMA SubsetInduction ==
    ASSUME NEW S, IsFiniteSet(S), NEW T, {} \in T,
           \A s \in SUBSET S : s # {} /\ s \ {First(s)} \in T => s \in T
    PROVE  \A s \in SUBSET S : s \in T
  <1> DEFINE All(n) == \A s \in SUBSET S : Cardinality(s) <= n => s \in T
             high == Cardinality(S)
             N == {n \in 0..high : All(n)}
  <1>1. \A s \in SUBSET S : IsFiniteSet(s) /\ Cardinality(s) \in Nat /\ Cardinality(s) <= high
    BY FS_Subset, FS_CardinalityType
  <1>2. high \in Nat
    BY <1>1
  <1>3. 0 \in N
    <2>1. \A s \in SUBSET S : Cardinality(s) <= 0 => s = {}
      BY <1>1, FS_EmptySet
    <2> QED
      BY <1>2, <2>1
  <1>4. ASSUME NEW n \in (0 + 1)..high, n - 1 \in N
        PROVE  n \in N
    <2>1. ASSUME NEW s \in SUBSET S, Cardinality(s) <= n
          PROVE  s \in T
      <3>1. CASE s = {}
        BY <3>1
      <3>2. CASE s # {}
        <4>1. First(s) \in s
          BY <3>2 DEF First
        <4>2. Cardinality(s \ {First(s)}) = Cardinality(s) - 1
          BY <1>1, <4>1, FS_RemoveElement
        <4>3. Cardinality(s \ {First(s)}) <= n - 1
          BY <1>1, <2>1, <4>2
        <4>4. s \ {First(s)} \in T
          BY <1>4, <4>3
        <4> QED
          BY <3>2, <4>4
      <3> QED
        BY <3>1, <3>2
    <2> QED
      BY <1>2, <2>1
  <1> HIDE DEF N
  <1>5. \A n \in 0..high : n \in N
    <2> 0 \in Int /\ high \in Int /\ 0 <= high
      BY <1>2
    <2> HIDE DEF high
    <2> QED
      BY <1>3, <1>4, RangeInduction
  <1>6. All(high)
    BY <1>2, <1>5 DEF N
  <1> QED
    BY <1>1, <1>6

\* The function of the subsets that begins with start and takes an element up by step.
Folding(g, S, start, step) ==
    [s \in SUBSET S |-> IF s = {} THEN start ELSE step[<<First(s), g[s \ {First(s)}]>>]]

LEMMA FoldingExists ==
    ASSUME NEW S, IsFiniteSet(S), NEW start, NEW step
    PROVE  \E g : g = Folding(g, S, start, step)
  <1> DEFINE G(g) == Folding(g, S, start, step)
             high == Cardinality(S)
             Small(n) == {s \in SUBSET S : Cardinality(s) <= n}
             Good(g, n) == g = [s \in SUBSET S |-> g[s]] /\ \A s \in Small(n) : g[s] = G(g)[s]
             N == {n \in 0..high : \E g : Good(g, n)}
  <1>1. \A s \in SUBSET S : IsFiniteSet(s) /\ Cardinality(s) \in Nat /\ Cardinality(s) <= high
    BY FS_Subset, FS_CardinalityType
  <1>2. \A s \in SUBSET S : s # {} =>
            /\ s \ {First(s)} \in SUBSET S
            /\ Cardinality(s \ {First(s)}) = Cardinality(s) - 1
    BY <1>1, FS_RemoveElement DEF First
  <1>3. \A g, h, s : s \in SUBSET S /\ (s # {} => g[s \ {First(s)}] = h[s \ {First(s)}])
                        => G(g)[s] = G(h)[s]
    BY DEF Folding
  <1>4. \A g : G(g) = [s \in SUBSET S |-> G(g)[s]]
    BY DEF Folding
  <1>5. high \in Nat
    BY <1>1
  <1> HIDE DEF G
  <1>6. 0 \in N
    <2> DEFINE g == G({})
    <2>1. \A s \in Small(0) : s = {}
      BY <1>1, FS_EmptySet
    <2>2. \A s \in Small(0) : g[s] = G(g)[s]
      BY <1>3, <2>1
    <2>3. Good(g, 0)
      BY <1>4, <2>2
    <2> QED
      BY <1>5, <2>3
  <1>7. ASSUME NEW n \in (0 + 1)..high, n - 1 \in N
        PROVE  n \in N
    <2>1. PICK g : Good(g, n - 1)
      BY <1>7
    <2> DEFINE h == G(g)
    <2>2. ASSUME NEW s \in Small(n)
          PROVE  h[s] = G(h)[s]
      <3>1. ASSUME s # {}
            PROVE  g[s \ {First(s)}] = h[s \ {First(s)}]
        <4>1. s \ {First(s)} \in Small(n - 1)
          BY <1>1, <1>2, <3>1
        <4> QED
          BY <2>1, <4>1
      <3> QED
        BY <1>3, <3>1
    <2>3. Good(h, n)
      BY <1>4, <2>2
    <2> HIDE DEF Good, h
    <2> QED
      BY <1>5, <2>3
  <1> HIDE DEF N
  <1>8. \A n \in 0..high : n \in N
    <2> 0 \in Int /\ high \in Int /\ 0 <= high
      BY <1>5
    <2> HIDE DEF high
    <2> QED
      BY <1>6, <1>7, RangeInduction
  <1>9. \E g : Good(g, high)
    <2>1. high \in N
      <3> HIDE DEF high
      <3> QED
        BY <1>8, <1>5
    <2> HIDE DEF high, Good
    <2> QED
      BY <2>1 DEF N
  <1>10. PICK g : Good(g, high)
    BY <1>9
  <1>11. g = G(g)
    <2>1. g = [s \in SUBSET S |-> g[s]] /\ \A s \in Small(high) : g[s] = G(g)[s]
      BY <1>10
    <2>2. \A s \in SUBSET S : s \in Small(high)
      BY <1>1
    <2> HIDE DEF Good, Small, high
    <2>3. \A s \in SUBSET S : g[s] = G(g)[s]
      BY <2>1, <2>2
    <2> QED
      BY <1>4, <2>1, <2>3
  <1> QED
    BY <1>11 DEF G

\* It stays in X if the steps do.
LEMMA FoldingStays ==
    ASSUME NEW S, IsFiniteSet(S), NEW X, NEW start \in X,
           NEW step, \A x \in S, v \in X : step[<<x, v>>] \in X,
           NEW g, g = Folding(g, S, start, step)
    PROVE  g \in [SUBSET S -> X]
  <1> DEFINE T == {s \in SUBSET S : g[s] \in X}
  <1>1. \A s \in SUBSET S :
            g[s] = IF s = {} THEN start ELSE step[<<First(s), g[s \ {First(s)}]>>]
    BY DEF Folding
  <1>2. {} \in T
    BY <1>1
  <1>3. \A s \in SUBSET S : s # {} /\ s \ {First(s)} \in T => s \in T
    <2> SUFFICES ASSUME NEW s \in SUBSET S, s # {}, s \ {First(s)} \in T
                 PROVE  g[s] \in X
      OBVIOUS
    <2>1. First(s) \in S
      BY DEF First
    <2> QED
      BY <1>1, <2>1
  <1> HIDE DEF T
  <1>4. \A s \in SUBSET S : s \in T
    BY <1>2, <1>3, SubsetInduction
  <1>5. g = [s \in SUBSET S |-> g[s]]
    BY DEF Folding
  <1> QED
    BY <1>4, <1>5 DEF T

-----------------------------------------------------------------------------
(* What the contents are written to.                                       *)

LEMMA SlotsAreFinite == IsFiniteSet(Slots)
  <1> DEFINE I == Identifiers \cup {NoId}
  <1>1. IsFiniteSet(I)
    <2>1. IsFiniteSet(Identifiers)
      <3> DEFINE high == 65535
      <3>1. high \in Int /\ 0 \in Int
        OBVIOUS
      <3>2. Identifiers = 0..high
        BY DEF Identifiers
      <3> HIDE DEF high
      <3> QED
        BY <3>1, <3>2, FS_Interval
    <2>2. IsFiniteSet({NoId})
      BY FS_Singleton
    <2> HIDE DEF Identifiers
    <2> QED
      BY <2>1, <2>2, FS_Union
  <1>2. Identifiers \subseteq I
    OBVIOUS
  <1> HIDE DEF I
  <1>3. IsFiniteSet({<<i>> : i \in I})
    <2> DEFINE T == {<<i>> : i \in I}
               f == [i \in I |-> <<i>>]
    <2>1. f \in Surjection(I, T)
      BY DEF Surjection
    <2> HIDE DEF f, T
    <2>2. IsFiniteSet(T)
      BY <1>1, <2>1, FS_Surjection
    <2> QED
      BY <2>2 DEF T
  <1>4. IsFiniteSet(I \X I)
    BY <1>1, FS_Product
  <1>5. IsFiniteSet({<<i>> : i \in I} \cup (I \X I))
    BY <1>3, <1>4, FS_Union
  <1>6. Slots \subseteq {<<i>> : i \in I} \cup (I \X I)
    BY <1>2 DEF Slots, I
  <1> QED
    BY <1>5, <1>6, FS_Subset

LEMMA ValueIs ==
    ASSUME NEW leaf \in Leaves
    PROVE  SerializeValue(leaf) \in Values
  <1>1. leaf.value \in Values
    BY DEF Leaves
  <1>2. GetValueInt(leaf.value) \in Int
    BY <1>1 DEF GetValueInt, Values, NoValue
  <1> QED
    <2>1. GetValueInt(leaf.value) % 256 \in Int
      BY <1>2
    <2> HIDE DEF GetValueInt
    <2>2. \A v \in Int : Binary(v) \in Values
      BY DEF Values, Binary
    <2>3. CASE leaf.type = "BOOLEAN"
      BY <2>1, <2>2, <2>3 DEF SerializeValue
    <2>4. CASE leaf.type \in IntegerTypes \ {"BOOLEAN"}
      BY <1>2, <2>2, <2>4 DEF SerializeValue
    <2>5. CASE leaf.type \notin IntegerTypes
      BY <1>1, <2>5 DEF SerializeValue, IntegerTypes
    <2> QED
      BY <2>3, <2>4, <2>5

\* The record of a slot, in a container or not.
InstanceRecord(c, slot) == Record("RI", slot[2], 0, SerializeValue(c[slot]))
ContainerRecord(c, id) == Record("M", id, Cardinality(InstancesOf(c, id)), NoValue)
ResourceRecord(c, slot) == Record("R", slot[1], 0, SerializeValue(c[slot]))

LEMMA RecordsAre ==
    ASSUME NEW c \in Contents
    PROVE  /\ \A slot \in DOMAIN c :
                  Len(slot) = 2 =>
                      /\ InstanceRecord(c, slot) \in Records
                      /\ slot[1] \in Identifiers /\ slot[2] \in Identifiers
           /\ \A slot \in DOMAIN c :
                  Len(slot) = 1 /\ slot[1] \in Identifiers => ResourceRecord(c, slot) \in Records
           /\ \A id \in Identifiers :
                  /\ IsFiniteSet(InstancesOf(c, id))
                  /\ Cardinality(InstancesOf(c, id)) \in Nat
                  /\ ContainerRecord(c, id) \in Records
           /\ IsFiniteSet({slot \in DOMAIN c : Len(slot) = 1})
  <1>1. DOMAIN c \subseteq Slots /\ \A slot \in DOMAIN c : c[slot] \in Leaves
    BY ContentsIs
  <1>2. IsFiniteSet(DOMAIN c)
    BY <1>1, SlotsAreFinite, FS_Subset
  <1> HIDE DEF Contents
  <1>3. \A slot \in DOMAIN c : SerializeValue(c[slot]) \in Values
    BY <1>1, ValueIs
  <1>4. \A type \in {"OI", "RI", "M", "R"}, id \in Identifiers, span \in Nat, value \in Values :
            Record(type, id, span, value) \in Records
    BY TypeCodes DEF Record, Records
  <1>5. ASSUME NEW slot \in DOMAIN c, Len(slot) = 2
        PROVE  slot[1] \in Identifiers /\ slot[2] \in Identifiers
    <2>1. slot \in Slots
      BY <1>1
    <2> QED
      BY <1>5, <2>1 DEF Slots
  <1>6. ASSUME NEW id \in Identifiers
        PROVE  IsFiniteSet(InstancesOf(c, id)) /\ Cardinality(InstancesOf(c, id)) \in Nat
    <2>1. InstancesOf(c, id) \subseteq DOMAIN c
      BY DEF InstancesOf
    <2> QED
      BY <1>2, <2>1, FS_Subset, FS_CardinalityType
  <1>7. IsFiniteSet({slot \in DOMAIN c : Len(slot) = 1})
    <2>1. {slot \in DOMAIN c : Len(slot) = 1} \subseteq DOMAIN c
      OBVIOUS
    <2> QED
      BY <1>2, <2>1, FS_Subset
  <1>8. NoValue \in Values /\ 0 \in Nat
    BY DEF Values
  <1> HIDE DEF Records, Identifiers, Values
  <1>9. \A slot \in DOMAIN c : Len(slot) = 2 => InstanceRecord(c, slot) \in Records
    BY <1>3, <1>4, <1>5, <1>8 DEF InstanceRecord
  <1>10. \A slot \in DOMAIN c :
             Len(slot) = 1 /\ slot[1] \in Identifiers => ResourceRecord(c, slot) \in Records
    BY <1>3, <1>4, <1>8 DEF ResourceRecord
  <1>11. \A id \in Identifiers : ContainerRecord(c, id) \in Records
    BY <1>4, <1>6, <1>8 DEF ContainerRecord
  <1> QED
    BY <1>5, <1>6, <1>7, <1>9, <1>10, <1>11

\* f are the records after some of the instances.
InstancesWritten(f, c, id) ==
    LET S == InstancesOf(c, id) IN
    /\ f[{}] = <<ContainerRecord(c, id)>>
    /\ \A s \in SUBSET S :
           s # {} => f[s] = Append(f[s \ {First(s)}], InstanceRecord(c, First(s)))
    /\ SerializeMultipleResource(c, id) = f[S]

LEMMA MultipleIsWritten ==
    ASSUME NEW c \in Contents, NEW id \in Identifiers
    PROVE  \E f : InstancesWritten(f, c, id)
  <1> DEFINE S == InstancesOf(c, id)
             start == <<ContainerRecord(c, id)>>
             X == Seq(Records)
             Raw(g) == [s \in SUBSET S |->
                           IF s = {} THEN start
                           ELSE Append(g[s \ {First(s)}], InstanceRecord(c, First(s)))]
             step == [p \in S \X X |-> Append(p[2], InstanceRecord(c, p[1]))]
             f == CHOOSE g : g = Raw(g)
  <1> HIDE DEF Contents, Records, Identifiers
  <1>1. SerializeMultipleResource(c, id) = f[S]
    BY DEF SerializeMultipleResource, FoldSet, MapThenFoldSet, First, InstanceRecord,
           ContainerRecord
  <1>2. IsFiniteSet(S) /\ ContainerRecord(c, id) \in Records
    BY RecordsAre
  <1>3. start \in X
    BY <1>2
  <1>4. \A x \in S : InstanceRecord(c, x) \in Records
    BY RecordsAre DEF InstancesOf
  <1> HIDE DEF S, start
  <1>5. \A x \in S, v \in X : step[<<x, v>>] = Append(v, InstanceRecord(c, x))
    OBVIOUS
  <1>6. \A x \in S, v \in X : step[<<x, v>>] \in X
    <2> SUFFICES ASSUME NEW x \in S, NEW v \in Seq(Records)
                 PROVE  Append(v, InstanceRecord(c, x)) \in Seq(Records)
      BY <1>5
    <2> QED
      BY <1>4
  <1> HIDE DEF step, X
  <1>7. PICK g : g = Folding(g, S, start, step)
    BY <1>2, FoldingExists
  <1>8. g \in [SUBSET S -> X]
    BY <1>2, <1>3, <1>6, <1>7, FoldingStays
  <1>9. g = Raw(g)
    <2>1. \A s \in SUBSET S : g[s] = Raw(g)[s]
      <3> SUFFICES ASSUME NEW s \in SUBSET S
                   PROVE  g[s] = IF s = {} THEN start
                                 ELSE Append(g[s \ {First(s)}], InstanceRecord(c, First(s)))
        OBVIOUS
      <3>1. g[s] = IF s = {} THEN start ELSE step[<<First(s), g[s \ {First(s)}]>>]
        BY <1>7, Zenon DEF Folding
      <3>2. s # {} => First(s) \in S
        BY DEF First
      <3>3. g[s \ {First(s)}] \in X
        BY <1>8
      <3> QED
        BY <1>5, <3>1, <3>2, <3>3
    <2>2. g = [s \in SUBSET S |-> g[s]]
      BY <1>8
    <2> QED
      BY <2>1, <2>2
  <1>10. f = Raw(f)
    BY <1>9
  <1> HIDE DEF f
  <1>11. /\ f[{}] = start
         /\ \A s \in SUBSET S :
                s # {} => f[s] = Append(f[s \ {First(s)}], InstanceRecord(c, First(s)))
    BY <1>10
  <1> QED
    BY <1>1, <1>11 DEF InstancesWritten, S, start

\* The records of a container whose resource has the instances in s so far.
Filled(q, c, id, s) ==
    /\ q \in Seq(Records)
    /\ Len(q) = 1 + Cardinality(s)
    /\ q[1] = ContainerRecord(c, id)
    /\ \A j \in 2..Len(q) : \E slot \in s : q[j] = InstanceRecord(c, slot)
    /\ \A slot \in s : \E j \in 2..Len(q) : q[j] = InstanceRecord(c, slot)

LEMMA AppendIs ==
    ASSUME NEW R, NEW q \in Seq(R), NEW r \in R
    PROVE  /\ Append(q, r) \in Seq(R) /\ Len(Append(q, r)) = Len(q) + 1
           /\ \A j \in 1..Len(q) : Append(q, r)[j] = q[j]
           /\ Append(q, r)[Len(q) + 1] = r
  BY AppendProperties

LEMMA FilledOnceMore ==
    ASSUME NEW q, NEW c, NEW id, NEW s, NEW x \in s, IsFiniteSet(s), Filled(q, c, id, s \ {x}),
           InstanceRecord(c, x) \in Records
    PROVE  Filled(Append(q, InstanceRecord(c, x)), c, id, s)
  <1> DEFINE r == InstanceRecord(c, x)
             t == Append(q, r)
  <1>1. q \in Seq(Records) /\ Len(q) = 1 + Cardinality(s \ {x}) /\ q[1] = ContainerRecord(c, id)
    BY DEF Filled
  <1>2. /\ Cardinality(s) \in Nat /\ Cardinality(s \ {x}) \in Nat
        /\ Cardinality(s \ {x}) = Cardinality(s) - 1
    BY FS_RemoveElement, FS_CardinalityType
  <1> HIDE DEF Records
  <1>3. r \in Records
    OBVIOUS
  <1>4. \A slot : slot \in s <=> slot = x \/ slot \in s \ {x}
    OBVIOUS
  <1>5. InstanceRecord(c, x) = r
    OBVIOUS
  <1> HIDE DEF r
  <1>6. /\ t \in Seq(Records) /\ Len(t) = Len(q) + 1
        /\ \A j \in 1..Len(q) : t[j] = q[j]
        /\ t[Len(q) + 1] = r
    BY <1>1, <1>3, AppendIs
  <1> HIDE DEF t
  <1>7. Len(t) = 1 + Cardinality(s) /\ t[1] = ContainerRecord(c, id) /\ Len(q) \in Nat /\ Len(q) >= 1
    <2>1. Len(q) \in Nat /\ Len(q) >= 1 /\ Len(t) = 1 + Cardinality(s)
      BY <1>1, <1>2, <1>6
    <2>2. 1 \in 1..Len(q)
      BY <2>1
    <2>3. t[1] = q[1]
      BY <1>6, <2>2
    <2> QED
      BY <1>1, <2>1, <2>3
  <1>8. ASSUME NEW j \in 2..Len(t)
        PROVE  \E slot \in s : t[j] = InstanceRecord(c, slot)
    <2>1. CASE j = Len(q) + 1
      BY <1>5, <1>6, <2>1
    <2>2. CASE j # Len(q) + 1
      <3>1. j \in 2..Len(q) /\ t[j] = q[j]
        BY <1>6, <1>7, <2>2
      <3>2. PICK slot \in s \ {x} : q[j] = InstanceRecord(c, slot)
        BY <3>1 DEF Filled
      <3> QED
        BY <3>1, <3>2
    <2> QED
      BY <2>1, <2>2
  <1>9. ASSUME NEW slot \in s
        PROVE  \E j \in 2..Len(t) : t[j] = InstanceRecord(c, slot)
    <2>1. CASE slot = x
      <3>1. Len(q) + 1 \in 2..Len(t)
        BY <1>6, <1>7
      <3> QED
        BY <1>5, <1>6, <2>1, <3>1
    <2>2. CASE slot # x
      <3>1. PICK j \in 2..Len(q) : q[j] = InstanceRecord(c, slot)
        BY <2>2 DEF Filled
      <3>2. j \in 2..Len(t) /\ t[j] = q[j]
        BY <1>6, <1>7
      <3> QED
        BY <3>1, <3>2
    <2> QED
      BY <2>1, <2>2
  <1>10. Filled(t, c, id, s)
    BY <1>6, <1>7, <1>8, <1>9 DEF Filled
  <1> QED
    BY <1>10 DEF t, r

LEMMA ContainerIs ==
    ASSUME NEW c \in Contents, NEW id \in Identifiers
    PROVE  Filled(SerializeMultipleResource(c, id), c, id, InstancesOf(c, id))
  <1> DEFINE S == InstancesOf(c, id)
  <1> HIDE DEF Contents, Records, Identifiers
  <1>1. PICK f : InstancesWritten(f, c, id)
    BY MultipleIsWritten
  <1> DEFINE T == {s \in SUBSET S : Filled(f[s], c, id, s)}
  <1>2. IsFiniteSet(S) /\ ContainerRecord(c, id) \in Records
    BY RecordsAre
  <1>3. \A x \in S : InstanceRecord(c, x) \in Records
    BY RecordsAre DEF InstancesOf
  <1>4. {} \in T
    <2> DEFINE q == <<ContainerRecord(c, id)>>
    <2>1. f[{}] = q
      BY <1>1 DEF InstancesWritten
    <2>2. q \in Seq(Records) /\ Len(q) = 1 /\ q[1] = ContainerRecord(c, id)
      BY <1>2
    <2>3. Cardinality({}) = 0
      BY FS_EmptySet
    <2> HIDE DEF q
    <2>4. Filled(q, c, id, {})
      BY <2>2, <2>3 DEF Filled
    <2> QED
      BY <2>1, <2>4
  <1>5. ASSUME NEW s \in SUBSET S, s # {}, s \ {First(s)} \in T
        PROVE  s \in T
    <2>1. First(s) \in s /\ First(s) \in S
      BY <1>5 DEF First
    <2>2. f[s] = Append(f[s \ {First(s)}], InstanceRecord(c, First(s)))
      BY <1>1, <1>5 DEF InstancesWritten
    <2>3. IsFiniteSet(s)
      BY <1>2, FS_Subset
    <2>4. Filled(f[s \ {First(s)}], c, id, s \ {First(s)}) /\ InstanceRecord(c, First(s)) \in Records
      BY <1>3, <1>5, <2>1
    <2>5. Filled(f[s], c, id, s)
      BY <2>1, <2>2, <2>3, <2>4, FilledOnceMore
    <2> QED
      BY <2>5
  <1> HIDE DEF T, S
  <1>6. \A s \in SUBSET S : s \in T
    BY <1>2, <1>4, <1>5, SubsetInduction
  <1>7. Filled(f[S], c, id, S)
    BY <1>6 DEF T
  <1> QED
    BY <1>1, <1>7 DEF InstancesWritten, S

\* The records of some of the resources: nested as they should be, each with the value of
\* the slot it names, and one for every slot that has a value.
Serial(q, c, s) ==
    /\ q \in Seq(Records) /\ WellFormed(q, 1)
    /\ \A j \in DOMAIN q, slot \in Slots :
           Designates(q, j, slot) =>
               slot \in DOMAIN c /\ ~c[slot].multiple /\ q[j].value = SerializeValue(c[slot])
    /\ \A slot \in DOMAIN c :
           ~c[slot].multiple /\ <<slot[1]>> \in s => \E j \in DOMAIN q : Designates(q, j, slot)

LEMMA ContainerIsSerial ==
    ASSUME NEW c \in Contents, Nested(c), NEW id \in Identifiers,
           <<id>> \in DOMAIN c, c[<<id>>].multiple
    PROVE  Serial(SerializeMultipleResource(c, id), c, {<<id>>})
  <1> DEFINE S == InstancesOf(c, id)
             q == SerializeMultipleResource(c, id)
  <1> HIDE DEF Contents, Records, Identifiers, Slots
  <1>1. Filled(q, c, id, S)
    BY ContainerIs
  <1>2. Cardinality(S) \in Nat /\ \A x \in S : InstanceRecord(c, x) \in Records
    BY RecordsAre DEF InstancesOf
  <1>3. \A x : x \in S <=> x \in DOMAIN c /\ Len(x) = 2 /\ x[1] = id
    BY DEF InstancesOf
  <1>4. DOMAIN c \subseteq Slots
    BY ContentsIs
  <1>5. ContainerRecord(c, id).type = "M" /\ ContainerRecord(c, id).id = id
        /\ ContainerRecord(c, id).span = Cardinality(S)
    BY DEF ContainerRecord, Record
  <1>6. \A x : /\ InstanceRecord(c, x).type = "RI" /\ InstanceRecord(c, x).id = x[2]
               /\ InstanceRecord(c, x).span = 0
               /\ InstanceRecord(c, x).value = SerializeValue(c[x])
    BY DEF InstanceRecord, Record
  <1> HIDE DEF S, q
  <1>7. /\ q \in Seq(Records) /\ Len(q) = 1 + Cardinality(S) /\ Len(q) \in Nat
        /\ DOMAIN q = 1..Len(q) /\ 1 \in DOMAIN q
        /\ q[1].type = "M" /\ q[1].id = id /\ q[1].span = Len(q) - 1
    BY <1>1, <1>2, <1>5 DEF Filled
  <1>8. \A j \in 2..Len(q) : /\ q[j].type = "RI" /\ q[j].span = 0
                             /\ \E x \in S : q[j].id = x[2] /\ q[j].value = SerializeValue(c[x])
    BY <1>1, <1>6 DEF Filled
  <1>9. \A x \in S : \E j \in 2..Len(q) : q[j].id = x[2]
    BY <1>1, <1>6 DEF Filled
  <1>10. \A j \in 1..Len(q) : j = 1 \/ j \in 2..Len(q)
    BY <1>7
  <1>11. \A i \in DOMAIN q, j \in DOMAIN q : Within(q, i, j) <=> i = 1 /\ j \in 2..Len(q)
    BY <1>7, <1>8, <1>10 DEF Within
  <1>12. WellFormed(q, 1)
    <2>1. \A i \in 1..(1 - 1) : q[i].type = "OI"
      OBVIOUS
    <2>2. \A j \in 1..Len(q) : q[j].type # "OI" /\ (q[j].type # "M" => q[j].span = 0)
      BY <1>7, <1>8, <1>10
    <2>3. \A i \in 1..Len(q) :
              q[i].type = "M" =>
                  /\ i + q[i].span <= Len(q)
                  /\ \A j \in (i + 1)..(i + q[i].span) : q[j].type = "RI"
      <3>1. \A i \in 1..Len(q) : q[i].type = "M" => i = 1
        BY <1>8, <1>10
      <3>2. 1 + q[1].span <= Len(q) /\ 1 + q[1].span = Len(q) /\ 1 + 1 = 2
        BY <1>7
      <3> QED
        BY <1>8, <3>1, <3>2
    <2>4. \A j \in 1..Len(q) : q[j].type = "RI" => \E i \in 1..Len(q) : Within(q, i, j)
      BY <1>7, <1>10, <1>11
    <2> QED
      BY <2>1, <2>2, <2>3, <2>4 DEF WellFormed
  <1>13. ASSUME NEW j \in DOMAIN q, NEW slot \in Slots, Designates(q, j, slot)
         PROVE  slot \in DOMAIN c /\ ~c[slot].multiple /\ q[j].value = SerializeValue(c[slot])
    <2>1. q[j].type # "R"
      BY <1>7, <1>8, <1>10
    <2>2. Len(slot) # 1 /\ q[j].id = slot[2] /\ \E i \in DOMAIN q : Within(q, i, j) /\ q[i].id = slot[1]
      BY <1>13, <2>1 DEF Designates
    <2>3. Len(slot) = 2 /\ slot = <<slot[1], slot[2]>>
      BY <2>2, SlotsAre
    <2>4. slot[1] = id /\ j \in 2..Len(q)
      BY <1>7, <1>11, <2>2
    <2>5. PICK x \in S : q[j].id = x[2] /\ q[j].value = SerializeValue(c[x])
      BY <1>8, <2>4
    <2>6. x = <<x[1], x[2]>>
      <3>1. x \in Slots /\ Len(x) = 2
        BY <1>3, <1>4
      <3> QED
        BY <3>1, SlotsAre
    <2>7. x = slot
      BY <1>3, <2>2, <2>3, <2>4, <2>5, <2>6
    <2>8. slot \in DOMAIN c /\ ~c[slot].multiple
      BY <1>3, <2>3, <2>7 DEF Nested
    <2> QED
      BY <2>5, <2>7, <2>8
  <1>14. ASSUME NEW slot \in DOMAIN c, ~c[slot].multiple, <<slot[1]>> \in {<<id>>}
         PROVE  \E j \in DOMAIN q : Designates(q, j, slot)
    <2>1. slot[1] = id
      BY <1>14
    <2>2. Len(slot) = 2
      <3>1. slot \in Slots
        BY <1>4
      <3>2. slot # <<id>>
        BY <1>14
      <3>3. Len(slot) = 1 => slot = <<slot[1]>>
        BY <3>1, SlotsAre
      <3>4. Len(slot) = 1 \/ Len(slot) = 2
        BY <3>1, SlotsAre
      <3> QED
        BY <2>1, <3>2, <3>3, <3>4
    <2>3. slot \in S
      BY <1>3, <2>1, <2>2
    <2>4. PICK j \in 2..Len(q) : q[j].id = slot[2]
      BY <1>9, <2>3
    <2>5. j \in DOMAIN q /\ q[j].type = "RI"
      BY <1>7, <1>8
    <2>6. Within(q, 1, j) /\ q[1].id = slot[1]
      BY <1>7, <1>11, <2>1, <2>5
    <2>7. Designates(q, j, slot)
      BY <1>7, <2>2, <2>4, <2>5, <2>6 DEF Designates
    <2> QED
      BY <2>5, <2>7
  <1>15. Serial(q, c, {<<id>>})
    BY <1>7, <1>12, <1>13, <1>14 DEF Serial
  <1> QED
    BY <1>15 DEF q

LEMMA ResourceIsSerial ==
    ASSUME NEW c \in Contents, Nested(c), NEW id \in Identifiers,
           <<id>> \in DOMAIN c, ~c[<<id>>].multiple
    PROVE  Serial(SerializeResource(c, <<id>>), c, {<<id>>})
  <1> DEFINE r == ResourceRecord(c, <<id>>)
             q == <<r>>
  <1> HIDE DEF Contents, Records, Identifiers, Slots
  <1>1. SerializeResource(c, <<id>>) = q
    BY DEF SerializeResource, ResourceRecord
  <1>2. r \in Records
    BY RecordsAre, SlotIs
  <1>3. r.type = "R" /\ r.id = id /\ r.span = 0 /\ r.value = SerializeValue(c[<<id>>])
    BY DEF ResourceRecord, Record
  <1>4. DOMAIN c \subseteq Slots
    BY ContentsIs
  <1> HIDE DEF r
  <1>5. q \in Seq(Records) /\ Len(q) = 1 /\ q[1] = r /\ DOMAIN q = {1}
    BY <1>2
  <1> HIDE DEF q
  <1>6. WellFormed(q, 1)
    BY <1>3, <1>5 DEF WellFormed
  <1>7. ASSUME NEW slot \in Slots
        PROVE  Designates(q, 1, slot) <=> slot = <<id>>
    <2>1. Len(slot) = 1 => slot = <<slot[1]>>
      BY SlotsAre
    <2>2. Len(<<id>>) = 1 /\ <<id>>[1] = id
      BY SlotIs
    <2> QED
      BY <1>3, <1>5, <2>1, <2>2 DEF Designates
  <1>8. ASSUME NEW slot \in DOMAIN c, <<slot[1]>> \in {<<id>>}
        PROVE  slot = <<id>>
    <2>1. slot[1] = id
      BY <1>8
    <2>2. Len(slot) # 2
      BY <2>1 DEF Nested
    <2>3. slot \in Slots
      BY <1>4
    <2>4. slot = <<slot[1]>>
      BY <2>2, <2>3, SlotsAre
    <2> QED
      BY <2>1, <2>4
  <1>9. \A j \in DOMAIN q, slot \in Slots :
            Designates(q, j, slot) =>
                slot \in DOMAIN c /\ ~c[slot].multiple /\ q[j].value = SerializeValue(c[slot])
    BY <1>3, <1>5, <1>7
  <1>10. \A slot \in DOMAIN c :
             ~c[slot].multiple /\ <<slot[1]>> \in {<<id>>} => \E j \in DOMAIN q : Designates(q, j, slot)
    BY <1>4, <1>5, <1>7, <1>8
  <1>11. Serial(q, c, {<<id>>})
    BY <1>5, <1>6, <1>9, <1>10 DEF Serial
  <1> QED
    BY <1>1, <1>11

-----------------------------------------------------------------------------
(* One payload after another.                                              *)

\* Where the records of q and those of p are in t.
Concatenated(t, q, p) ==
    /\ Len(t) = Len(q) + Len(p)
    /\ \A j \in 1..Len(q) : t[j] = q[j]
    /\ \A j \in 1..Len(p) : t[Len(q) + j] = p[j]

LEMMA WithinParts ==
    ASSUME NEW t \in Seq(Records), NEW q \in Seq(Records), NEW p \in Seq(Records),
           Concatenated(t, q, p), WellFormed(q, 1)
    PROVE  /\ \A i \in 1..Len(t), j \in 1..Len(q) :
                  Within(t, i, j) <=> i \in 1..Len(q) /\ Within(q, i, j)
           /\ \A i \in 1..Len(t), j \in 1..Len(p) :
                  Within(t, i, Len(q) + j) <=>
                      i - Len(q) \in 1..Len(p) /\ Within(p, i - Len(q), j)
  <1>1. /\ Len(q) \in Nat /\ Len(p) \in Nat /\ Len(t) = Len(q) + Len(p)
        /\ \A i \in 1..Len(q) : q[i].span \in Nat
        /\ \A i \in 1..Len(p) : p[i].span \in Nat
    BY RecordIs DEF Concatenated
  <1>2. \A i \in 1..Len(t) : /\ i \in 1..Len(q) => t[i] = q[i]
                             /\ i \notin 1..Len(q) =>
                                    /\ i > Len(q)
                                    /\ i - Len(q) \in 1..Len(p) /\ t[i] = p[i - Len(q)]
    <2> SUFFICES ASSUME NEW i \in 1..Len(t), i \notin 1..Len(q)
                 PROVE  i > Len(q) /\ i - Len(q) \in 1..Len(p) /\ t[i] = p[i - Len(q)]
      BY DEF Concatenated
    <2>1. i > Len(q) /\ i - Len(q) \in 1..Len(p) /\ Len(q) + (i - Len(q)) = i
      BY <1>1
    <2>2. t[Len(q) + (i - Len(q))] = p[i - Len(q)]
      BY <2>1 DEF Concatenated
    <2> QED
      BY <2>1, <2>2
  <1>3. \A i \in 1..Len(q) : q[i].type = "M" => i + q[i].span <= Len(q)
    BY DEF WellFormed
  <1> HIDE DEF Records
  <1>4. ASSUME NEW i \in 1..Len(t), NEW j \in 1..Len(q)
        PROVE  Within(t, i, j) <=> i \in 1..Len(q) /\ Within(q, i, j)
    <2>1. CASE i \in 1..Len(q)
      BY <1>2, <2>1 DEF Within
    <2>2. CASE i \notin 1..Len(q)
      <3>1. i > Len(q) /\ ~(i < j)
        BY <1>1, <1>2, <2>2
      <3> QED
        BY <2>2, <3>1 DEF Within
    <2> QED
      BY <2>1, <2>2
  <1>5. ASSUME NEW i \in 1..Len(t), NEW j \in 1..Len(p)
        PROVE  Within(t, i, Len(q) + j) <=> i - Len(q) \in 1..Len(p) /\ Within(p, i - Len(q), j)
    <2>1. CASE i \in 1..Len(q)
      <3>1. i - Len(q) \notin 1..Len(p)
        BY <1>1, <2>1
      <3>2. ASSUME t[i].type = "M", Len(q) + j <= i + t[i].span
            PROVE  FALSE
        <4>1. i + t[i].span <= Len(q) /\ t[i].span \in Nat
          BY <1>1, <1>2, <1>3, <2>1, <3>2
        <4> QED
          BY <1>1, <3>2, <4>1
      <3> QED
        BY <3>1, <3>2 DEF Within
    <2>2. CASE i \notin 1..Len(q)
      <3>1. i - Len(q) \in 1..Len(p) /\ t[i] = p[i - Len(q)]
        BY <1>2, <2>2
      <3>2. p[i - Len(q)].span \in Nat
        BY <1>1, <3>1
      <3>3. i < Len(q) + j <=> i - Len(q) < j
        BY <1>1
      <3>4. Len(q) + j <= i + p[i - Len(q)].span <=> j <= (i - Len(q)) + p[i - Len(q)].span
        <4> DEFINE x == p[i - Len(q)].span
        <4>1. Len(q) \in Nat /\ x \in Nat /\ i \in Nat /\ j \in Nat
          BY <1>1, <3>2
        <4> HIDE DEF x
        <4>2. Len(q) + j <= i + x <=> j <= (i - Len(q)) + x
          BY <4>1
        <4> QED
          BY <4>2 DEF x
      <3> DEFINE k == i - Len(q)
                 m == Len(q) + j
      <3>5. /\ k \in 1..Len(p) /\ t[i] = p[k]
            /\ i < m <=> k < j
            /\ m <= i + p[k].span <=> j <= k + p[k].span
        BY <3>1, <3>3, <3>4
      <3> HIDE DEF k, m
      <3>6. Within(t, i, m) <=> k \in 1..Len(p) /\ Within(p, k, j)
        BY <3>5 DEF Within
      <3> QED
        BY <3>6 DEF k, m
    <2> QED
      BY <2>1, <2>2
  <1> QED
    BY <1>4, <1>5

LEMMA WellFormedParts ==
    ASSUME NEW t \in Seq(Records), NEW q \in Seq(Records), NEW p \in Seq(Records),
           Concatenated(t, q, p), WellFormed(q, 1), WellFormed(p, 1)
    PROVE  /\ WellFormed(t, 1)
           /\ \A j \in 1..Len(q) : \A s : Designates(t, j, s) <=> Designates(q, j, s)
           /\ \A j \in 1..Len(p) : \A s : Designates(t, Len(q) + j, s) <=> Designates(p, j, s)
  <1>1. /\ Len(q) \in Nat /\ Len(p) \in Nat /\ Len(t) = Len(q) + Len(p)
        /\ DOMAIN t = 1..Len(t) /\ DOMAIN q = 1..Len(q) /\ DOMAIN p = 1..Len(p)
        /\ \A j \in 1..Len(q) : t[j] = q[j]
        /\ \A j \in 1..Len(p) : t[Len(q) + j] = p[j]
    BY DEF Concatenated
  <1>2. /\ \A i \in 1..Len(q) : q[i].span \in Nat
        /\ \A i \in 1..Len(p) : p[i].span \in Nat
    BY RecordIs
  <1>3. /\ \A i \in 1..Len(t), j \in 1..Len(q) :
               Within(t, i, j) <=> i \in 1..Len(q) /\ Within(q, i, j)
        /\ \A i \in 1..Len(t), j \in 1..Len(p) :
               Within(t, i, Len(q) + j) <=>
                   i - Len(q) \in 1..Len(p) /\ Within(p, i - Len(q), j)
    BY WithinParts
  <1> HIDE DEF Records
  <1>4. \A j \in 1..Len(t) : j \in 1..Len(q) \/ \E k \in 1..Len(p) : j = Len(q) + k
    <2> SUFFICES ASSUME NEW j \in 1..Len(t), j \notin 1..Len(q)
                 PROVE  \E k \in 1..Len(p) : j = Len(q) + k
      OBVIOUS
    <2>1. j - Len(q) \in 1..Len(p) /\ j = Len(q) + (j - Len(q))
      BY <1>1
    <2> QED
      BY <2>1
  <1>5. \A k \in 1..Len(p) : Len(q) + k \in 1..Len(t) /\ (Len(q) + k) - Len(q) = k
    BY <1>1
  <1>6. \A j \in 1..Len(q) : j \in 1..Len(t)
    BY <1>1
  <1>7. ASSUME NEW j \in 1..Len(q), NEW s
        PROVE  Designates(t, j, s) <=> Designates(q, j, s)
    <2>1. (\E i \in DOMAIN t : Within(t, i, j) /\ t[i].id = s[1])
              <=> \E i \in DOMAIN q : Within(q, i, j) /\ q[i].id = s[1]
      BY <1>1, <1>3, <1>6
    <2> QED
      BY <1>1, <2>1 DEF Designates
  <1>8. ASSUME NEW j \in 1..Len(p), NEW s
        PROVE  Designates(t, Len(q) + j, s) <=> Designates(p, j, s)
    <2>1. ASSUME NEW i \in DOMAIN t, Within(t, i, Len(q) + j), t[i].id = s[1]
          PROVE  \E k \in DOMAIN p : Within(p, k, j) /\ p[k].id = s[1]
      <3>1. i - Len(q) \in 1..Len(p) /\ Within(p, i - Len(q), j) /\ i = Len(q) + (i - Len(q))
        BY <1>1, <1>3, <2>1
      <3>2. p[i - Len(q)].id = s[1]
        BY <1>1, <2>1, <3>1
      <3> QED
        BY <1>1, <3>1, <3>2
    <2>2. ASSUME NEW k \in DOMAIN p, Within(p, k, j), p[k].id = s[1]
          PROVE  \E i \in DOMAIN t : Within(t, i, Len(q) + j) /\ t[i].id = s[1]
      <3>1. Len(q) + k \in DOMAIN t /\ Within(t, Len(q) + k, Len(q) + j)
        BY <1>1, <1>3, <1>5, <2>2
      <3>2. t[Len(q) + k].id = s[1]
        BY <1>1, <2>2
      <3> QED
        BY <3>1, <3>2
    <2> QED
      BY <1>1, <2>1, <2>2 DEF Designates
  <1>9. WellFormed(t, 1)
    <2>1. \A i \in 1..(1 - 1) : t[i].type = "OI"
      OBVIOUS
    <2>2. \A j \in 1..Len(t) : t[j].type # "OI" /\ (t[j].type # "M" => t[j].span = 0)
      <3>1. /\ \A j \in 1..Len(q) : q[j].type # "OI" /\ (q[j].type # "M" => q[j].span = 0)
            /\ \A j \in 1..Len(p) : p[j].type # "OI" /\ (p[j].type # "M" => p[j].span = 0)
        <4>1. 1 + 0 = 1 /\ \A j \in Nat : j >= 1 \/ j = 0
          OBVIOUS
        <4>2. \A j \in 1..Len(q) : q[j].type # "OI" /\ (q[j].type # "M" => q[j].span = 0)
          BY <4>1 DEF WellFormed
        <4>3. \A j \in 1..Len(p) : p[j].type # "OI" /\ (p[j].type # "M" => p[j].span = 0)
          BY <4>1 DEF WellFormed
        <4> QED
          BY <4>2, <4>3
      <3> SUFFICES ASSUME NEW j \in 1..Len(t)
                   PROVE  t[j].type # "OI" /\ (t[j].type # "M" => t[j].span = 0)
        OBVIOUS
      <3>2. CASE j \in 1..Len(q)
        BY <1>1, <3>1, <3>2
      <3>3. ASSUME NEW k \in 1..Len(p), j = Len(q) + k
            PROVE  t[j].type # "OI" /\ (t[j].type # "M" => t[j].span = 0)
        BY <1>1, <3>1, <3>3
      <3> QED
        BY <1>4, <3>2, <3>3
    <2>3. ASSUME NEW i \in 1..Len(t), t[i].type = "M"
          PROVE  /\ i + t[i].span <= Len(t)
                 /\ \A j \in (i + 1)..(i + t[i].span) : t[j].type = "RI"
      <3>1. CASE i \in 1..Len(q)
        <4>1. /\ i + q[i].span <= Len(q) /\ t[i] = q[i]
              /\ \A j \in (i + 1)..(i + q[i].span) : q[j].type = "RI"
          BY <1>1, <2>3, <3>1 DEF WellFormed
        <4>2. \A j \in (i + 1)..(i + q[i].span) : j \in 1..Len(q)
          BY <1>1, <1>2, <3>1, <4>1
        <4>3. i + q[i].span <= Len(t)
          BY <1>1, <1>2, <3>1, <4>1
        <4> QED
          BY <1>1, <4>1, <4>2, <4>3
      <3>2. ASSUME NEW k \in 1..Len(p), i = Len(q) + k
            PROVE  /\ i + t[i].span <= Len(t)
                   /\ \A j \in (i + 1)..(i + t[i].span) : t[j].type = "RI"
        <4>1. /\ k + p[k].span <= Len(p) /\ t[i] = p[k] /\ p[k].span \in Nat
              /\ \A j \in (k + 1)..(k + p[k].span) : p[j].type = "RI"
          BY <1>1, <1>2, <2>3, <3>2 DEF WellFormed
        <4>2. ASSUME NEW j \in (i + 1)..(i + p[k].span)
              PROVE  t[j].type = "RI"
          <5>1. /\ j - Len(q) \in (k + 1)..(k + p[k].span) /\ j - Len(q) \in 1..Len(p)
                /\ Len(q) + (j - Len(q)) = j
            BY <1>1, <3>2, <4>1
          <5>2. t[Len(q) + (j - Len(q))] = p[j - Len(q)]
            BY <1>1, <5>1
          <5> QED
            BY <4>1, <5>1, <5>2
        <4>3. i + p[k].span <= Len(t)
          BY <1>1, <3>2, <4>1
        <4> QED
          BY <4>1, <4>2, <4>3
      <3> QED
        BY <1>4, <3>1, <3>2
    <2>4. ASSUME NEW j \in 1..Len(t), t[j].type = "RI"
          PROVE  \E i \in 1..Len(t) : Within(t, i, j)
      <3>1. CASE j \in 1..Len(q)
        <4>1. PICK i \in 1..Len(q) : Within(q, i, j)
          BY <1>1, <2>4, <3>1 DEF WellFormed
        <4> QED
          BY <1>3, <1>6, <3>1, <4>1
      <3>2. ASSUME NEW k \in 1..Len(p), j = Len(q) + k
            PROVE  \E i \in 1..Len(t) : Within(t, i, j)
        <4>1. PICK i \in 1..Len(p) : Within(p, i, k)
          BY <1>1, <2>4, <3>2 DEF WellFormed
        <4> QED
          BY <1>3, <1>5, <3>2, <4>1
      <3> QED
        BY <1>4, <3>1, <3>2
    <2> QED
      BY <2>1, <2>2, <2>3, <2>4 DEF WellFormed
  <1> QED
    BY <1>7, <1>8, <1>9

LEMMA SerialBegins ==
    ASSUME NEW c
    PROVE  Serial(<<>>, c, {})
  <1>1. <<>> \in Seq(Records) /\ Len(<<>>) = 0 /\ DOMAIN <<>> = {}
    OBVIOUS
  <1>2. WellFormed(<<>>, 1)
    BY <1>1 DEF WellFormed
  <1> QED
    BY <1>1, <1>2 DEF Serial

LEMMA SerialJoins ==
    ASSUME NEW c, NEW q, NEW p, NEW s, NEW u, Serial(q, c, s), Serial(p, c, u)
    PROVE  Serial(q \o p, c, s \cup u)
  <1> DEFINE t == q \o p
  <1> HIDE DEF Records, Slots
  <1>1. q \in Seq(Records) /\ p \in Seq(Records) /\ WellFormed(q, 1) /\ WellFormed(p, 1)
    BY DEF Serial
  <1>2. t \in Seq(Records) /\ Concatenated(t, q, p)
    <2>1. /\ t \in Seq(Records) /\ Len(t) = Len(q) + Len(p)
          /\ \A j \in 1..Len(t) : t[j] = IF j <= Len(q) THEN q[j] ELSE p[j - Len(q)]
      BY <1>1, ConcatProperties
    <2>2. Len(q) \in Nat /\ Len(p) \in Nat
      BY <1>1
    <2> HIDE DEF t
    <2>3. \A j \in 1..Len(q) : t[j] = q[j]
      BY <2>1, <2>2
    <2>4. ASSUME NEW j \in 1..Len(p)
          PROVE  t[Len(q) + j] = p[j]
      <3>1. Len(q) + j \in 1..Len(t) /\ ~(Len(q) + j <= Len(q)) /\ (Len(q) + j) - Len(q) = j
        BY <2>1, <2>2
      <3> QED
        BY <2>1, <3>1
    <2> QED
      BY <2>1, <2>3, <2>4 DEF Concatenated
  <1> HIDE DEF t
  <1>3. /\ Len(q) \in Nat /\ Len(p) \in Nat /\ Len(t) = Len(q) + Len(p)
        /\ DOMAIN t = 1..Len(t) /\ DOMAIN q = 1..Len(q) /\ DOMAIN p = 1..Len(p)
        /\ \A j \in 1..Len(q) : t[j] = q[j]
        /\ \A j \in 1..Len(p) : t[Len(q) + j] = p[j]
    BY <1>1, <1>2 DEF Concatenated
  <1>4. WellFormed(t, 1)
    BY <1>1, <1>2, WellFormedParts, Zenon
  <1>5. \A j \in 1..Len(q) : \A slot : Designates(t, j, slot) <=> Designates(q, j, slot)
    BY <1>1, <1>2, WellFormedParts, Zenon
  <1>6. \A j \in 1..Len(p) : \A slot : Designates(t, Len(q) + j, slot) <=> Designates(p, j, slot)
    BY <1>1, <1>2, WellFormedParts, Zenon
  <1>7. \A j \in DOMAIN t : j \in 1..Len(q) \/ \E k \in 1..Len(p) : j = Len(q) + k
    <2> SUFFICES ASSUME NEW j \in 1..Len(t), j \notin 1..Len(q)
                 PROVE  \E k \in 1..Len(p) : j = Len(q) + k
      BY <1>3
    <2>1. j - Len(q) \in 1..Len(p) /\ j = Len(q) + (j - Len(q))
      BY <1>3
    <2> QED
      BY <2>1
  <1>8. ASSUME NEW j \in DOMAIN t, NEW slot \in Slots, Designates(t, j, slot)
        PROVE  slot \in DOMAIN c /\ ~c[slot].multiple /\ t[j].value = SerializeValue(c[slot])
    <2>1. CASE j \in 1..Len(q)
      <3>1. Designates(q, j, slot) /\ j \in DOMAIN q /\ t[j] = q[j]
        BY <1>3, <1>5, <1>8, <2>1
      <3> QED
        BY <3>1 DEF Serial
    <2>2. ASSUME NEW k \in 1..Len(p), j = Len(q) + k
          PROVE  slot \in DOMAIN c /\ ~c[slot].multiple /\ t[j].value = SerializeValue(c[slot])
      <3>1. Designates(p, k, slot) /\ k \in DOMAIN p /\ t[j] = p[k]
        BY <1>3, <1>6, <1>8, <2>2
      <3> QED
        BY <3>1 DEF Serial
    <2> QED
      BY <1>7, <2>1, <2>2
  <1>9. ASSUME NEW slot \in DOMAIN c, ~c[slot].multiple, <<slot[1]>> \in s \cup u
        PROVE  \E j \in DOMAIN t : Designates(t, j, slot)
    <2>1. CASE <<slot[1]>> \in s
      <3>1. PICK j \in DOMAIN q : Designates(q, j, slot)
        BY <1>9, <2>1 DEF Serial
      <3>2. j \in DOMAIN t
        BY <1>3
      <3> QED
        BY <1>3, <1>5, <3>1, <3>2
    <2>2. CASE <<slot[1]>> \in u
      <3>1. PICK j \in DOMAIN p : Designates(p, j, slot)
        BY <1>9, <2>2 DEF Serial
      <3>2. Len(q) + j \in DOMAIN t
        BY <1>3
      <3> QED
        BY <1>3, <1>6, <3>1, <3>2
    <2> QED
      BY <1>9, <2>1, <2>2
  <1>10. Serial(t, c, s \cup u)
    BY <1>2, <1>4, <1>8, <1>9 DEF Serial
  <1> QED
    BY <1>10 DEF t

-----------------------------------------------------------------------------
(* All the resources.                                                      *)

Singles(c) == {slot \in DOMAIN c : Len(slot) = 1}

Piece(c, slot) ==
    IF c[slot].multiple THEN SerializeMultipleResource(c, slot[1]) ELSE SerializeResource(c, slot)

LEMMA PieceIsSerial ==
    ASSUME NEW c \in Contents, Nested(c), <<NoId>> \notin DOMAIN c, NEW slot \in Singles(c)
    PROVE  Serial(Piece(c, slot), c, {slot})
  <1> HIDE DEF Contents, Records, Identifiers, Slots
  <1>1. slot \in DOMAIN c /\ Len(slot) = 1
    BY DEF Singles
  <1>2. slot \in Slots
    BY <1>1, ContentsIs
  <1>3. slot = <<slot[1]>>
    BY <1>1, <1>2, SlotsAre
  <1>4. slot[1] \in Identifiers
    <2>1. slot[1] \in Identifiers \cup {NoId}
      BY <1>1, <1>2 DEF Slots
    <2>2. slot[1] # NoId
      BY <1>1, <1>3
    <2> QED
      BY <2>1, <2>2
  <1> DEFINE id == slot[1]
  <1>5. slot = <<id>> /\ id \in Identifiers
    BY <1>3, <1>4
  <1> HIDE DEF id
  <1>6. CASE c[slot].multiple
    <2>1. Serial(SerializeMultipleResource(c, id), c, {<<id>>})
      BY <1>1, <1>5, <1>6, ContainerIsSerial
    <2> QED
      BY <1>5, <1>6, <2>1 DEF Piece, id
  <1>7. CASE ~c[slot].multiple
    <2>1. Serial(SerializeResource(c, <<id>>), c, {<<id>>})
      BY <1>1, <1>5, <1>7, ResourceIsSerial
    <2> QED
      BY <1>5, <1>7, <2>1 DEF Piece
  <1> QED
    BY <1>6, <1>7

\* f are the records after some of the resources.
ResourcesWritten(f, c) ==
    /\ f[{}] = <<>>
    /\ \A s \in SUBSET Singles(c) :
           s # {} => f[s] = f[s \ {First(s)}] \o Piece(c, First(s))
    /\ SerializeResources(c) = f[Singles(c)]

LEMMA ResourcesAreWritten ==
    ASSUME NEW c \in Contents, Nested(c), <<NoId>> \notin DOMAIN c
    PROVE  \E f : ResourcesWritten(f, c)
  <1> DEFINE S == Singles(c)
             X == Seq(Records)
             Raw(g) == [s \in SUBSET S |->
                           IF s = {} THEN <<>> ELSE g[s \ {First(s)}] \o Piece(c, First(s))]
             step == [p \in S \X X |-> p[2] \o Piece(c, p[1])]
             f == CHOOSE g : g = Raw(g)
  <1> HIDE DEF Contents, Records, Identifiers
  <1>1. SerializeResources(c) = f[S]
    BY DEF SerializeResources, FoldSet, MapThenFoldSet, First, Piece, Singles
  <1>2. IsFiniteSet(S)
    BY RecordsAre DEF Singles
  <1>3. <<>> \in X
    OBVIOUS
  <1>4. \A x \in S : Piece(c, x) \in Seq(Records)
    BY PieceIsSerial DEF Serial
  <1> HIDE DEF S
  <1>5. \A x \in S, v \in X : step[<<x, v>>] = v \o Piece(c, x)
    OBVIOUS
  <1>6. \A x \in S, v \in X : step[<<x, v>>] \in X
    <2> SUFFICES ASSUME NEW x \in S, NEW v \in Seq(Records)
                 PROVE  v \o Piece(c, x) \in Seq(Records)
      BY <1>5
    <2> QED
      BY <1>4, ConcatProperties
  <1> HIDE DEF step, X
  <1>7. PICK g : g = Folding(g, S, <<>>, step)
    BY <1>2, FoldingExists
  <1>8. g \in [SUBSET S -> X]
    BY <1>2, <1>3, <1>6, <1>7, FoldingStays
  <1>9. g = Raw(g)
    <2>1. \A s \in SUBSET S : g[s] = Raw(g)[s]
      <3> SUFFICES ASSUME NEW s \in SUBSET S
                   PROVE  g[s] = IF s = {} THEN <<>>
                                 ELSE g[s \ {First(s)}] \o Piece(c, First(s))
        OBVIOUS
      <3>1. g[s] = IF s = {} THEN <<>> ELSE step[<<First(s), g[s \ {First(s)}]>>]
        BY <1>7, Zenon DEF Folding
      <3>2. s # {} => First(s) \in S
        BY DEF First
      <3>3. g[s \ {First(s)}] \in X
        BY <1>8
      <3> QED
        BY <1>5, <3>1, <3>2, <3>3
    <2>2. g = [s \in SUBSET S |-> g[s]]
      BY <1>8
    <2> QED
      BY <2>1, <2>2
  <1>10. f = Raw(f)
    BY <1>9
  <1> HIDE DEF f
  <1>11. /\ f[{}] = <<>>
         /\ \A s \in SUBSET S : s # {} => f[s] = f[s \ {First(s)}] \o Piece(c, First(s))
    BY <1>10
  <1> QED
    BY <1>1, <1>11 DEF ResourcesWritten, S

LEMMA ResourcesAreSerial ==
    ASSUME NEW c \in Contents, Nested(c), <<NoId>> \notin DOMAIN c
    PROVE  Serial(SerializeResources(c), c, Singles(c))
  <1> DEFINE S == Singles(c)
  <1> HIDE DEF Contents, Records, Identifiers
  <1>1. PICK f : ResourcesWritten(f, c)
    BY ResourcesAreWritten
  <1> DEFINE T == {s \in SUBSET S : Serial(f[s], c, s)}
  <1>2. IsFiniteSet(S)
    BY RecordsAre DEF Singles
  <1>3. {} \in T
    BY <1>1, SerialBegins DEF ResourcesWritten
  <1>4. ASSUME NEW s \in SUBSET S, s # {}, s \ {First(s)} \in T
        PROVE  s \in T
    <2>1. First(s) \in s /\ First(s) \in S
      BY <1>4 DEF First
    <2>2. f[s] = f[s \ {First(s)}] \o Piece(c, First(s))
      BY <1>1, <1>4 DEF ResourcesWritten
    <2>3. Serial(Piece(c, First(s)), c, {First(s)})
      BY <2>1, PieceIsSerial
    <2>4. Serial(f[s \ {First(s)}], c, s \ {First(s)})
      BY <1>4
    <2> DEFINE r == s \ {First(s)}
               x == First(s)
    <2>5. Serial(f[r] \o Piece(c, x), c, r \cup {x})
      BY <2>3, <2>4, SerialJoins
    <2>6. r \cup {x} = s
      BY <2>1
    <2> QED
      BY <2>2, <2>5, <2>6
  <1> HIDE DEF T, S
  <1>5. \A s \in SUBSET S : s \in T
    BY <1>2, <1>3, <1>4, SubsetInduction
  <1>6. Serial(f[S], c, S)
    BY <1>5 DEF T
  <1> QED
    BY <1>1, <1>6 DEF ResourcesWritten, S

-----------------------------------------------------------------------------
(* Read again, every record finds its slot.                                *)

\* Whatever a record names is there.
Present(tlv, c) == \A j \in DOMAIN tlv, s \in Slots : Designates(tlv, j, s) => s \in DOMAIN c

LEMMA ReadInstanceFinds ==
    ASSUME NEW tlv, NEW n, NEW d, NEW id, NEW operation, NEW update, tlv[n].type = "RI",
           <<id, tlv[n].id>> \in DOMAIN d
    PROVE  ReadInstance(tlv, n, d, id, operation, update)
               = After(tlv, n, Found(d, <<id, tlv[n].id>>, tlv[n].value, update))
  BY ReadInstanceIs

\* The records of the last container, read to the end of the payload.
LEMMA DeserializeInstancesFinds ==
    ASSUME NEW tlv \in Seq(Records), NEW at \in 1..(Len(tlv) + 1), WellFormed(tlv, at),
           NEW n \in at..Len(tlv), Boundary(tlv, n), tlv[n].type = "M",
           n + tlv[n].span = Len(tlv),
           NEW operation, NEW update \in BOOLEAN, Passes(FALSE, update),
           NEW c \in Contents, Present(tlv, c),
           NEW id, id = tlv[n].id, <<id>> \in DOMAIN c, c[<<id>>].multiple
    PROVE  DeserializeInstances(tlv, n + 1, c, id, operation, update).error = "None"
  <1> DEFINE high == Len(tlv)
  <1> HIDE DEF Contents, Slots, Records
  <1>0. /\ n \in Nat /\ n \in 1..high /\ high \in Nat /\ n <= high /\ n + 1 \in 1..(high + 1)
        /\ n + 1 - 1 = n
    OBVIOUS
  <1>1. id \in Identifiers
    BY <1>0, RecordIs
  <1>2. PICK f : InstancesRun(f, tlv, n + 1, c, id, operation, update)
    BY <1>0, <1>1, DeserializeInstancesRuns
  <1> DEFINE low == n + 1
  <1>3. /\ f \in [(low - 1)..high -> Readers(c, tlv, operation, update)]
        /\ f[low - 1] = Reader(low, Result("None", c))
        /\ \A m \in low..high :
               f[m] = IF f[m - 1].at = m
                      THEN ReadInstance(tlv, m, f[m - 1].result.contents, id, operation, update)
                      ELSE f[m - 1]
        /\ DeserializeInstances(tlv, low, c, id, operation, update) = f[high].result
    BY <1>2, Zenon DEF InstancesRun
  <1>4. /\ f \in [n..high -> Readers(c, tlv, operation, update)]
        /\ f[n] = Reader(n + 1, Result("None", c))
        /\ \A m \in (n + 1)..high :
               f[m] = IF f[m - 1].at = m
                      THEN ReadInstance(tlv, m, f[m - 1].result.contents, id, operation, update)
                      ELSE f[m - 1]
        /\ DeserializeInstances(tlv, n + 1, c, id, operation, update) = f[high].result
    <2>1. low - 1 = n /\ low = n + 1
      BY <1>0
    <2> HIDE DEF low
    <2> QED
      BY <1>3, <2>1
  <1> DEFINE S == {m \in n..high : f[m].at = m + 1 /\ f[m].result.error = "None"}
  <1>5. n \in S
    <2>1. f[n].at = n + 1 /\ f[n].result.error = "None"
      BY <1>4 DEF Reader, Result
    <2> QED
      BY <1>0, <2>1
  <1>6. ASSUME NEW m \in (n + 1)..high, m - 1 \in S
        PROVE  m \in S
    <2> DEFINE d == f[m - 1].result.contents
               slot == <<id, tlv[m].id>>
               r == ReadInstance(tlv, m, d, id, operation, update)
               result == Found(d, slot, tlv[m].value, update)
    <2>1. /\ m \in n..high /\ m - 1 \in n..high /\ m \in 1..high
          /\ m \in (n + 1)..(n + tlv[n].span) /\ m - 1 + 1 = m
      BY <1>0
    <2>2. d \in Contents /\ Grown(c, d, tlv, operation, update)
      BY <1>4, <2>1 DEF Readers, Results
    <2>3. f[m] = r
      BY <1>4, <1>6, <2>1
    <2>4. /\ tlv[m].type = "RI" /\ tlv[m].span = 0 /\ m \in DOMAIN tlv
          /\ \A s \in Slots : Designates(tlv, m, s) <=> s = slot
      BY <2>1, DesignatesIs
    <2>5. tlv[m].id \in Identifiers /\ tlv[m].value \in Values
      BY <2>1, RecordIs
    <2>6. slot \in DOMAIN d
      <3>1. slot \in Slots
        BY <1>1, <2>5, SlotIs
      <3>2. slot \in DOMAIN c
        BY <2>4, <3>1 DEF Present
      <3> QED
        BY <2>2, <3>2 DEF Grown
    <2> HIDE DEF d
    <2>7. r = After(tlv, m, result)
      BY <2>4, <2>6, ReadInstanceFinds
    <2> HIDE DEF slot, d, r, result
    <2>8. result.error = "None"
      BY <2>2, <2>5, <2>6, UpdatedIs DEF result, Passes
    <2>9. r.at = m + 1 /\ r.result.error = "None"
      BY <2>1, <2>4, <2>8, <2>7 DEF After, Reader
    <2> QED
      BY <2>1, <2>3, <2>9
  <1> HIDE DEF S
  <1>7. \A m \in n..high : m \in S
    <2> n \in Int /\ high \in Int /\ n <= high
      BY <1>0
    <2> HIDE DEF high
    <2> QED
      BY <1>5, <1>6, RangeInduction
  <1>8. f[high].result.error = "None"
    <2> high \in n..high
      BY <1>0
    <2> HIDE DEF high
    <2> QED
      BY <1>7 DEF S
  <1> QED
    BY <1>4, <1>8

\* A record of the payload: the result of the last one is the result of all.
LEMMA ReadResourceFinds ==
    ASSUME NEW tlv \in Seq(Records), NEW at \in 1..(Len(tlv) + 1), WellFormed(tlv, at),
           NEW n \in at..Len(tlv), Boundary(tlv, n),
           NEW operation, NEW update \in BOOLEAN, Passes(FALSE, update),
           NEW d \in Contents, Present(tlv, d)
    PROVE  LET r == ReadResource(tlv, n, d, operation, update)
           IN  /\ r.at \in (n + 1)..(Len(tlv) + 1)
               /\ Boundary(tlv, r.at)
               /\ r.at = Len(tlv) + 1 => r.result.error = "None"
  <1> DEFINE r == ReadResource(tlv, n, d, operation, update)
             slot == <<tlv[n].id>>
             end == n + 1 + tlv[n].span
  <1> HIDE DEF Contents, Slots, Records
  <1>0. /\ n \in Nat /\ n \in 1..Len(tlv) /\ Len(tlv) \in Nat /\ n \in DOMAIN tlv
    OBVIOUS
  <1>1. tlv[n].id \in Identifiers /\ tlv[n].span \in Nat /\ tlv[n].value \in Values
    BY <1>0, RecordIs
  <1>2. /\ tlv[n].type \in {"R", "M"}
        /\ end \in (n + 1)..(Len(tlv) + 1)
        /\ Boundary(tlv, end)
    BY BoundaryIs
  <1>3. slot \in Slots
    BY <1>1, SlotIs
  <1>4. /\ tlv[n].type = "M" /\ slot \in DOMAIN d /\ d[slot].multiple =>
               r = After(tlv, n, DeserializeInstances(tlv, n + 1, d, tlv[n].id, operation, update))
        /\ tlv[n].type = "M" /\ ~(slot \in DOMAIN d /\ d[slot].multiple) =>
               r = After(tlv, n, Result("None", d))
        /\ tlv[n].type \in {"R", "RI"} /\ slot \in DOMAIN d =>
               r = After(tlv, n, Found(d, slot, tlv[n].value, update))
    BY ReadResourceIs
  <1>5. \A x : After(tlv, n, x).at = end /\ After(tlv, n, x).result = x
    BY DEF After, Reader
  <1> SUFFICES r.at = end /\ (end = Len(tlv) + 1 => r.result.error = "None")
    BY <1>2
  <1>6. Result("None", d).error = "None"
    BY ResultIs
  <1>7. end = Len(tlv) + 1 => n + tlv[n].span = Len(tlv)
    BY <1>0, <1>1
  <1> HIDE DEF r, end
  <1>8. CASE tlv[n].type = "M" /\ slot \in DOMAIN d /\ d[slot].multiple
    <2>1. end = Len(tlv) + 1 =>
              DeserializeInstances(tlv, n + 1, d, tlv[n].id, operation, update).error = "None"
      BY <1>7, <1>8, DeserializeInstancesFinds
    <2> QED
      BY <1>4, <1>5, <1>8, <2>1
  <1>9. CASE tlv[n].type = "M" /\ ~(slot \in DOMAIN d /\ d[slot].multiple)
    BY <1>4, <1>5, <1>6, <1>9
  <1>10. CASE tlv[n].type = "R"
    <2>1. \A s \in Slots : Designates(tlv, n, s) <=> s = slot
      BY <1>10, DesignatesIs
    <2>2. slot \in DOMAIN d
      BY <1>0, <1>3, <2>1 DEF Present
    <2>3. Found(d, slot, tlv[n].value, update).error = "None"
      BY <1>1, <2>2, UpdatedIs DEF Passes
    <2> QED
      BY <1>4, <1>5, <1>10, <2>2, <2>3
  <1> QED
    BY <1>2, <1>8, <1>9, <1>10

LEMMA DeserializeAtFinds ==
    ASSUME NEW tlv \in Seq(Records), NEW at \in 1..(Len(tlv) + 1), WellFormed(tlv, at),
           NEW operation, NEW update \in BOOLEAN, Passes(FALSE, update),
           NEW c \in Contents, Present(tlv, c)
    PROVE  DeserializeAt(tlv, at, c, operation, update).error = "None"
  <1> DEFINE low == at - 1
             high == Len(tlv)
             Read(r, n) == /\ r.at \in (n + 1)..(high + 1)
                           /\ Boundary(tlv, r.at)
                           /\ r.at = high + 1 => r.result.error = "None"
  <1> HIDE DEF Contents, Slots, Records
  <1>0. low \in Int /\ high \in Int /\ low <= high /\ low + 1 = at /\ at \in Int
    OBVIOUS
  <1>1. PICK f : AtRun(f, tlv, at, c, operation, update)
    BY DeserializeAtRuns
  <1>2. /\ f \in [low..high -> Readers(c, tlv, operation, update)]
        /\ f[low] = Reader(at, Result("None", c))
        /\ \A n \in at..high :
               f[n] = IF f[n - 1].at = n
                      THEN ReadResource(tlv, n, f[n - 1].result.contents, operation, update)
                      ELSE f[n - 1]
        /\ DeserializeAt(tlv, at, c, operation, update) = f[high].result
    BY <1>1 DEF AtRun
  <1> DEFINE S == {n \in low..high : Read(f[n], n)}
  <1>3. low \in S
    <2>1. f[low].at = at /\ f[low].result.error = "None"
      BY <1>2 DEF Reader, Result
    <2>2. Boundary(tlv, at)
      BY BoundaryIs
    <2>3. at \in (low + 1)..(high + 1) /\ low \in low..high
      BY <1>0
    <2> HIDE DEF low, high
    <2> QED
      BY <2>1, <2>2, <2>3
  <1>4. ASSUME NEW n \in (low + 1)..high, n - 1 \in S
        PROVE  n \in S
    <2> DEFINE x == f[n - 1]
               d == x.result.contents
    <2>1. /\ n \in low..high /\ n - 1 \in low..high /\ n \in at..Len(tlv) /\ n - 1 + 1 = n
          /\ n \in at..high
      BY <1>0
    <2>2. d \in Contents /\ Grown(c, d, tlv, operation, update)
      BY <1>2, <2>1 DEF Readers, Results
    <2>3. Present(tlv, d)
      BY <2>2 DEF Present, Grown
    <2>4. Read(x, n - 1)
      BY <1>4
    <2>5. x.at \in n..(high + 1)
      BY <2>1, <2>4
    <2>6. f[n] = IF x.at = n THEN ReadResource(tlv, n, d, operation, update) ELSE x
      BY <1>2, <2>1
    <2> HIDE DEF x
    <2>7. CASE x.at = n
      <3>1. Boundary(tlv, n)
        BY <2>4, <2>7
      <3> HIDE DEF d
      <3>2. Read(ReadResource(tlv, n, d, operation, update), n)
        BY <2>1, <2>2, <2>3, <3>1, ReadResourceFinds
      <3> QED
        BY <2>1, <2>6, <2>7, <3>2
    <2>8. CASE x.at # n
      <3>1. x.at \in (n + 1)..(high + 1)
        BY <1>0, <2>5, <2>8
      <3>2. Read(x, n)
        BY <2>4, <3>1
      <3> QED
        BY <2>1, <2>6, <2>8, <3>2
    <2> QED
      BY <2>7, <2>8
  <1> HIDE DEF S
  <1>5. \A n \in low..high : n \in S
    <2> HIDE DEF low, high
    <2> QED
      BY <1>0, <1>3, <1>4, RangeInduction
  <1>6. Read(f[high], high)
    BY <1>0, <1>5 DEF S
  <1>7. f[high].at = high + 1
    BY <1>0, <1>6
  <1> QED
    BY <1>2, <1>6, <1>7

\* The contents without their values.
Emptied(c) == [slot \in DOMAIN c |-> [c[slot] EXCEPT !.value = NoValue]]

LEMMA EmptiedIs ==
    ASSUME NEW c \in Contents
    PROVE  /\ Emptied(c) \in Contents
           /\ DOMAIN Emptied(c) = DOMAIN c
           /\ \A s \in DOMAIN c :
                  /\ Emptied(c)[s].type = c[s].type
                  /\ Emptied(c)[s].operation = c[s].operation
                  /\ Emptied(c)[s].multiple = c[s].multiple
                  /\ Emptied(c)[s].value = NoValue
  <1> DEFINE e == Emptied(c)
  <1> HIDE DEF Slots, Contents
  <1>1. DOMAIN c \subseteq Slots /\ \A s \in DOMAIN c : c[s] \in Leaves
    BY ContentsIs
  <1>2. e = [s \in DOMAIN c |-> [c[s] EXCEPT !.value = NoValue]]
    BY DEF Emptied
  <1>3. NoValue \in Values
    BY DEF Values
  <1>4. \A s \in DOMAIN c : LET leaf == [c[s] EXCEPT !.value = NoValue]
                            IN  /\ leaf \in Leaves
                                /\ leaf.type = c[s].type
                                /\ leaf.operation = c[s].operation
                                /\ leaf.multiple = c[s].multiple
                                /\ leaf.value = NoValue
    BY <1>1, <1>3 DEF Leaves
  <1> HIDE DEF e
  <1>5. DOMAIN e = DOMAIN c /\ e = [s \in DOMAIN e |-> e[s]]
    BY <1>2
  <1>6. \A s \in DOMAIN c : /\ e[s] \in Leaves
                            /\ e[s].type = c[s].type
                            /\ e[s].operation = c[s].operation
                            /\ e[s].multiple = c[s].multiple
                            /\ e[s].value = NoValue
    BY <1>2, <1>4
  <1>7. e \in Contents
    BY <1>1, <1>5, <1>6, ContentsIs
  <1> QED
    BY <1>5, <1>6, <1>7 DEF e

\* The value of a slot that is read again.
Returned(leaf) == IF leaf.multiple THEN NoValue ELSE SerializeValue(leaf)

LEMMA LatestReturns ==
    ASSUME NEW tlv, NEW c \in Contents, Nested(c), Serial(tlv, c, Singles(c)),
           NEW s \in DOMAIN c, NEW value, Latest(tlv, s, Len(tlv) + 1, value, NoValue)
    PROVE  value = Returned(c[s])
  <1> HIDE DEF Contents, Slots, Records
  <1>1. s \in Slots
    BY ContentsIs
  <1>2. DOMAIN tlv = 1..Len(tlv) /\ Len(tlv) \in Nat
    BY DEF Serial
  <1>3. \A j \in DOMAIN tlv : Designates(tlv, j, s) =>
            ~c[s].multiple /\ tlv[j].value = SerializeValue(c[s])
    BY <1>1 DEF Serial
  <1>4. CASE c[s].multiple
    BY <1>3, <1>4 DEF Latest, Returned
  <1>5. CASE ~c[s].multiple
    <2>1. <<s[1]>> \in Singles(c)
      <3>1. CASE Len(s) = 1
        <4>1. s = <<s[1]>>
          BY <1>1, <3>1, SlotsAre
        <4> QED
          BY <3>1, <4>1 DEF Singles
      <3>2. CASE Len(s) = 2
        <4>1. <<s[1]>> \in DOMAIN c
          BY <3>2 DEF Nested
        <4>2. Len(<<s[1]>>) = 1
          OBVIOUS
        <4> QED
          BY <4>1, <4>2 DEF Singles
      <3> QED
        BY <1>1, <3>1, <3>2, SlotsAre
    <2>2. PICK j \in DOMAIN tlv : Designates(tlv, j, s)
      BY <1>5, <2>1 DEF Serial
    <2>3. ~(j >= Len(tlv) + 1)
      BY <1>2
    <2>4. PICK k \in DOMAIN tlv : Designates(tlv, k, s) /\ value = tlv[k].value
      BY <2>2, <2>3 DEF Latest
    <2> QED
      BY <1>3, <1>5, <2>4 DEF Returned
  <1> QED
    BY <1>4, <1>5

\* The contents, written and read into what is left of them without their values.
Reading(c) == DeserializeAt(SerializeResources(c), 1, Emptied(c), "Put", TRUE)

Restores(c, r) ==
    /\ r.error = "None"
    /\ DOMAIN r.contents = DOMAIN c
    /\ \A s \in DOMAIN c : r.contents[s] = [c[s] EXCEPT !.value = Returned(c[s])]

\* What an instance is written to gives it back its values when it is read, in any order
\* of its resources: each record finds its slot, at the right place of the nesting, and
\* no error is left at the end (serialize_resources(), deserialize_resources()).
THEOREM SerializeResourcesRestores ==
    ASSUME NEW c \in Contents, Nested(c), SerializeResources(c) # <<>>
    PROVE  Restores(c, Reading(c))
  <1> DEFINE tlv == SerializeResources(c)
             r == Reading(c)
             e == Emptied(c)
             d == r.contents
  <1> HIDE DEF Contents, Slots, Records
  <1>1. PICK update \in BOOLEAN : update = TRUE
    OBVIOUS
  <1>2. PICK operation : operation = "Put"
    OBVIOUS
  <1>3. <<NoId>> \notin DOMAIN c
    BY DEF SerializeResources
  <1>4. Serial(tlv, c, Singles(c))
    BY <1>3, ResourcesAreSerial
  <1>5. tlv \in Seq(Records) /\ WellFormed(tlv, 1) /\ 1 \in 1..(Len(tlv) + 1)
    BY <1>4 DEF Serial
  <1>6. /\ e \in Contents /\ DOMAIN e = DOMAIN c
        /\ \A s \in DOMAIN c : /\ e[s].type = c[s].type
                               /\ e[s].operation = c[s].operation
                               /\ e[s].multiple = c[s].multiple
                               /\ e[s].value = NoValue
    BY EmptiedIs
  <1>7. r = DeserializeAt(tlv, 1, e, operation, update)
    BY <1>1, <1>2 DEF Reading
  <1> HIDE DEF e, tlv, r
  <1>8. Present(tlv, e)
    BY <1>4, <1>6 DEF Present, Serial
  <1>9. r.error = "None"
    <2>1. Passes(FALSE, update)
      BY <1>1 DEF Passes
    <2>2. DeserializeAt(tlv, 1, e, operation, update).error = "None"
      BY <1>5, <1>6, <1>8, <2>1, DeserializeAtFinds
    <2> QED
      BY <1>7, <2>2
  <1>10. d \in Contents /\ Grown(e, d, tlv, operation, update)
    <2>1. r \in Results(e, tlv, operation, update)
      BY <1>5, <1>6, <1>7, DeserializeAtGrows
    <2> QED
      BY <2>1 DEF Results
  <1>11. Progress(e, tlv, operation, update, e, 1)
    <2>1. Nested(e)
      BY <1>6, Zenon DEF Nested
    <2>2. ASSUME NEW s \in DOMAIN e
          PROVE  Latest(tlv, s, 1, e[s].value, Old(e, s))
      <3>1. e[s].value = Old(e, s)
        BY DEF Old
      <3>2. \A j \in DOMAIN tlv : j >= 1
        BY <1>5
      <3> QED
        BY <3>1, <3>2 DEF Latest
    <2>3. operation # "Post"
      BY <1>2
    <2> QED
      BY <2>1, <2>2, <2>3, Zenon DEF Progress
  <1>12. Progress(e, tlv, operation, update, d, Len(tlv) + 1)
    BY <1>5, <1>6, <1>7, <1>11, DeserializeAtProgresses
  <1>13. DOMAIN d = DOMAIN c
    <2>1. operation # "Post"
      BY <1>2
    <2> QED
      BY <1>6, <1>10, <2>1 DEF Grown
  <1>14. ASSUME NEW s \in DOMAIN c
         PROVE  d[s] = [c[s] EXCEPT !.value = Returned(c[s])]
    <2>1. Latest(tlv, s, Len(tlv) + 1, d[s].value, NoValue)
      <3>1. Latest(tlv, s, Len(tlv) + 1, d[s].value, Old(e, s))
        BY <1>1, <1>12, <1>13 DEF Progress
      <3>2. Old(e, s) = NoValue
        BY <1>6 DEF Old
      <3> QED
        BY <3>1, <3>2
    <2>2. d[s].value = Returned(c[s])
      BY <1>4, <2>1, LatestReturns
    <2>3. d[s].type = c[s].type /\ d[s].operation = c[s].operation /\ d[s].multiple = c[s].multiple
      <3>1. s \in DOMAIN e
        BY <1>6
      <3>2. d[s].type = e[s].type /\ d[s].operation = e[s].operation /\ d[s].multiple = e[s].multiple
        BY <1>10, <3>1, Zenon DEF Grown
      <3> QED
        BY <1>6, <3>2
    <2>4. d[s] \in Leaves /\ c[s] \in Leaves
      BY <1>10, <1>13, ContentsIs
    <2> HIDE DEF d
    <2> QED
      BY <2>2, <2>3, <2>4 DEF Leaves
  <1> QED
    BY <1>9, <1>13, <1>14 DEF Restores, r
=============================================================================
