-------------------------- MODULE AdnlRecordProofs --------------------------
(***************************************************************************)
(* What the conversions of AdnlRecord do to every text, for every size of  *)
(* an address.                                                             *)
(***************************************************************************)
EXTENDS AdnlRecord, FiniteSetTheorems, SequenceTheorems,
        WellFoundedInduction, TLAPS

-----------------------------------------------------------------------------
(* Prefixes.                                                               *)

\* Pairs are sequences.
LEMMA Pairs ==
  ASSUME NEW S, NEW a \in S, NEW b \in S
  PROVE  /\ <<a, b>> \in Seq(S) /\ Len(<<a, b>>) = 2
         /\ <<a, b>>[1] = a /\ <<a, b>>[2] = b
OBVIOUS

\* The end of a sequence from its third element on.
LEMMA FromThird ==
  ASSUME NEW S, NEW s \in Seq(S), Len(s) >= 2
  PROVE  /\ SubSeq(s, 3, Len(s)) \in Seq(S) /\ Len(SubSeq(s, 3, Len(s))) = Len(s) - 2
         /\ \A i \in 1..(Len(s) - 2) : SubSeq(s, 3, Len(s))[i] = s[i + 2]
<1>1. \A i \in 3..Len(s) : s[i] \in S
  OBVIOUS
<1>2. Len(s) \in Nat
  OBVIOUS
<1> DEFINE v == SubSeq(s, 3, Len(s))
<1>3. /\ v \in Seq(S)
      /\ Len(v) = IF 3 <= Len(s) THEN Len(s) - 3 + 1 ELSE 0
      /\ \A i \in 1..(Len(s) - 3 + 1) : v[i] = s[3 + i - 1]
  BY <1>1, <1>2, SubSeqProperties
<1> HIDE DEF v
<1>4. Len(v) = Len(s) - 2
  <2>1. CASE Len(s) = 2
    BY <1>3, <2>1
  <2>2. CASE Len(s) >= 3
    BY <1>2, <1>3, <2>2
  <2>3. \A n \in Nat : n >= 2 => n = 2 \/ n >= 3
    OBVIOUS
  <2> QED BY <1>2, <2>1, <2>2, <2>3
<1>5. ASSUME NEW i \in 1..(Len(s) - 2) PROVE v[i] = s[i + 2]
  <2>1. i \in 1..(Len(s) - 3 + 1) /\ 3 + i - 1 = i + 2
    BY <1>2
  <2> QED BY <1>3, <2>1
<1> QED BY <1>3, <1>4, <1>5 DEF v

\* A sequence of two is made of its elements.
LEMMA TwoElements ==
  ASSUME NEW S, NEW s \in Seq(S), Len(s) >= 2, NEW a \in S, NEW b \in S
  PROVE  SubSeq(s, 1, 2) = <<a, b>> <=> s[1] = a /\ s[2] = b
<1> DEFINE u == SubSeq(s, 1, 2)
<1>1. u \in Seq(S) /\ Len(u) = 2 /\ u[1] = s[1] /\ u[2] = s[2]
  OBVIOUS
<1> HIDE DEF u
<1>2. u = <<a, b>> => s[1] = a /\ s[2] = b
  BY <1>1, Pairs
<1>3. s[1] = a /\ s[2] = b => u = <<a, b>>
  BY <1>1
<1> QED BY <1>2, <1>3 DEF u

\* The characters of the prefixes.
LEMMA PrefixChars == "0" \in Chars /\ "x" \in Chars /\ "X" \in Chars
BY DEF Chars, HexDigits

\* TrimPrefix with one of the two prefixes, in terms of characters.
LEMMA TrimPrefixTwo ==
  ASSUME NEW s \in Seq(Chars), NEW c \in {"x", "X"}
  PROVE  TrimPrefix(s, <<"0", c>>) =
           IF Len(s) >= 2 /\ s[1] = "0" /\ s[2] = c THEN SubSeq(s, 3, Len(s)) ELSE s
<1> DEFINE p == <<"0", c>>
<1>1. p \in Seq(Chars) /\ Len(p) = 2
  BY Pairs, PrefixChars
<1>2. ASSUME Len(s) >= 2 PROVE SubSeq(s, 1, 2) = p <=> s[1] = "0" /\ s[2] = c
  BY <1>2, TwoElements, PrefixChars
<1> HIDE DEF p
<1>3. SubSeq(p, 1, 2) = p
  BY <1>1, SubSeqFull
<1>4. Len(s) \in Nat
  OBVIOUS
<1>5. IsPrefix(p, s) <=> Len(s) >= 2 /\ s[1] = "0" /\ s[2] = c
  BY <1>1, <1>2, <1>3, <1>4 DEF IsPrefix
<1> QED BY <1>1, <1>5 DEF TrimPrefix, p

\* An address is a nonempty text of hex digits, and no failure.
LEMMA AddressText ==
  ASSUME NEW a \in Addresses
  PROVE  /\ a \in Seq(Chars) /\ Len(a) = hexLen /\ hexLen \in Nat /\ hexLen >= 2
         /\ \A i \in 1..hexLen : a[i] \in HexDigits
         /\ Range(a) \subseteq HexDigits /\ a # NoAddress
<1>1. hexLen \in Nat /\ hexLen >= 2
  BY SizeOK DEF hexLen
<1>2. a \in [1..hexLen -> Chars] /\ \A i \in 1..hexLen : a[i] \in HexDigits
  BY DEF Addresses, Chars
<1>3. a \in Seq(Chars) /\ Len(a) = hexLen
  BY <1>1, <1>2
<1>4. Range(a) \subseteq HexDigits
  BY <1>2 DEF Range
<1>5. a # NoAddress
  BY <1>1, <1>3 DEF NoAddress
<1> QED BY <1>1, <1>2, <1>3, <1>4, <1>5

\* The prefixes are texts; the long one is the two others.
LEMMA PrefixText ==
  /\ HexPrefixes \subseteq Seq(Chars)
  /\ <<"0", "x">> \o <<"0", "X">> = <<"0", "x", "0", "X">>
<1> DEFINE x == <<"0", "x">>
           X == <<"0", "X">>
           q == x \o X
           l == <<"0", "x", "0", "X">>
<1>1. x \in Seq(Chars) /\ X \in Seq(Chars) /\ <<>> \in Seq(Chars)
  BY Pairs, PrefixChars
<1>2. l \in Seq(Chars) /\ Len(l) = 4 /\ l[1] = "0" /\ l[2] = "x" /\ l[3] = "0" /\ l[4] = "X"
  <2>1. ASSUME NEW S, NEW a \in S, NEW b \in S, NEW c \in S, NEW d \in S
        PROVE  /\ <<a, b, c, d>> \in Seq(S) /\ Len(<<a, b, c, d>>) = 4
               /\ <<a, b, c, d>>[1] = a /\ <<a, b, c, d>>[2] = b
               /\ <<a, b, c, d>>[3] = c /\ <<a, b, c, d>>[4] = d
    OBVIOUS
  <2> QED BY <2>1, PrefixChars
<1>3. /\ Len(x) = 2 /\ x[1] = "0" /\ x[2] = "x"
      /\ Len(X) = 2 /\ X[1] = "0" /\ X[2] = "X"
  BY Pairs, PrefixChars
<1>4. HexPrefixes = {<<>>, x, X, l}
  BY DEF HexPrefixes
<1> HIDE DEF x, X, l
<1>5. /\ q \in Seq(Chars) /\ Len(q) = 4
      /\ q[1] = x[1] /\ q[2] = x[2] /\ q[3] = X[1] /\ q[4] = X[2]
  BY <1>1, <1>3, ConcatProperties
<1> HIDE DEF q
<1>6. q = l
  <2>1. \A i \in 1..4 : q[i] = l[i]
    BY <1>2, <1>3, <1>5
  <2> QED BY <1>2, <1>5, <2>1, SeqEqual
<1> QED BY <1>1, <1>2, <1>4, <1>6 DEF x, X, q, l

\* TrimPrefix takes the prefix away or leaves the text.
LEMMA TrimSplits ==
  ASSUME NEW t \in Seq(Chars), NEW c \in {"x", "X"}
  PROVE  /\ TrimPrefix(t, <<"0", c>>) \in Seq(Chars)
         /\ Len(TrimPrefix(t, <<"0", c>>)) <= Len(t)
         /\ \/ TrimPrefix(t, <<"0", c>>) = t
            \/ t = <<"0", c>> \o TrimPrefix(t, <<"0", c>>)
<1> DEFINE q == <<"0", c>>
           w == TrimPrefix(t, q)
           v == SubSeq(t, 3, Len(t))
           two == Len(t) >= 2 /\ t[1] = "0" /\ t[2] = c
<1>1. /\ q \in Seq(Chars) /\ Len(q) = 2 /\ q[1] = "0" /\ q[2] = c
  BY Pairs, PrefixChars
<1>2. w = IF two THEN v ELSE t
  BY TrimPrefixTwo
<1>3. two => /\ v \in Seq(Chars) /\ Len(v) = Len(t) - 2
             /\ \A i \in 1..(Len(t) - 2) : v[i] = t[i + 2]
  BY FromThird
<1>4. Len(t) \in Nat
  OBVIOUS
<1> SUFFICES w \in Seq(Chars) /\ Len(w) <= Len(t) /\ (w = t \/ t = q \o w)
  OBVIOUS
<1> HIDE DEF q, v, w
<1>5. CASE two
  <2>0. /\ q \o v \in Seq(Chars) /\ Len(q \o v) = Len(q) + Len(v)
        /\ \A i \in 1..(Len(q) + Len(v)) :
             (q \o v)[i] = IF i <= Len(q) THEN q[i] ELSE v[i - Len(q)]
    <3>1. q \in Seq(Chars) /\ v \in Seq(Chars)
      BY <1>1, <1>3, <1>5
    <3> QED BY <3>1, ConcatProperties
  <2>1. Len(q) + Len(v) = Len(t)
    BY <1>1, <1>3, <1>4, <1>5
  <2>2. ASSUME NEW i \in 1..Len(t) PROVE (q \o v)[i] = t[i]
    <3>1. CASE i \in {1, 2}
      BY <1>1, <1>5, <2>0, <2>1, <3>1
    <3>2. CASE i > 2
      <4>1. i - 2 \in 1..(Len(t) - 2) /\ (i - 2) + 2 = i
        BY <1>4, <3>2
      <4>2. (q \o v)[i] = v[i - 2]
        BY <1>1, <1>4, <2>0, <2>1, <3>2
      <4> QED BY <1>3, <1>5, <4>1, <4>2
    <3>3. i \in {1, 2} \/ i > 2
      BY <1>4
    <3> QED BY <3>1, <3>2, <3>3
  <2>3. t = q \o v
    BY <2>0, <2>1, <2>2, SeqEqual
  <2>4. w = v /\ Len(v) <= Len(t)
    BY <1>2, <1>3, <1>4, <1>5
  <2> QED BY <1>3, <1>5, <2>3, <2>4
<1>6. CASE ~two
  <2>1. w = t
    BY <1>2, <1>6
  <2> QED BY <1>4, <2>1
<1> QED BY <1>5, <1>6

\* What StripHexPrefix leaves is the text without one of the prefixes.
LEMMA StripSplits ==
  ASSUME NEW s \in Seq(Chars)
  PROVE  /\ StripHexPrefix(s) \in Seq(Chars)
         /\ Len(StripHexPrefix(s)) <= Len(s)
         /\ \E p \in HexPrefixes : s = p \o StripHexPrefix(s)
<1> DEFINE x == <<"0", "x">>
           X == <<"0", "X">>
           u == TrimPrefix(s, x)
           h == TrimPrefix(u, X)
<1>0. x \in Seq(Chars) /\ X \in Seq(Chars)
  BY Pairs, PrefixChars
<1>2. u \in Seq(Chars) /\ Len(u) <= Len(s) /\ (u = s \/ s = x \o u)
  BY TrimSplits
<1>3. h \in Seq(Chars) /\ Len(h) <= Len(u) /\ (h = u \/ u = X \o h)
  BY <1>2, TrimSplits
<1>4. StripHexPrefix(s) = h
  BY DEF StripHexPrefix
<1> HIDE DEF u, h
<1>5. \E p \in HexPrefixes : s = p \o h
  <2>1. CASE u = s /\ h = u
    BY <1>3, <2>1, ConcatEmptySeq DEF HexPrefixes
  <2>2. CASE u = s /\ u = X \o h
    BY <2>2 DEF HexPrefixes
  <2>3. CASE s = x \o u /\ h = u
    BY <2>3 DEF HexPrefixes
  <2>4. CASE s = x \o u /\ u = X \o h
    <3>1. s = (x \o X) \o h
      BY <1>0, <1>3, <2>4, ConcatAssociative
    <3> QED BY <3>1, PrefixText DEF HexPrefixes
  <2> QED BY <1>2, <1>3, <2>1, <2>2, <2>3, <2>4
<1>6. Len(s) \in Nat /\ Len(u) \in Nat /\ Len(h) \in Nat
  BY <1>2, <1>3
<1>7. Len(h) <= Len(s)
  BY <1>2, <1>3, <1>6
<1> QED BY <1>3, <1>4, <1>5, <1>7

\* An address keeps its digits, with whichever prefix it is written.
LEMMA StripText ==
  ASSUME NEW a \in Addresses, NEW p \in HexPrefixes
  PROVE  StripHexPrefix(p \o a) = a
<1> USE AddressText, PrefixText
<1>1. ASSUME NEW c \in {"x", "X"} PROVE TrimPrefix(a, <<"0", c>>) = a
  <2>1. a[2] # c
    BY DEF HexDigits
  <2> QED BY <2>1, TrimPrefixTwo
<1>2. ASSUME NEW c \in {"x", "X"}, NEW t \in Seq(Chars)
      PROVE  /\ <<"0", c>> \o t \in Seq(Chars)
             /\ TrimPrefix(<<"0", c>> \o t, <<"0", c>>) = t
  <2> DEFINE q == <<"0", c>>
             s == q \o t
  <2>1. q \in Seq(Chars) /\ Len(q) = 2 /\ q[1] = "0" /\ q[2] = c
    BY Pairs, PrefixChars
  <2>2. /\ s \in Seq(Chars) /\ Len(s) = Len(t) + 2 /\ s[1] = "0" /\ s[2] = c
        /\ \A i \in 1..Len(t) : s[i + 2] = t[i]
    BY <2>1, ConcatProperties
  <2> HIDE DEF q, s
  <2>0. Len(t) \in Nat /\ Len(s) >= 2
    BY <2>2
  <2>3. TrimPrefix(s, <<"0", c>>) = SubSeq(s, 3, Len(s))
    BY <2>0, <2>2, TrimPrefixTwo
  <2>4. /\ SubSeq(s, 3, Len(s)) \in Seq(Chars) /\ Len(SubSeq(s, 3, Len(s))) = Len(t)
        /\ \A i \in 1..Len(t) : SubSeq(s, 3, Len(s))[i] = t[i]
    BY <2>2, FromThird
  <2>5. SubSeq(s, 3, Len(s)) = t
    BY <2>4, SeqEqual
  <2> QED BY <2>2, <2>3, <2>5 DEF q, s
<1>3. CASE p = <<>>
  <2>1. p \o a = a
    BY <1>3, ConcatEmptySeq
  <2> QED BY <1>1, <2>1 DEF StripHexPrefix
<1>4. CASE p = <<"0", "x">>
  BY <1>1, <1>2, <1>4 DEF StripHexPrefix
<1>5. CASE p = <<"0", "X">>
  <2> DEFINE s == p \o a
  <2>1. s \in Seq(Chars) /\ s[2] = "X"
    BY <1>5, ConcatProperties
  <2>2. TrimPrefix(s, <<"0", "x">>) = s
    BY <2>1, TrimPrefixTwo
  <2> QED BY <1>2, <1>5, <2>2 DEF StripHexPrefix
<1>6. CASE p = <<"0", "x", "0", "X">>
  <2>1. p = <<"0", "x">> \o <<"0", "X">>
    BY <1>6
  <2>2. <<"0", "x">> \in Seq(Chars) /\ <<"0", "X">> \in Seq(Chars)
    BY Pairs, PrefixChars
  <2>3. p \o a = <<"0", "x">> \o (<<"0", "X">> \o a)
    BY <2>1, <2>2, ConcatAssociative
  <2> QED BY <1>2, <2>3 DEF StripHexPrefix
<1> QED BY <1>3, <1>4, <1>5, <1>6 DEF HexPrefixes

\* ParseADNLAddress gives address a for the texts that stand for a and for no
\* other (resolver.go:317-335).
THEOREM ParseExact ==
  ASSUME NEW s \in Seq(Chars), NEW a \in Addresses
  PROVE  ParseADNLAddress(s) = a <=> s \in TextsOf(a)
<1> DEFINE h == StripHexPrefix(s)
<1>1. ASSUME ParseADNLAddress(s) = a PROVE s \in TextsOf(a)
  <2>1. h = a
    BY <1>1, AddressText DEF ParseADNLAddress
  <2> QED BY <2>1, StripSplits DEF TextsOf
<1>2. ASSUME s \in TextsOf(a) PROVE ParseADNLAddress(s) = a
  <2>1. h = a
    BY <1>2, StripText DEF TextsOf
  <2> QED BY <2>1, AddressText DEF ParseADNLAddress
<1> QED BY <1>1, <1>2

\* ParseADNLAddress gives an address, without the prefix, or fails.
LEMMA ParseGives ==
  ASSUME NEW s \in Seq(Chars), ParseADNLAddress(s) # NoAddress
  PROVE  /\ ParseADNLAddress(s) = StripHexPrefix(s)
         /\ StripHexPrefix(s) \in Addresses
<1> DEFINE h == StripHexPrefix(s)
<1>1. h \in Seq(Chars) /\ Len(h) = hexLen /\ Range(h) \subseteq HexDigits
  BY StripSplits DEF ParseADNLAddress
<1> HIDE DEF h
<1>2. h \in [1..hexLen -> Chars] /\ \A i \in 1..hexLen : h[i] \in HexDigits
  BY <1>1 DEF Range
<1>3. h \in Addresses
  BY <1>2 DEF Addresses
<1> QED BY <1>3 DEF ParseADNLAddress, h

-----------------------------------------------------------------------------
(* The host name.                                                          *)

Bit == {0, 1}

\* The digits differ in the first and in the last of their bits.
LEMMA NibbleBits ==
  ASSUME NEW d \in HexDigits
  PROVE  /\ \A k \in 1..4 : Nibble(d)[k] \in Bit
         /\ Nibble(d)[1] = IF d = "a" THEN 1 ELSE 0
         /\ Nibble(d)[4] = IF d = "1" THEN 1 ELSE 0
<1>1. CASE d = "0"
  BY <1>1 DEF Nibble, Bit
<1>2. CASE d = "1"
  BY <1>2 DEF Nibble, Bit
<1>3. CASE d = "a"
  BY <1>3 DEF Nibble, Bit
<1> QED BY <1>1, <1>2, <1>3 DEF HexDigits

\* Bit k of digit i is found at its place.
LEMMA BitAt ==
  ASSUME NEW a \in Addresses, NEW i \in 1..hexLen, NEW k \in 1..4
  PROVE  /\ 4 * (i - 1) + k \in 1..(4 * hexLen)
         /\ Bits(a)[4 * (i - 1) + k] = Nibble(a[i])[k]
<1> DEFINE m == 4 * (i - 1) + k
<1>1. i \in Nat /\ i >= 1 /\ i <= hexLen /\ hexLen \in Nat /\ Len(a) = hexLen
  BY AddressText
<1>2. m \in 1..(4 * hexLen)
  BY <1>1
<1>3. (m + 3) \div 4 = i /\ ((m - 1) % 4) + 1 = k
  BY <1>1
<1> HIDE DEF m
<1>4. Bits(a)[m] = Nibble(a[(m + 3) \div 4])[((m - 1) % 4) + 1]
  BY <1>1, <1>2 DEF Bits
<1> QED BY <1>2, <1>3, <1>4 DEF m

\* The bits of an address.
LEMMA BitsType ==
  ASSUME NEW a \in Addresses
  PROVE  Bits(a) \in Seq(Bit) /\ Len(Bits(a)) = 4 * hexLen
<1>1. hexLen \in Nat /\ Len(a) = hexLen /\ \A i \in 1..hexLen : a[i] \in HexDigits
  BY AddressText
<1>2. ASSUME NEW m \in 1..(4 * hexLen)
      PROVE  Nibble(a[(m + 3) \div 4])[((m - 1) % 4) + 1] \in Bit
  <2>1. (m + 3) \div 4 \in 1..hexLen /\ ((m - 1) % 4) + 1 \in 1..4
    BY <1>1
  <2> QED BY <1>1, <2>1, NibbleBits
<1>3. Bits(a) = [m \in 1..(4 * hexLen) |-> Nibble(a[(m + 3) \div 4])[((m - 1) % 4) + 1]]
  BY <1>1 DEF Bits
<1>4. Bits(a) \in [1..(4 * hexLen) -> Bit]
  BY <1>2, <1>3
<1>5. 4 * hexLen \in Nat
  BY <1>1
<1> QED BY <1>4, <1>5

\* What SerializeADNLAddress encodes: prefix, address, checksum.
Prefix2d == <<0, 0, 1, 0, 1, 1, 0, 1>>
Full(a) == (Prefix2d \o Bits(a)) \o Checksum(Prefix2d \o Bits(a))

\* The address is in it.
LEMMA FullBits ==
  ASSUME NEW a \in Addresses
  PROVE  /\ Full(a) \in Seq(Bit) /\ Len(Full(a)) = 4 * hexLen + 9
         /\ \A m \in 1..(4 * hexLen) : Full(a)[m + 8] = Bits(a)[m]
<1> DEFINE p == Prefix2d
           b == Bits(a)
           q == p \o b
           c == Checksum(q)
<1>0. 4 * hexLen \in Nat
  BY AddressText
<1>1. p \in Seq(Bit) /\ Len(p) = 8
  <2>1. ASSUME NEW z \in Bit, NEW o \in Bit
        PROVE  LET s == <<z, z, o, z, o, o, z, o>> IN s \in Seq(Bit) /\ Len(s) = 8
    OBVIOUS
  <2> QED BY <2>1 DEF Prefix2d, Bit
<1>2. b \in Seq(Bit) /\ Len(b) = 4 * hexLen
  BY BitsType
<1> HIDE DEF p, b
<1>3. /\ q \in Seq(Bit) /\ Len(q) = 4 * hexLen + 8
      /\ \A m \in 1..(4 * hexLen) : q[m + 8] = b[m]
  <2>1. /\ q \in Seq(Bit) /\ Len(q) = Len(p) + Len(b)
        /\ \A i \in 1..(Len(p) + Len(b)) :
             q[i] = IF i <= Len(p) THEN p[i] ELSE b[i - Len(p)]
    BY <1>1, <1>2, ConcatProperties
  <2> HIDE DEF q
  <2>2. ASSUME NEW m \in 1..(4 * hexLen) PROVE q[m + 8] = b[m]
    <3>1. m + 8 \in 1..(Len(p) + Len(b)) /\ ~(m + 8 <= Len(p)) /\ (m + 8) - Len(p) = m
      BY <1>0, <1>1, <1>2
    <3> QED BY <2>1, <3>1
  <2> QED BY <1>0, <1>1, <1>2, <2>1, <2>2
<1> HIDE DEF q
<1>4. c \in Seq(Bit) /\ Len(c) = 1
  <2>1. Cardinality({i \in DOMAIN q : q[i] = 1}) \in Nat
    <3>1. DOMAIN q = 1..Len(q) /\ Len(q) \in Nat
      BY <1>3
    <3>2. IsFiniteSet(DOMAIN q)
      BY <3>1, FS_Interval
    <3> QED BY <3>2, FS_Subset, FS_CardinalityType
  <2>2. Cardinality({i \in DOMAIN q : q[i] = 1}) % 2 \in Bit
    BY <2>1 DEF Bit
  <2> QED BY <2>2 DEF Checksum
<1> HIDE DEF c
<1>5. /\ q \o c \in Seq(Bit) /\ Len(q \o c) = Len(q) + Len(c)
      /\ \A i \in 1..(Len(q) + Len(c)) :
           (q \o c)[i] = IF i <= Len(q) THEN q[i] ELSE c[i - Len(q)]
  BY <1>3, <1>4, ConcatProperties
<1>6. ASSUME NEW m \in 1..(4 * hexLen) PROVE (q \o c)[m + 8] = b[m]
  <2>1. m + 8 \in 1..(Len(q) + Len(c)) /\ m + 8 <= Len(q)
    BY <1>0, <1>3, <1>4
  <2> QED BY <1>3, <1>5, <2>1
<1>7. Len(q \o c) = 4 * hexLen + 9
  BY <1>0, <1>3, <1>4, <1>5
<1>8. Full(a) = q \o c
  BY DEF Full, p, b, q, c
<1> QED BY <1>5, <1>6, <1>7, <1>8 DEF b

\* Base32, without its first character, keeps all bits but the first five.
LEMMA Base32Bits ==
  ASSUME NEW q \in Seq(Bit), Len(q) >= 6
  PROVE  /\ Len(Tail(Base32(q))) = ((Len(q) + 4) \div 5) - 1
         /\ \A k \in 6..Len(q) :
              Tail(Base32(q))[((k + 4) \div 5) - 1][k - 5 * (((k + 4) \div 5) - 1)] = q[k]
<1> DEFINE L == Len(q)
           n == (L + 4) \div 5
           C == [1..5 -> Bit]
           B == Base32(q)
<1>1. L \in Nat /\ n \in Nat /\ n >= 2
  <2>1. L \in Nat /\ L >= 6
    OBVIOUS
  <2> QED BY <2>1
<1>2. B = [i \in 1..n |-> [j \in 1..5 |->
             IF 5 * (i - 1) + j <= L THEN q[5 * (i - 1) + j] ELSE 0]]
  BY DEF Base32
<1>3. ASSUME NEW i \in 1..n
      PROVE  [j \in 1..5 |-> IF 5 * (i - 1) + j <= L THEN q[5 * (i - 1) + j] ELSE 0] \in C
  <2>1. ASSUME NEW j \in 1..5, 5 * (i - 1) + j <= L PROVE 5 * (i - 1) + j \in 1..L
    BY <1>1, <2>1
  <2> QED BY <2>1 DEF Bit
<1> HIDE DEF L, n, B
<1>4. B \in [1..n -> C]
  BY <1>2, <1>3
<1> HIDE DEF C
<1>5. B \in Seq(C) /\ Len(B) = n
  BY <1>1, <1>4
<1>6. B # <<>>
  BY <1>1, <1>5
<1>7. Len(Tail(B)) = n - 1 /\ \A i \in 1..(n - 1) : Tail(B)[i] = B[i + 1]
  BY <1>1, <1>5, <1>6, HeadTailProperties
<1>8. ASSUME NEW k \in 6..L
      PROVE  Tail(B)[((k + 4) \div 5) - 1][k - 5 * (((k + 4) \div 5) - 1)] = q[k]
  <2> DEFINE i == (k + 4) \div 5
             j == k - 5 * (i - 1)
  <2>1. i - 1 \in 1..(n - 1) /\ (i - 1) + 1 = i /\ i \in 1..n
    BY <1>1 DEF n
  <2>2. j \in 1..5 /\ 5 * (i - 1) + j = k /\ k <= L
    BY <1>1
  <2> HIDE DEF i, j
  <2>3. Tail(B)[i - 1] = B[i]
    BY <1>7, <2>1
  <2>4. B[i][j] = IF 5 * (i - 1) + j <= L THEN q[5 * (i - 1) + j] ELSE 0
    BY <1>2, <2>1, <2>2
  <2> QED BY <2>2, <2>3, <2>4 DEF i, j
<1> QED BY <1>7, <1>8 DEF L, n, B

\* Different addresses have different hosts, and none of them is the failure
\* (resolver.go:255-266).
THEOREM SerializeExact ==
  ASSUME NEW a \in Addresses
  PROVE  /\ SerializeADNLAddress(a) # NoAddress
         /\ \A b \in Addresses : SerializeADNLAddress(a) = SerializeADNLAddress(b) => a = b
<1>0. hexLen \in Nat /\ hexLen >= 2
  BY AddressText
<1>1. \A x \in Addresses : SerializeADNLAddress(x) = Tail(Base32(Full(x)))
  BY DEF SerializeADNLAddress, Full, Prefix2d
<1>2. SerializeADNLAddress(a) # NoAddress
  <2>1. Full(a) \in Seq(Bit) /\ Len(Full(a)) = 4 * hexLen + 9
    BY FullBits
  <2>2. Len(Tail(Base32(Full(a)))) = ((4 * hexLen + 13) \div 5) - 1
    BY <1>0, <2>1, Base32Bits
  <2>3. ((4 * hexLen + 13) \div 5) - 1 # 1
    BY <1>0
  <2>4. Len(NoAddress) = 1
    BY DEF NoAddress
  <2>5. Len(SerializeADNLAddress(a)) # 1
    BY <1>1, <2>2, <2>3
  <2> QED BY <2>4, <2>5
<1>3. ASSUME NEW b \in Addresses, SerializeADNLAddress(a) = SerializeADNLAddress(b)
      PROVE  a = b
  <2>1. ASSUME NEW m \in 1..(4 * hexLen) PROVE Bits(a)[m] = Bits(b)[m]
    <3>1. m + 8 \in 6..(4 * hexLen + 9) /\ 4 * hexLen + 9 >= 6
      BY <1>0
    <3>2. \A x \in Addresses :
            /\ Full(x) \in Seq(Bit) /\ Len(Full(x)) = 4 * hexLen + 9
            /\ Full(x)[m + 8] = Bits(x)[m]
      BY FullBits
    <3> DEFINE k == m + 8
               At(s) == s[((k + 4) \div 5) - 1][k - 5 * (((k + 4) \div 5) - 1)]
    <3>3. ASSUME NEW x \in Addresses PROVE At(Tail(Base32(Full(x)))) = Full(x)[k]
      <4>1. Full(x) \in Seq(Bit) /\ Len(Full(x)) >= 6 /\ k \in 6..Len(Full(x))
        BY <3>1, <3>2
      <4> HIDE DEF k
      <4> QED BY <4>1, Base32Bits
    <3> HIDE DEF At
    <3> QED BY <1>1, <1>3, <3>2, <3>3
  <2>2. ASSUME NEW i \in 1..hexLen PROVE a[i] = b[i]
    <3>1. a[i] \in HexDigits /\ b[i] \in HexDigits
      BY AddressText
    <3>2. ASSUME NEW k \in 1..4 PROVE Nibble(a[i])[k] = Nibble(b[i])[k]
      BY <2>1, BitAt
    <3>3. Nibble(a[i])[1] = Nibble(b[i])[1] /\ Nibble(a[i])[4] = Nibble(b[i])[4]
      BY <3>2
    <3> QED BY <3>1, <3>3, NibbleBits DEF HexDigits
  <2>3. a \in [1..hexLen -> HexDigits] /\ b \in [1..hexLen -> HexDigits]
    BY DEF Addresses
  <2>4. a = [i \in 1..hexLen |-> a[i]] /\ b = [i \in 1..hexLen |-> b[i]]
    BY <2>3
  <2>5. [i \in 1..hexLen |-> a[i]] = [i \in 1..hexLen |-> b[i]]
    BY <2>2
  <2> QED BY <2>4, <2>5, Zenon
<1> QED BY <1>2, <1>3

-----------------------------------------------------------------------------
(* From the record to the host.                                            *)

\* What ResolveToADNL makes of what Resolve returned.
HostFrom(res) == IF res = NoAddress THEN NoAddress ELSE HostOf(res)

\* The text that a Resolve method checks and returns.
Checked(s) == IF ParseADNLAddress(s) # NoAddress THEN s ELSE NoAddress

\* An address is a text for itself.
LEMMA AddressIsText ==
  ASSUME NEW a \in Addresses
  PROVE  StripHexPrefix(a) = a /\ ParseADNLAddress(a) = a /\ HostFrom(a) = SerializeADNLAddress(a)
<1>1. StripHexPrefix(a) = a
  <2>1. <<>> \in HexPrefixes /\ a \in Seq(Chars)
    BY AddressText DEF HexPrefixes
  <2>2. <<>> \o a = a
    BY <2>1, ConcatEmptySeq
  <2> QED BY <2>1, <2>2, StripText
<1>2. Len(a) = hexLen /\ Range(a) \subseteq HexDigits /\ a # NoAddress
  BY AddressText
<1> QED BY <1>1, <1>2 DEF ParseADNLAddress, HostFrom, HostOf

\* A checked text becomes the host of a exactly if it stands for a.
LEMMA TextHost ==
  ASSUME NEW s \in Seq(Chars), NEW a \in Addresses
  PROVE  HostFrom(Checked(s)) = SerializeADNLAddress(a) <=> s \in TextsOf(a)
<1>1. CASE ParseADNLAddress(s) = NoAddress
  BY <1>1, ParseExact, SerializeExact, AddressText DEF Checked, HostFrom
<1>2. CASE ParseADNLAddress(s) # NoAddress
  <2> DEFINE h == StripHexPrefix(s)
  <2>1. h \in Addresses /\ ParseADNLAddress(s) = h
    BY <1>2, ParseGives
  <2>2. s # NoAddress
    <3>1. NoAddress[1] = "none" /\ Len(NoAddress) = 1
      BY DEF NoAddress
    <3>2. "none" \notin Chars
      BY DEF Chars, HexDigits, NUL, Blank
    <3>3. ASSUME Len(s) = 1 PROVE s[1] \in Chars
      BY <3>3
    <3> QED BY <3>1, <3>2, <3>3
  <2>3. HostOf(s) = SerializeADNLAddress(h)
    BY <2>1, AddressText DEF HostOf
  <2>4. HostFrom(Checked(s)) = SerializeADNLAddress(h)
    BY <1>2, <2>2, <2>3 DEF HostFrom, Checked
  <2> QED BY <2>1, <2>4, ParseExact, SerializeExact
<1> QED BY <1>1, <1>2

\* The empty text is no address.
LEMMA EmptyParses == ParseADNLAddress(<<>>) = NoAddress
<1>1. <<>> \in Seq(Chars) /\ Len(<<>>) = 0
  OBVIOUS
<1>2. StripHexPrefix(<<>>) \in Seq(Chars) /\ Len(StripHexPrefix(<<>>)) <= 0
  BY <1>1, StripSplits
<1>3. Len(StripHexPrefix(<<>>)) # hexLen
  BY <1>2, SizeOK DEF hexLen
<1> QED BY <1>3 DEF ParseADNLAddress

\* A set of naturals has a least element.
LEMMA LeastNat ==
  ASSUME NEW T \in SUBSET Nat, T # {}
  PROVE  \E m \in T : \A k \in T : m <= k
<1> DEFINE Lt == OpToRel(<, Nat)
<1>1. \A k, m \in Nat : <<k, m>> \in Lt <=> k < m
  BY DEF OpToRel
<1>2. IsWellFoundedOn(Lt, Nat)
  BY NatLessThanWellFounded
<1> HIDE DEF Lt
<1>3. PICK m \in T : \A k \in T : ~(<<k, m>> \in Lt)
  BY <1>2, WFMin
<1>4. ASSUME NEW k \in T PROVE m <= k
  <2>1. k \in Nat /\ m \in Nat /\ ~(k < m)
    BY <1>1, <1>3, Zenon
  <2> QED BY <2>1
<1> QED BY <1>4

\* The greatest and the least of a set of positions.
LEMMA Extremes ==
  ASSUME NEW n \in Nat, NEW K \in SUBSET (1..n), K # {}
  PROVE  /\ Max(K) \in K /\ \A i \in K : i <= Max(K)
         /\ Min(K) \in K /\ \A i \in K : Min(K) <= i
<1>1. \E x \in K : \A y \in K : x >= y
  <2> DEFINE U == {m \in Nat : \A y \in K : m >= y}
  <2>1. n \in U /\ U \in SUBSET Nat
    OBVIOUS
  <2>2. PICK m \in U : \A k \in U : m <= k
    BY <2>1, LeastNat
  <2>3. m \in Nat /\ \A y \in K : m >= y
    BY <2>2
  <2>4. ASSUME m \notin K PROVE FALSE
    <3>1. \A y \in K : y \in Nat /\ y >= 1 /\ m - 1 >= y
      BY <2>3, <2>4
    <3>0. PICK y \in K : TRUE
      OBVIOUS
    <3>2. m - 1 \in Nat
      BY <2>3, <3>0, <3>1
    <3>3. m - 1 \in U
      BY <3>1, <3>2
    <3> HIDE DEF U
    <3> QED BY <2>2, <2>3, <3>3
  <2> QED BY <2>3, <2>4
<1>2. Max(K) \in K /\ \A i \in K : Max(K) >= i
  BY <1>1 DEF Max
<1>3. \E x \in K : \A y \in K : x <= y
  BY LeastNat
<1>4. Min(K) \in K /\ \A i \in K : Min(K) <= i
  BY <1>3 DEF Min
<1> QED BY <1>2, <1>4

-----------------------------------------------------------------------------
(* Account data of SNS.                                                    *)

\* TrimRightNUL keeps everything up to the last byte that is not NUL.
LEMMA TrimRightFacts ==
  ASSUME NEW u \in Seq(Chars)
  PROVE  LET l == Len(TrimRightNUL(u))
         IN /\ TrimRightNUL(u) \in Seq(Chars) /\ l \in 0..Len(u)
            /\ TrimRightNUL(u) = SubSeq(u, 1, l)
            /\ l > 0 => u[l] # NUL
            /\ \A i \in 1..Len(u) : u[i] # NUL => i <= l
<1> DEFINE K == {i \in 1..Len(u) : u[i] # NUL}
           r == TrimRightNUL(u)
<1>0. Len(u) \in Nat /\ K \in SUBSET (1..Len(u))
  OBVIOUS
<1>1. CASE K = {}
  <2>1. r = <<>> /\ SubSeq(u, 1, 0) = <<>>
    BY <1>1, SubSeqEmpty DEF TrimRightNUL
  <2>2. <<>> \in Seq(Chars) /\ Len(<<>>) = 0
    OBVIOUS
  <2> QED BY <1>0, <1>1, <2>1, <2>2
<1>2. CASE K # {}
  <2> DEFINE m == Max(K)
  <2>1. m \in K /\ \A i \in K : i <= m
    BY <1>0, <1>2, Extremes
  <2>2. r = SubSeq(u, 1, m)
    BY <1>2 DEF TrimRightNUL
  <2> HIDE DEF m
  <2>3. m \in 1..Len(u) /\ u[m] # NUL
    BY <2>1
  <2>4. SubSeq(u, 1, m) \in Seq(Chars) /\ Len(SubSeq(u, 1, m)) = m
    BY <1>0, <2>3
  <2>5. \A i \in 1..Len(u) : u[i] # NUL => i <= m
    BY <2>1
  <2>6. r \in Seq(Chars) /\ Len(r) = m
    BY <2>2, <2>4
  <2>7. m \in 0..Len(u)
    BY <1>0, <2>3
  <2> HIDE DEF r, K
  <2> QED BY <2>2, <2>3, <2>5, <2>6, <2>7 DEF r
<1> QED BY <1>1, <1>2

\* TrimRightNUL cuts at a given byte.
LEMMA TrimRightAt ==
  ASSUME NEW u \in Seq(Chars), NEW n \in 1..Len(u), u[n] # NUL,
         \A i \in 1..Len(u) : i > n => u[i] = NUL
  PROVE  TrimRightNUL(u) = SubSeq(u, 1, n)
<1> DEFINE l == Len(TrimRightNUL(u))
<1>1. /\ l \in 0..Len(u) /\ TrimRightNUL(u) = SubSeq(u, 1, l)
      /\ l > 0 => u[l] # NUL
      /\ n <= l
  BY TrimRightFacts
<1>2. Len(u) \in Nat
  OBVIOUS
<1> HIDE DEF l
<1>3. l \in 1..Len(u) /\ ~(l > n)
  BY <1>1, <1>2
<1>4. l = n
  BY <1>1, <1>2, <1>3
<1> QED BY <1>1, <1>4

\* TrimSpace gives a part of the text, all of it if there is no blank at its
\* ends.
LEMMA TrimSpaceFacts ==
  ASSUME NEW u \in Seq(Chars)
  PROVE  /\ TrimSpace(u) \in Seq(Chars)
         /\ \E lo \in Nat : \A j \in 1..Len(TrimSpace(u)) :
              lo + j \in 1..Len(u) /\ TrimSpace(u)[j] = u[lo + j]
         /\ Len(u) > 0 /\ u[1] # Blank /\ u[Len(u)] # Blank => TrimSpace(u) = u
<1> DEFINE K == {i \in 1..Len(u) : u[i] # Blank}
           r == TrimSpace(u)
<1>0. Len(u) \in Nat /\ K \in SUBSET (1..Len(u))
  OBVIOUS
<1>1. CASE K = {}
  <2>1. r = <<>> /\ <<>> \in Seq(Chars) /\ Len(<<>>) = 0
    BY <1>1 DEF TrimSpace
  <2>2. ASSUME Len(u) > 0, u[1] # Blank PROVE FALSE
    <3>1. 1 \in 1..Len(u)
      BY <1>0, <2>2
    <3> QED BY <1>1, <2>2, <3>1
  <2>3. 0 \in Nat /\ \A j \in 1..Len(r) : FALSE
    BY <2>1
  <2> HIDE DEF K, r
  <2> QED BY <2>1, <2>2, <2>3 DEF r
<1>2. CASE K # {}
  <2> DEFINE a == Min(K)
             b == Max(K)
  <2>1. /\ a \in K /\ \A i \in K : a <= i
        /\ b \in K /\ \A i \in K : i <= b
    BY <1>0, <1>2, Extremes
  <2>2. r = SubSeq(u, a, b)
    BY <1>2 DEF TrimSpace
  <2> HIDE DEF a, b, r
  <2>3. a \in 1..Len(u) /\ b \in 1..Len(u) /\ a <= b
    BY <2>1
  <2>4. a \in Int /\ b \in Int /\ \A i \in a..b : u[i] \in Chars
    BY <1>0, <2>3
  <2>5. /\ r \in Seq(Chars) /\ Len(r) = IF a <= b THEN b - a + 1 ELSE 0
        /\ \A i \in 1..(b - a + 1) : r[i] = u[a + i - 1]
    BY <2>2, <2>4, SubSeqProperties
  <2>6. Len(r) = b - a + 1
    BY <2>3, <2>5
  <2>7. ASSUME NEW j \in 1..Len(r)
        PROVE  (a - 1) + j \in 1..Len(u) /\ r[j] = u[(a - 1) + j]
    <3>1. j \in 1..(b - a + 1)
      BY <2>6
    <3>2. (a - 1) + j \in 1..Len(u) /\ (a - 1) + j = a + j - 1
      BY <1>0, <2>3, <3>1
    <3> QED BY <2>5, <3>1, <3>2
  <2>8. ASSUME Len(u) > 0, u[1] # Blank, u[Len(u)] # Blank PROVE r = u
    <3>1. 1 \in K /\ Len(u) \in K
      BY <1>0, <2>8
    <3> HIDE DEF K
    <3>2. a = 1 /\ b = Len(u)
      BY <1>0, <2>1, <2>3, <3>1
    <3> QED BY <2>2, <3>2, SubSeqFull
  <2>9. a - 1 \in Nat
    BY <1>0, <2>3
  <2> HIDE DEF K
  <2> QED BY <2>5, <2>7, <2>8, <2>9 DEF r
<1> QED BY <1>1, <1>2

\* A text for an address begins and ends with a digit.
LEMMA TextEnds ==
  ASSUME NEW a \in Addresses, NEW t \in TextsOf(a)
  PROVE  /\ t \in Seq(Chars) /\ Len(t) \in Nat /\ Len(t) >= hexLen
         /\ t[1] \in HexDigits /\ t[Len(t)] \in HexDigits
<1>1. PICK p \in HexPrefixes : t = p \o a
  BY DEF TextsOf
<1>2. /\ a \in Seq(Chars) /\ Len(a) = hexLen /\ hexLen \in Nat /\ hexLen >= 2
      /\ \A i \in 1..hexLen : a[i] \in HexDigits
  BY AddressText
<1>3. p \in Seq(Chars) /\ Len(p) \in Nat
  BY PrefixText
<1>4. Len(p) > 0 => p[1] = "0"
  BY DEF HexPrefixes
<1>5. /\ t \in Seq(Chars) /\ Len(t) = Len(p) + Len(a)
      /\ \A i \in 1..(Len(p) + Len(a)) : t[i] = IF i <= Len(p) THEN p[i] ELSE a[i - Len(p)]
  BY <1>1, <1>2, <1>3, ConcatProperties
<1>6. Len(t) = Len(p) + hexLen
  BY <1>2, <1>5
<1>7. t[1] \in HexDigits
  <2>1. 1 \in 1..(Len(p) + Len(a))
    BY <1>2, <1>3
  <2>2. CASE Len(p) > 0
    BY <1>3, <1>4, <1>5, <2>1, <2>2 DEF HexDigits
  <2>3. CASE Len(p) = 0
    BY <1>2, <1>5, <2>1, <2>3
  <2> QED BY <1>3, <2>2, <2>3
<1>8. t[Len(t)] \in HexDigits
  <2>1. Len(t) \in 1..(Len(p) + Len(a)) /\ ~(Len(t) <= Len(p)) /\ Len(t) - Len(p) = hexLen
    BY <1>2, <1>3, <1>6
  <2>2. t[Len(t)] = a[hexLen]
    BY <1>5, <2>1
  <2> QED BY <1>2, <2>2
<1>9. Len(t) \in Nat /\ Len(t) >= hexLen
  BY <1>2, <1>3, <1>6
<1> QED BY <1>5, <1>7, <1>8, <1>9

\* A digit is no padding.
LEMMA DigitsAreVisible == \A d \in HexDigits : d # Blank /\ d # NUL
BY DEF HexDigits, NUL, Blank

\* Once blanks and zero bytes are gone, a text for an address is read.
LEMMA SnsTextRead ==
  ASSUME NEW a \in Addresses, NEW payload \in Seq(Chars), payload # <<>>,
         TrimRightNUL(TrimSpace(payload)) \in TextsOf(a)
  PROVE  ResolveSNS(payload) = a
<1>1. SnsText(payload) = a
  BY StripText DEF SnsText, TextsOf
<1>2. Len(SnsText(payload)) = hexLen
  BY <1>1, AddressText
<1>3. ~TakesRaw(payload)
  BY <1>2 DEF TakesRaw
<1> QED BY <1>1, <1>3, AddressIsText, AddressText DEF ResolveSNS

\* Resolve of SNS reads every payload that stands for an address: a text
\* with padding, or the bytes (sns.go:101-118).
THEOREM SnsExact ==
  ASSUME NEW a \in Addresses, NEW payload \in Seq(Chars), IsPayloadOf(payload, a)
  PROVE  ResolveSNS(payload) = a
<1>0. hexLen \in Nat /\ hexLen >= 2 /\ Len(payload) \in Nat
  BY AddressText
<1>1. CASE \E k \in 0..Len(payload) : \E s \in TextsOf(a) : payload = Padded(s, k, NUL)
  <2>1. PICK k \in 0..Len(payload), t \in TextsOf(a) : payload = Padded(t, k, NUL)
    BY <1>1
  <2> DEFINE z == [i \in 1..k |-> NUL]
  <2>2. k \in Nat /\ NUL \in Chars
    BY <1>0 DEF Chars
  <2>3. z \in Seq(Chars) /\ Len(z) = k /\ \A i \in 1..k : z[i] = NUL
    BY <2>2
  <2> HIDE DEF z
  <2>4. /\ t \in Seq(Chars) /\ Len(t) \in Nat /\ Len(t) >= hexLen
        /\ t[1] \in HexDigits /\ t[Len(t)] \in HexDigits
    BY TextEnds
  <2>5. payload = t \o z
    BY <2>1 DEF Padded, z
  <2>6. /\ Len(payload) = Len(t) + Len(z)
        /\ \A i \in 1..(Len(t) + Len(z)) :
             payload[i] = IF i <= Len(t) THEN t[i] ELSE z[i - Len(t)]
    BY <2>3, <2>4, <2>5, ConcatProperties
  <2>7. Len(payload) = Len(t) + k /\ Len(t) >= 1 /\ Len(t) \in 1..Len(payload)
    BY <1>0, <2>2, <2>3, <2>4, <2>6
  <2>8. \A i \in 1..Len(t) : payload[i] = t[i]
    BY <2>2, <2>3, <2>4, <2>6
  <2>9. ASSUME NEW i \in 1..Len(payload), i > Len(t) PROVE payload[i] = NUL
    <3>1. i - Len(t) \in 1..k /\ ~(i <= Len(t)) /\ i \in 1..(Len(t) + Len(z))
      BY <2>2, <2>3, <2>4, <2>7, <2>9
    <3> QED BY <2>3, <2>6, <3>1
  <2>10. payload[1] # Blank /\ payload[Len(payload)] # Blank /\ payload[Len(t)] # NUL
    <3>1. payload[1] = t[1] /\ payload[Len(t)] = t[Len(t)]
      BY <2>4, <2>7, <2>8
    <3>2. CASE k = 0
      BY <2>4, <2>7, <3>1, <3>2, DigitsAreVisible
    <3>3. CASE k > 0
      <4>1. Len(payload) \in 1..Len(payload) /\ Len(payload) > Len(t)
        BY <1>0, <2>2, <2>4, <2>7, <3>3
      <4>2. payload[Len(payload)] = NUL
        BY <2>9, <4>1
      <4> QED BY <2>4, <3>1, <4>2, DigitsAreVisible DEF NUL, Blank
    <3> QED BY <2>2, <3>2, <3>3
  <2>11. TrimSpace(payload) = payload
    <3>1. Len(payload) > 0
      BY <1>0, <2>2, <2>4, <2>7
    <3> QED BY <2>10, <3>1, TrimSpaceFacts
  <2>12. TrimRightNUL(payload) = SubSeq(payload, 1, Len(t))
    BY <2>7, <2>9, <2>10, TrimRightAt
  <2>13. SubSeq(payload, 1, Len(t)) = t
    <3>1. SubSeq(t \o z, 1, Len(t)) = SubSeq(t, 1, Len(t))
      BY <2>3, <2>4, <2>7, SubSeqOfConcat1
    <3> QED BY <2>4, <2>5, <3>1, SubSeqFull
  <2>14. payload # <<>>
    BY <2>4, <2>7
  <2> QED BY <2>11, <2>12, <2>13, <2>14, SnsTextRead
<1>2. CASE TrimSpace(payload) \in TextsOf(a)
  <2> DEFINE t == TrimSpace(payload)
  <2>1. /\ t \in Seq(Chars) /\ Len(t) \in Nat /\ Len(t) >= hexLen
        /\ t[Len(t)] \in HexDigits
    BY <1>2, TextEnds
  <2>2. payload # <<>>
    <3>1. ASSUME payload = <<>> PROVE t = <<>>
      BY <3>1 DEF TrimSpace
    <3>2. Len(<<>>) = 0
      OBVIOUS
    <3> QED BY <1>0, <2>1, <3>1, <3>2
  <2> HIDE DEF t
  <2>3. Len(t) \in 1..Len(t) /\ \A i \in 1..Len(t) : ~(i > Len(t))
    BY <1>0, <2>1
  <2>4. TrimRightNUL(t) = SubSeq(t, 1, Len(t))
    BY <2>1, <2>3, TrimRightAt, DigitsAreVisible
  <2>5. TrimRightNUL(t) = t
    BY <2>1, <2>4, SubSeqFull
  <2> QED BY <1>2, <2>2, <2>5, SnsTextRead DEF t
<1>3. CASE /\ Len(payload) >= ADNLAddressSize
           /\ EncodeToString(SubSeq(payload, 1, ADNLAddressSize)) = a
           /\ Len(TrimRightNUL(payload)) <= ADNLAddressSize
  <2> DEFINE v == TrimSpace(payload)
             w == TrimRightNUL(v)
             l == Len(w)
  <2>1. v \in Seq(Chars)
    BY TrimSpaceFacts
  <2>2. PICK lo \in Nat : \A j \in 1..Len(v) : lo + j \in 1..Len(payload) /\ v[j] = payload[lo + j]
    BY TrimSpaceFacts
  <2> HIDE DEF v
  <2>3. w \in Seq(Chars) /\ l \in 0..Len(v) /\ (l > 0 => v[l] # NUL)
    BY <2>1, TrimRightFacts
  <2>4. /\ Len(TrimRightNUL(payload)) \in 0..Len(payload)
        /\ \A i \in 1..Len(payload) : payload[i] # NUL => i <= Len(TrimRightNUL(payload))
    BY TrimRightFacts
  <2>5. Len(v) \in Nat
    BY <2>1
  <2> HIDE DEF w, l
  <2>6. l <= ADNLAddressSize
    <3>1. CASE l = 0
      BY <3>1, SizeOK
    <3>2. CASE l > 0
      <4>1. l \in 1..Len(v)
        BY <2>3, <2>5, <3>2
      <4>2. lo + l \in 1..Len(payload) /\ payload[lo + l] # NUL
        BY <2>2, <2>3, <3>2, <4>1
      <4>3. lo + l <= Len(TrimRightNUL(payload))
        BY <2>4, <4>2
      <4> QED BY <1>0, <1>3, <2>4, <2>5, <4>1, <4>3, SizeOK
    <3> QED BY <2>3, <2>5, <3>1, <3>2
  <2>7. /\ SnsText(payload) = StripHexPrefix(w)
        /\ StripHexPrefix(w) \in Seq(Chars) /\ Len(StripHexPrefix(w)) <= l
    BY <2>3, StripSplits DEF SnsText, v, w, l
  <2>8. Len(StripHexPrefix(w)) \in Nat /\ l \in Nat
    BY <2>3, <2>5, <2>7
  <2>9. Len(SnsText(payload)) # hexLen
    BY <2>6, <2>7, <2>8, SizeOK DEF hexLen
  <2>10. TakesRaw(payload)
    BY <1>3, <2>9 DEF TakesRaw
  <2>11. payload # <<>>
    BY <1>3, SizeOK
  <2> QED BY <1>3, <2>10, <2>11, AddressIsText, AddressText DEF ResolveSNS
<1> QED BY <1>1, <1>2, <1>3 DEF IsPayloadOf
=============================================================================
