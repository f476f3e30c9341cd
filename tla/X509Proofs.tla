----------------------------- MODULE X509Proofs -----------------------------
(***************************************************************************)
(* Proofs about X509, for every set of certificates: the walk never leaves *)
(* the certificate, it ends, and it finds the names that a certificate was *)
(* made with.                                                              *)
(*                                                                         *)
(* The first two rest on what read_tlv does with any octets: an element    *)
(* and what follows it lie side by side in the data, behind a header of at *)
(* least two octets.  Hence every slice of a slice is a part of the        *)
(* certificate, and each loop works on less than the loop around it.       *)
(*                                                                         *)
(* The third rests on what read_tlv does with an element as it is written: *)
(* it finds the element again, and what was written behind it.  Hence each *)
(* loop has always a whole number of elements behind it, and the names are *)
(* those of the elements it has left behind.                               *)
(***************************************************************************)
EXTENDS Certificate, SequenceTheorems, WellFoundedInduction, TLAPS

-----------------------------------------------------------------------------
(* read_tlv.                                                               *)

\* A length is read octet by octet, each step from a natural number to another.
LEMMA OneMoreOctet ==
  ASSUME NEW high \in Nat, NEW low \in Nat
  PROVE  256 * high + low \in Nat
  OBVIOUS

\* A readable element lies within the data, behind a header of two octets or more.
LEMMA HeaderBounds ==
  ASSUME NEW data \in Seq(Octet), Readable(data)
  PROVE  /\ HeaderLen(data) \in Nat /\ HeaderLen(data) >= 2
         /\ ValueLen(data) \in Nat
         /\ HeaderLen(data) + ValueLen(data) <= Len(data)
<1>1. /\ Len(data) \in Nat /\ Len(data) >= 2
      /\ \A i \in 1 .. Len(data) : data[i] \in Nat
  <2>1. Len(data) \in Nat /\ \A i \in 1 .. Len(data) : data[i] \in Octet
    OBVIOUS
  <2>2. Len(data) >= 2
    BY DEF Readable, HeaderReadable
  <2>3. Octet \subseteq Nat
    BY DEF Octet
  <2> QED
    BY <2>1, <2>2, <2>3
<1>2. data[2] \in Nat
  BY <1>1
<1>3. CASE ~ IsLong(data)
  <2>1. HeaderLen(data) = 2 /\ ValueLen(data) = data[2]
    BY <1>3 DEF HeaderLen, ValueLen
  <2> QED
    BY <1>1, <1>2, <2>1 DEF Readable
<1>4. CASE IsLong(data)
  <2> DEFINE n == LengthOctets(data)
  <2>1. n \in 1 .. 4 /\ Len(data) >= 2 + n /\ HeaderLen(data) = 2 + n
    BY <1>4 DEF Readable, HeaderReadable, HeaderLen
  <2>2. \A i \in 3 .. 2 + n : data[i] \in Nat
    BY <1>1, <2>1
  <2>3. ValueLen(data) \in Nat
    <3>1. CASE n = 1
      BY <1>4, <2>2, <3>1 DEF ValueLen
    <3>2. CASE n = 2
      <4>1. data[3] \in Nat /\ data[4] \in Nat
        BY <2>2, <3>2
      <4> DEFINE two == 256 * data[3] + data[4]
      <4>2. ValueLen(data) = two
        BY <1>4, <3>2 DEF ValueLen
      <4> QED
        BY <4>1, <4>2, OneMoreOctet
    <3>3. CASE n = 3
      <4>1. data[3] \in Nat /\ data[4] \in Nat /\ data[5] \in Nat
        BY <2>2, <3>3
      <4> DEFINE two == 256 * data[3] + data[4]
      <4>2. two \in Nat
        BY <4>1, OneMoreOctet
      <4>3. ValueLen(data) = 256 * two + data[5]
        BY <1>4, <3>3 DEF ValueLen
      <4> HIDE DEF two
      <4> QED
        BY <4>1, <4>2, <4>3, OneMoreOctet
    <3>4. CASE n = 4
      <4>1. data[3] \in Nat /\ data[4] \in Nat /\ data[5] \in Nat /\ data[6] \in Nat
        BY <2>2, <3>4
      <4> DEFINE two   == 256 * data[3] + data[4]
      <4> DEFINE three == 256 * two + data[5]
      <4>2. two \in Nat
        BY <4>1, OneMoreOctet
      <4>3. ValueLen(data) = 256 * three + data[6]
        BY <1>4, <3>4 DEF ValueLen
      <4> HIDE DEF two
      <4>4. three \in Nat
        BY <4>1, <4>2, OneMoreOctet
      <4> HIDE DEF three
      <4> QED
        BY <4>1, <4>3, <4>4, OneMoreOctet
    <3> QED
      BY <2>1, <3>1, <3>2, <3>3, <3>4
  <2> HIDE DEF n
  <2> QED
    BY <1>1, <2>1, <2>3 DEF Readable
<1> QED
  BY <1>3, <1>4

\* A slice of a part is a part.
LEMMA PartOfPart ==
  ASSUME NEW whole \in Seq(Octet), NEW s \in Seq(Octet), PartOf(s, whole),
         NEW m \in Nat, NEW n \in Nat, 1 <= m, m <= n + 1, n <= Len(s)
  PROVE  PartOf(SubSeq(s, m, n), whole)
<1>1. PICK start \in 0 .. Len(whole) - Len(s) : s = SubSeq(whole, start + 1, start + Len(s))
  BY DEF PartOf
<1>2. Len(whole) \in Nat /\ Len(s) \in Nat /\ start \in Nat /\ start + Len(s) <= Len(whole)
  BY <1>1
<1>3. Len(SubSeq(s, m, n)) = n - m + 1
  BY <1>2, SubSeqProperties
<1>4. start + m - 1 \in 0 .. Len(whole) - (n - m + 1)
  BY <1>2
<1>5. SubSeq(s, m, n) = SubSeq(whole, start + m, start + n)
  <2>1. CASE n < m
    <3>1. SubSeq(s, m, n) = << >>
      BY <2>1, SubSeqEmpty
    <3>2. SubSeq(whole, start + m, start + n) = << >>
      BY <1>2, <2>1, SubSeqEmpty
    <3> QED
      BY <3>1, <3>2
  <2>2. CASE m <= n
    <3> DEFINE i == start + 1
               j == start + Len(s)
    <3>1. /\ i \in 1 .. Len(whole) /\ j \in 1 .. Len(whole)
          /\ m \in 1 .. j - i + 1 /\ n \in 1 .. j - i + 1
      BY <1>2, <2>2
    <3>2. SubSeq(SubSeq(whole, i, j), m, n) = SubSeq(whole, i + m - 1, i + n - 1)
      <4> HIDE DEF i, j
      <4> QED
        BY <3>1, SubSeqOfSubSeq
    <3>3. i + m - 1 = start + m /\ i + n - 1 = start + n
      BY <1>2
    <3> QED
      BY <1>1, <3>2, <3>3
  <2> QED
    BY <1>2, <2>1, <2>2
<1>6. Len(SubSeq(s, m, n)) = n - m + 1 /\ (start + m - 1) + 1 = start + m
      /\ (start + m - 1) + (n - m + 1) = start + n
  BY <1>2, <1>3
<1> QED
  BY <1>4, <1>5, <1>6 DEF PartOf

\* The element in front of data and what follows it are parts of data, and
\* together they are shorter than data by the header at least.
LEMMA ElementAndRest ==
  ASSUME NEW data \in Seq(Octet), Readable(data)
  PROVE  /\ Value(data) \in Seq(Octet) /\ Rest(data) \in Seq(Octet)
         /\ Len(Value(data)) \in Nat /\ Len(Rest(data)) \in Nat
         /\ Len(Value(data)) + Len(Rest(data)) + 2 <= Len(data)
<1> DEFINE h == HeaderLen(data)
           v == ValueLen(data)
<1>1. h \in Nat /\ h >= 2 /\ v \in Nat /\ h + v <= Len(data) /\ Len(data) \in Nat
  BY HeaderBounds
<1> HIDE DEF h, v
<1>2. \A i \in 1 .. Len(data) : data[i] \in Octet
  OBVIOUS
<1>3. SubSeq(data, h + 1, h + v) \in Seq(Octet) /\ Len(SubSeq(data, h + 1, h + v)) = v
  BY <1>1, <1>2, SubSeqProperties
<1>4. /\ SubSeq(data, h + v + 1, Len(data)) \in Seq(Octet)
      /\ Len(SubSeq(data, h + v + 1, Len(data))) = Len(data) - (h + v)
  BY <1>1, <1>2, SubSeqProperties
<1>5. Value(data) = SubSeq(data, h + 1, h + v) /\ Rest(data) = SubSeq(data, h + v + 1, Len(data))
  BY DEF Value, Rest, h, v
<1>6. Len(Value(data)) = v /\ Len(Rest(data)) = Len(data) - (h + v)
  BY <1>3, <1>4, <1>5
<1>7. Len(Value(data)) + Len(Rest(data)) + 2 <= Len(data)
  BY <1>1, <1>6
<1>8. Value(data) \in Seq(Octet) /\ Rest(data) \in Seq(Octet)
  BY <1>3, <1>4, <1>5
<1> QED
  BY <1>7, <1>8

LEMMA ElementIsPart ==
  ASSUME NEW whole \in Seq(Octet), NEW data \in Seq(Octet), PartOf(data, whole), Readable(data)
  PROVE  PartOf(Value(data), whole) /\ PartOf(Rest(data), whole)
<1> DEFINE h == HeaderLen(data)
           v == ValueLen(data)
<1>1. h \in Nat /\ h >= 2 /\ v \in Nat /\ h + v <= Len(data) /\ Len(data) \in Nat
  BY HeaderBounds
<1> HIDE DEF h, v
<1>2. PartOf(SubSeq(data, h + 1, h + v), whole)
  BY <1>1, PartOfPart
<1>3. PartOf(SubSeq(data, h + v + 1, Len(data)), whole)
  BY <1>1, PartOfPart
<1> QED
  BY <1>2, <1>3 DEF Value, Rest, h, v

LEMMA WholeIsPart == ASSUME NEW data \in Seq(Octet) PROVE PartOf(data, data)
<1>1. Len(data) \in Nat /\ SubSeq(data, 1, Len(data)) = data
  BY SubSeqFull
<1> QED
  BY <1>1 DEF PartOf

LEMMA EmptyIsPart == ASSUME NEW data \in Seq(Octet) PROVE PartOf(<< >>, data)
<1>1. Len(data) \in Nat /\ Len(<< >>) = 0
  OBVIOUS
<1>2. SubSeq(data, 1, 0) = << >>
  BY SubSeqEmpty
<1>3. 0 \in 0 .. Len(data) - Len(<< >>) /\ 0 + 1 = 1 /\ 0 + Len(<< >>) = 0
  BY <1>1
<1> QED
  BY <1>2, <1>3 DEF PartOf
-----------------------------------------------------------------------------
(* The walk.                                                               *)

\* What the extension at hand holds, for EnterNames: the list of names lies
\* inside the extension, four headers deep.
LEMMA ListInExtension ==
  ASSUME XInv, Readable(exts), IsSan
  PROVE  LET list == Value(Value(Payload))
         IN  /\ list \in Seq(Octet) /\ Len(list) \in Nat
             /\ PartOf(list, cert)
             /\ Len(list) + Len(Rest(exts)) + 2 <= Len(exts)
<1>1. exts \in Seq(Octet) /\ cert \in Seq(Octet) /\ PartOf(exts, cert)
  BY DEF XInv, TypeOK, StaysInside
<1>2. Extension \in Seq(Octet) /\ PartOf(Extension, cert)
      /\ Len(Extension) + Len(Rest(exts)) + 2 <= Len(exts)
      /\ Len(Extension) \in Nat /\ Len(Rest(exts)) \in Nat /\ Len(exts) \in Nat
  BY <1>1, ElementAndRest, ElementIsPart DEF Extension
<1>3. Readable(Extension) /\ Readable(Payload) /\ Readable(Value(Payload))
  BY DEF IsSan, HasTag
<1>4. BehindOid \in Seq(Octet) /\ PartOf(BehindOid, cert)
      /\ Len(BehindOid) \in Nat /\ Len(BehindOid) <= Len(Extension)
  BY <1>1, <1>2, <1>3, ElementAndRest, ElementIsPart DEF BehindOid
<1>5. Payload \in Seq(Octet) /\ PartOf(Payload, cert)
      /\ Len(Payload) \in Nat /\ Len(Payload) <= Len(BehindOid)
  <2>1. CASE HasTag(BehindOid, BOOLEAN_TAG)
    <3>1. Readable(BehindOid) /\ Payload = Rest(BehindOid)
      BY <2>1 DEF HasTag, Payload
    <3> QED
      BY <1>1, <1>4, <3>1, ElementAndRest, ElementIsPart
  <2>2. CASE ~ HasTag(BehindOid, BOOLEAN_TAG)
    BY <1>4, <2>2 DEF Payload
  <2> QED
    BY <2>1, <2>2
<1>6. Value(Payload) \in Seq(Octet) /\ PartOf(Value(Payload), cert)
      /\ Len(Value(Payload)) \in Nat /\ Len(Value(Payload)) <= Len(Payload)
  BY <1>1, <1>3, <1>5, ElementAndRest, ElementIsPart
<1>7. Value(Value(Payload)) \in Seq(Octet) /\ PartOf(Value(Value(Payload)), cert)
      /\ Len(Value(Value(Payload))) \in Nat /\ Len(Value(Value(Payload))) <= Len(Value(Payload))
  BY <1>1, <1>3, <1>6, ElementAndRest, ElementIsPart
<1> QED
  BY <1>2, <1>4, <1>5, <1>6, <1>7

\* What Open and EnterExtensions go on with: an element in an element.
LEMMA ElementInElement ==
  ASSUME NEW whole \in Seq(Octet), NEW data \in Seq(Octet), PartOf(data, whole),
         Readable(data), Readable(Value(data))
  PROVE  /\ Value(Value(data)) \in Seq(Octet) /\ PartOf(Value(Value(data)), whole)
         /\ Len(Value(Value(data))) \in Nat /\ Len(Value(Value(data))) + 2 <= Len(data)
<1>1. Value(data) \in Seq(Octet) /\ PartOf(Value(data), whole)
      /\ Len(Value(data)) \in Nat /\ Len(Value(data)) + 2 <= Len(data) /\ Len(data) \in Nat
  BY ElementAndRest, ElementIsPart
<1>2. Value(Value(data)) \in Seq(Octet) /\ PartOf(Value(Value(data)), whole)
      /\ Len(Value(Value(data))) \in Nat /\ Len(Value(Value(data))) <= Len(Value(data))
  BY <1>1, ElementAndRest, ElementIsPart
<1> QED
  BY <1>1, <1>2

LEMMA InitXInv == Init => XInv
<1> SUFFICES ASSUME Init PROVE XInv
  OBVIOUS
<1>1. cert \in Seq(Octet) /\ Len(cert) \in Nat
  BY CertificatesAssumption DEF Init
<1>2. TypeOK
  BY <1>1 DEF Init, TypeOK
<1>3. StaysInside
  <2>1. PartOf(<< >>, cert)
    BY <1>1, EmptyIsPart
  <2>2. DOMAIN names = {}
    BY DEF Init
  <2> QED
    BY <2>1, <2>2 DEF Init, StaysInside
<1>4. NamesTakeSpace
  BY <1>1 DEF Init, NamesTakeSpace
<1> QED
  BY <1>2, <1>3, <1>4 DEF Init, XInv

\* Every step keeps the invariant, and leaves less to do.
LEMMA StepXInv ==
  ASSUME XInv, Next
  PROVE  XInv' /\ (UNCHANGED vars \/ (Left' \in Nat /\ Left' < Left))
<1> USE DEF XInv
<1>1. /\ cert \in Seq(Octet) /\ fields \in Seq(Octet) /\ exts \in Seq(Octet)
      /\ alts \in Seq(Octet) /\ names \in Seq(Seq(Octet))
      /\ PartOf(fields, cert) /\ PartOf(exts, cert) /\ PartOf(alts, cert)
      /\ \A n \in DOMAIN names : PartOf(names[n], cert)
  BY DEF TypeOK, StaysInside
<1>2. /\ Len(cert) \in Nat /\ Len(fields) \in Nat /\ Len(exts) \in Nat
      /\ Len(alts) \in Nat /\ Len(names) \in Nat
  BY <1>1
<1>3. CASE Open
  <2>1. Readable(cert) /\ Readable(Value(cert))
    BY <1>3 DEF Open, Opens, HasTag
  <2>2. fields' \in Seq(Octet) /\ PartOf(fields', cert) /\ Len(fields') \in Nat
        /\ Len(fields') + 2 <= Len(cert)
    BY <1>1, <1>3, <2>1, WholeIsPart, ElementInElement DEF Open
  <2>3. names = << >>
    BY <1>3 DEF Open
  <2>4. TypeOK' /\ StaysInside'
    BY <1>1, <1>3, <2>2 DEF Open, TypeOK, StaysInside
  <2>5. NamesTakeSpace'
    BY <1>2, <1>3, <2>3 DEF Open, NamesTakeSpace
  <2>6. Left' \in Nat /\ Left' < Left
    BY <1>2, <1>3, <2>2 DEF Open, Left
  <2> QED
    BY <1>3, <2>3, <2>4, <2>5, <2>6 DEF Open
<1>4. CASE NotACertificate \/ NoExtensions \/ LastExtension
  <2>1. pc \in {"open", "fields", "exts"} /\ Return
    BY <1>4 DEF NotACertificate, NoExtensions, LastExtension
  <2>2. TypeOK' /\ StaysInside'
    BY <1>1, <2>1 DEF Return, TypeOK, StaysInside
  <2>3. NamesTakeSpace'
    <3>1. 2 * Len(names) <= Len(cert)
      <4>1. CASE pc = "exts"
        <5>1. 2 * Len(names) + Len(exts) <= Len(cert)
          BY <4>1 DEF NamesTakeSpace
        <5> QED
          BY <1>2, <5>1
      <4>2. CASE pc \in {"open", "fields"}
        BY <1>2, <4>2 DEF NamesTakeSpace
      <4> QED
        BY <2>1, <4>1, <4>2
    <3> QED
      BY <2>1, <3>1, <1>2 DEF Return, NamesTakeSpace
  <2>4. Left' \in Nat /\ Left' < Left
    BY <1>2, <2>1 DEF Return, Left
  <2> QED
    BY <2>1, <2>2, <2>3, <2>4 DEF Return
<1>5. CASE SkipField
  <2>1. Readable(fields)
    BY <1>5 DEF SkipField
  <2>2. fields' \in Seq(Octet) /\ PartOf(fields', cert) /\ Len(fields') \in Nat
        /\ Len(fields') + 2 <= Len(fields)
    BY <1>1, <1>2, <1>5, <2>1, ElementAndRest, ElementIsPart DEF SkipField
  <2>3. TypeOK' /\ StaysInside'
    BY <1>1, <1>5, <2>2 DEF SkipField, TypeOK, StaysInside
  <2>4. NamesTakeSpace'
    BY <1>2, <1>5 DEF SkipField, NamesTakeSpace
  <2>5. Left' \in Nat /\ Left' < Left
    BY <1>2, <1>5, <2>2 DEF SkipField, Left
  <2> QED
    BY <1>5, <2>3, <2>4, <2>5 DEF SkipField
<1>6. CASE EnterExtensions
  <2>1. Readable(fields) /\ Readable(Value(fields))
    BY <1>6 DEF EnterExtensions, HasTag
  <2>2. exts' \in Seq(Octet) /\ PartOf(exts', cert) /\ Len(exts') \in Nat
        /\ Len(exts') + 2 <= Len(fields)
    BY <1>1, <1>6, <2>1, ElementInElement DEF EnterExtensions
  <2>3. Len(fields) <= Len(cert) /\ names = << >> /\ Len(names) = 0
    BY <1>1, <1>2, <1>6 DEF EnterExtensions, PartOf
  <2>4. TypeOK' /\ StaysInside'
    BY <1>1, <1>6, <2>2 DEF EnterExtensions, TypeOK, StaysInside
  <2>5. NamesTakeSpace'
    BY <1>2, <1>6, <2>2, <2>3 DEF EnterExtensions, NamesTakeSpace
  <2>6. Left' \in Nat /\ Left' < Left
    BY <1>2, <1>6, <2>2 DEF EnterExtensions, Left
  <2> QED
    BY <1>6, <2>4, <2>5, <2>6 DEF EnterExtensions
<1>7. CASE EnterNames
  <2>1. Readable(exts) /\ IsSan /\ alts' = Value(Value(Payload)) /\ exts' = Rest(exts)
    BY <1>7 DEF EnterNames
  <2>2. alts' \in Seq(Octet) /\ Len(alts') \in Nat /\ PartOf(alts', cert)
        /\ Len(alts') + Len(exts') + 2 <= Len(exts)
    BY <2>1, ListInExtension
  <2>3. exts' \in Seq(Octet) /\ PartOf(exts', cert) /\ Len(exts') \in Nat
    BY <1>1, <2>1, ElementAndRest, ElementIsPart
  <2>4. TypeOK' /\ StaysInside'
    BY <1>1, <1>7, <2>2, <2>3 DEF EnterNames, TypeOK, StaysInside
  <2>5. NamesTakeSpace'
    BY <1>2, <1>7, <2>2, <2>3 DEF EnterNames, NamesTakeSpace
  <2>6. Left' \in Nat /\ Left' < Left
    BY <1>2, <1>7, <2>2, <2>3 DEF EnterNames, Left
  <2> QED
    BY <1>7, <2>4, <2>5, <2>6 DEF EnterNames
<1>8. CASE SkipExtension
  <2>1. Readable(exts)
    BY <1>8 DEF SkipExtension
  <2>2. exts' \in Seq(Octet) /\ PartOf(exts', cert) /\ Len(exts') \in Nat
        /\ Len(exts') + 2 <= Len(exts)
    BY <1>1, <1>2, <1>8, <2>1, ElementAndRest, ElementIsPart DEF SkipExtension
  <2>3. TypeOK' /\ StaysInside'
    BY <1>1, <1>8, <2>2 DEF SkipExtension, TypeOK, StaysInside
  <2>4. NamesTakeSpace'
    BY <1>2, <1>8, <2>2 DEF SkipExtension, NamesTakeSpace
  <2>5. Left' \in Nat /\ Left' < Left
    BY <1>2, <1>8, <2>2 DEF SkipExtension, Left
  <2> QED
    BY <1>8, <2>3, <2>4, <2>5 DEF SkipExtension
<1>9. CASE NextName
  <2>1. Readable(alts)
    BY <1>9 DEF NextName
  <2>2. alts' \in Seq(Octet) /\ PartOf(alts', cert) /\ Len(alts') \in Nat
        /\ Len(alts') + 2 <= Len(alts)
        /\ Value(alts) \in Seq(Octet) /\ PartOf(Value(alts), cert)
    BY <1>1, <1>2, <1>9, <2>1, ElementAndRest, ElementIsPart DEF NextName
  <2>3. names' = names \/ names' = Append(names, Value(alts))
    BY <1>9 DEF NextName
  <2>4. names' \in Seq(Seq(Octet)) /\ Len(names') \in Nat /\ Len(names') <= Len(names) + 1
        /\ \A n \in DOMAIN names' : PartOf(names'[n], cert)
    <3>1. CASE names' = names
      BY <1>1, <1>2, <3>1
    <3>2. CASE names' = Append(names, Value(alts))
      <4> DEFINE v == Value(alts)
      <4>1. v \in Seq(Octet) /\ PartOf(v, cert)
        BY <2>2
      <4> HIDE DEF v
      <4>2. /\ Append(names, v) \in Seq(Seq(Octet))
            /\ Len(Append(names, v)) = Len(names) + 1
            /\ \A n \in 1 .. Len(names) : Append(names, v)[n] = names[n]
            /\ Append(names, v)[Len(names) + 1] = v
        BY <1>1, <4>1, AppendProperties
      <4>3. names' = Append(names, v)
        BY <3>2 DEF v
      <4>4. /\ names' \in Seq(Seq(Octet)) /\ Len(names') = Len(names) + 1
            /\ \A n \in 1 .. Len(names) : names'[n] = names[n]
            /\ names'[Len(names) + 1] = v
        BY <4>2, <4>3
      <4>5. ASSUME NEW n \in DOMAIN names' PROVE PartOf(names'[n], cert)
        <5>1. n \in 1 .. Len(names) + 1
          BY <4>4
        <5>2. CASE n = Len(names) + 1
          BY <4>1, <4>4, <5>2
        <5>3. CASE n \in 1 .. Len(names)
          <6>1. names'[n] = names[n] /\ n \in DOMAIN names
            BY <1>1, <4>4, <5>3
          <6> QED
            BY <1>1, <6>1
        <5> QED
          BY <1>2, <5>1, <5>2, <5>3
      <4> QED
        BY <1>2, <4>4, <4>5
    <3> QED
      BY <2>3, <3>1, <3>2
  <2>5. TypeOK' /\ StaysInside'
    BY <1>1, <1>9, <2>2, <2>4 DEF NextName, TypeOK, StaysInside
  <2>6. NamesTakeSpace'
    <3>1. pc = "names" /\ pc' = "names" /\ exts' = exts /\ cert' = cert
      BY <1>9 DEF NextName
    <3>2. 2 * Len(names) + (Len(exts) + Len(alts)) <= Len(cert)
      BY <3>1 DEF NamesTakeSpace
    <3>3. 2 * Len(names') + (Len(exts) + Len(alts')) <= Len(cert)
      BY <1>2, <2>2, <2>4, <3>2
    <3> QED
      BY <3>1, <3>3 DEF NamesTakeSpace
  <2>7. Left' \in Nat /\ Left' < Left
    BY <1>2, <1>9, <2>2 DEF NextName, Left
  <2> QED
    BY <1>9, <2>5, <2>6, <2>7 DEF NextName
<1>10. CASE LastName
  <2>1. TypeOK' /\ StaysInside'
    BY <1>1, <1>10 DEF LastName, TypeOK, StaysInside
  <2>2. NamesTakeSpace'
    BY <1>2, <1>10 DEF LastName, NamesTakeSpace
  <2>3. Left' \in Nat /\ Left' < Left
    BY <1>2, <1>10 DEF LastName, Left
  <2> QED
    BY <1>10, <2>1, <2>2, <2>3 DEF LastName
<1>11. CASE UNCHANGED vars
  <2>1. TypeOK' /\ StaysInside' /\ NamesTakeSpace'
    BY <1>11 DEF vars, TypeOK, StaysInside, NamesTakeSpace
  <2> QED
    BY <1>11, <2>1 DEF vars
<1> QED
  BY <1>3, <1>4, <1>5, <1>6, <1>7, <1>8, <1>9, <1>10, <1>11 DEF Next, Returned

\* For every certificate the walk stays inside it, and finds at most half as
\* many names as there are octets (extract_san_dns_names).
THEOREM WalkInvariance == Spec => []XInv
<1>1. Init => XInv
  BY InitXInv
<1>2. XInv /\ [Next]_vars => XInv'
  <2>1. CASE UNCHANGED vars
    BY <2>1 DEF vars, XInv, TypeOK, StaysInside, NamesTakeSpace
  <2> QED
    BY <2>1, StepXInv
<1> QED
  BY <1>1, <1>2, PTL DEF Spec

\* For every certificate each step leaves less to do than there was, so the
\* loops of the walk, one in the other, come to an end.
THEOREM WalkEnds == Spec => WalkDescends
<1>1. XInv /\ [Next]_vars => [Left' \in Nat /\ Left' < Left]_vars
  BY StepXInv
<1>2. Spec => []XInv
  BY WalkInvariance
<1> QED
  BY <1>1, <1>2, PTL DEF Spec, WalkDescends

-----------------------------------------------------------------------------
(* How an element is written.                                              *)

\* w is s with t behind it.
IsJoined(s, t, w) ==
  /\ w \in Seq(Octet) /\ Len(w) = Len(s) + Len(t)
  /\ Len(s) \in Nat /\ Len(t) \in Nat
  /\ \A i \in 1 .. Len(s) : w[i] = s[i]
  /\ \A i \in 1 .. Len(t) : w[Len(s) + i] = t[i]

LEMMA Joined ==
  ASSUME NEW s \in Seq(Octet), NEW t \in Seq(Octet)
  PROVE  IsJoined(s, t, s \o t)
<1>1. /\ s \o t \in Seq(Octet) /\ Len(s \o t) = Len(s) + Len(t)
      /\ Len(s) \in Nat /\ Len(t) \in Nat
  OBVIOUS
<1>2. \A i \in 1 .. Len(s) : (s \o t)[i] = s[i]
  OBVIOUS
<1>3. \A i \in 1 .. Len(t) : (s \o t)[Len(s) + i] = t[i]
  OBVIOUS
<1> QED
  BY <1>1, <1>2, <1>3, Zenon DEF IsJoined

\* The octets in front of the value.
HeadLen(e) == 2 + e.size

\* An element as far as its octets are concerned, however long its length is.
IsSpelled(e) ==
  /\ e.tag \in Octet
  /\ e.size \in Nat /\ e.size < 128
  /\ e.value \in Seq(Octet)
  /\ e.size = 0 => Len(e.value) < 128

\* q is all of n but its last octet.
IsUpper(n, q) ==
  /\ n = 256 * q + (n % 256)
  /\ q \in Nat /\ n % 256 \in Nat /\ n % 256 < 256
  /\ n < 256 => n % 256 = n

LEMMA Division ==
  \A n \in Nat : IsUpper(n, Upper(n))
  BY DEF IsUpper, Upper

LEMMA UpperType ==
  \A n \in Nat : Upper(n) \in Nat
  BY SMT DEF Upper

LEMMA BytesType ==
  ASSUME NEW n \in Nat, NEW k \in Nat
  PROVE  BytesOf(n, k) \in Seq(Octet) /\ Len(BytesOf(n, k)) = k
<1>1. \A m \in Nat : m % 256 \in Octet /\ Upper(m) \in Nat
  BY SMT DEF Octet, Upper
<1>2. /\ n % 256 \in Octet /\ Upper(n) % 256 \in Octet /\ Upper(Upper(n)) % 256 \in Octet
      /\ Upper(Upper(Upper(n))) % 256 \in Octet
  BY <1>1, Zenon
<1>3. 0 \in Octet
  BY DEF Octet
<1> DEFINE b(i) == CASE i = k     -> n % 256
                     [] i = k - 1 -> Upper(n) % 256
                     [] i = k - 2 -> Upper(Upper(n)) % 256
                     [] i = k - 3 -> Upper(Upper(Upper(n))) % 256
                     [] OTHER     -> 0
<1>4. \A i \in 1 .. k : b(i) \in Octet
  BY <1>2, <1>3
<1>5. BytesOf(n, k) = [i \in 1 .. k |-> b(i)]
  BY Zenon DEF BytesOf
<1> HIDE DEF b
<1>6. [i \in 1 .. k |-> b(i)] \in Seq(Octet) /\ Len([i \in 1 .. k |-> b(i)]) = k
  BY <1>4
<1> QED
  BY <1>5, <1>6

LEMMA LengthIs ==
  ASSUME NEW e, IsSpelled(e)
  PROVE  LET l == Length(Len(e.value), e.size)
         IN  /\ l \in Seq(Octet) /\ Len(l) = 1 + e.size
             /\ l[1] = IF e.size = 0 THEN Len(e.value) ELSE 128 + e.size
             /\ \A i \in 1 .. e.size : l[1 + i] = BytesOf(Len(e.value), e.size)[i]
<1> DEFINE k == e.size
           n == Len(e.value)
<1>1. k \in Nat /\ k < 128 /\ n \in Nat /\ (k = 0 => n < 128)
  BY DEF IsSpelled
<1> HIDE DEF k, n
<1>2. CASE k = 0
  <2>1. n \in Octet
    BY <1>1, <1>2 DEF Octet
  <2>2. Length(n, k) = << n >>
    BY <1>2 DEF Length
  <2>3. << n >> \in Seq(Octet) /\ Len(<< n >>) = 1 + k /\ << n >>[1] = n
    BY <1>2, <2>1
  <2>4. \A i \in 1 .. k : FALSE
    BY <1>2
  <2> QED
    BY <1>2, <2>2, <2>3, <2>4, Zenon DEF k, n
<1>3. CASE k # 0
  <2> DEFINE h == << 128 + k >>
             b == BytesOf(n, k)
  <2>1. h \in Seq(Octet) /\ Len(h) = 1 /\ h[1] = 128 + k
    <3>1. 128 + k \in Octet
      BY <1>1 DEF Octet
    <3> QED
      BY <3>1
  <2>2. b \in Seq(Octet) /\ Len(b) = k
    BY <1>1, BytesType
  <2>3. Length(n, k) = h \o b
    BY <1>3 DEF Length
  <2> HIDE DEF h, b
  <2>4. IsJoined(h, b, h \o b)
    BY <2>1, <2>2, Joined, Zenon
  <2>5. /\ h \o b \in Seq(Octet) /\ Len(h \o b) = 1 + k
        /\ (h \o b)[1] = h[1]
        /\ \A i \in 1 .. k : (h \o b)[1 + i] = b[i]
    BY <2>1, <2>2, <2>4 DEF IsJoined
  <2> QED
    BY <1>3, <2>1, <2>3, <2>5 DEF k, n, b
<1> QED
  BY <1>2, <1>3

\* The octets of an element.
LEMMA TlvIs ==
  ASSUME NEW e, IsSpelled(e)
  PROVE  LET w == Tlv(e)
             n == Len(e.value)
         IN  /\ w \in Seq(Octet) /\ n \in Nat /\ Len(w) = HeadLen(e) + n /\ HeadLen(e) \in Nat
             /\ w[1] = e.tag
             /\ w[2] = IF e.size = 0 THEN n ELSE 128 + e.size
             /\ \A i \in 1 .. e.size : w[2 + i] = BytesOf(n, e.size)[i]
             /\ \A i \in 1 .. n : w[HeadLen(e) + i] = e.value[i]
<1> DEFINE t == << e.tag >>
           n == Len(e.value)
           l == Length(n, e.size)
           v == e.value
           k == e.size
<1>1. t \in Seq(Octet) /\ Len(t) = 1 /\ t[1] = e.tag /\ v \in Seq(Octet) /\ n \in Nat
      /\ k \in Nat
  BY DEF IsSpelled
<1>2. /\ l \in Seq(Octet) /\ Len(l) = 1 + k
      /\ l[1] = IF k = 0 THEN n ELSE 128 + k
      /\ \A i \in 1 .. k : l[1 + i] = BytesOf(n, k)[i]
  BY LengthIs
<1>3. Tlv(e) = (t \o l) \o v
  BY Zenon DEF Tlv
<1> HIDE DEF t, l
<1> DEFINE h == t \o l
<1>4. /\ h \in Seq(Octet) /\ Len(h) = 1 + (1 + k)
      /\ h[1] = t[1] /\ \A i \in 1 .. 1 + k : h[1 + i] = l[i]
  <2>1. IsJoined(t, l, h)
    BY <1>1, <1>2, Joined, Zenon
  <2> QED
    BY <1>1, <1>2, <2>1 DEF IsJoined
<1> HIDE DEF h
<1>5. 1 \in 1 .. 1 + k /\ \A i \in 1 .. k : 1 + i \in 1 .. 1 + k /\ 2 + i = 1 + (1 + i)
  BY <1>1
<1>6. h[2] = l[1]
  <2>1. h[1 + 1] = l[1]
    BY <1>4, <1>5, Zenon
  <2> QED
    BY <2>1
<1>7. \A i \in 1 .. k : h[2 + i] = l[1 + i]
  BY <1>4, <1>5, Zenon
<1>8. /\ h \o v \in Seq(Octet) /\ Len(h \o v) = Len(h) + n
      /\ \A i \in 1 .. Len(h) : (h \o v)[i] = h[i]
      /\ \A i \in 1 .. n : (h \o v)[Len(h) + i] = v[i]
  <2>1. IsJoined(h, v, h \o v)
    BY <1>1, <1>4, Joined, Zenon
  <2> QED
    BY <1>1, <1>4, <2>1 DEF IsJoined
<1>9. /\ Len(h) = 2 + k /\ 1 \in 1 .. Len(h) /\ 2 \in 1 .. Len(h)
      /\ \A i \in 1 .. k : 2 + i \in 1 .. Len(h)
  BY <1>1, <1>4
<1>10. (h \o v)[1] = e.tag /\ (h \o v)[2] = l[1] /\ \A i \in 1 .. k : (h \o v)[2 + i] = l[1 + i]
  BY <1>1, <1>4, <1>6, <1>7, <1>8, <1>9, Zenon
<1>11. Tlv(e) = h \o v /\ HeadLen(e) = 2 + k /\ HeadLen(e) \in Nat
  BY <1>1, <1>3 DEF h, HeadLen
<1>12. /\ h \o v \in Seq(Octet) /\ Len(h \o v) = HeadLen(e) + n
       /\ (h \o v)[2] = IF k = 0 THEN n ELSE 128 + k
       /\ \A i \in 1 .. k : (h \o v)[2 + i] = BytesOf(n, k)[i]
       /\ \A i \in 1 .. n : (h \o v)[HeadLen(e) + i] = v[i]
  <2> HIDE DEF n, k, v
  <2> DEFINE w == h \o v
             first == IF k = 0 THEN n ELSE 128 + k
  <2>1. w \in Seq(Octet) /\ Len(w) = HeadLen(e) + n
    BY <1>8, <1>9, <1>11, Zenon
  <2>2. w[2] = first
    BY <1>2, <1>10, Zenon
  <2>3. \A i \in 1 .. k : w[2 + i] = BytesOf(n, k)[i]
    BY <1>2, <1>10, Zenon
  <2>4. \A i \in 1 .. n : w[HeadLen(e) + i] = v[i]
    <3>1. Len(h) = HeadLen(e)
      BY <1>9, <1>11, Zenon
    <3> QED
      BY <1>8, <3>1, Zenon
  <2> HIDE DEF w, first
  <2>5. /\ w \in Seq(Octet) /\ Len(w) = HeadLen(e) + n /\ w[2] = first
        /\ \A i \in 1 .. k : w[2 + i] = BytesOf(n, k)[i]
        /\ \A i \in 1 .. n : w[HeadLen(e) + i] = v[i]
    BY <2>1, <2>2, <2>3, <2>4, Zenon
  <2> QED
    BY <2>5, Zenon DEF w, first
<1> QED
  BY <1>1, <1>10, <1>11, <1>12, Zenon

-----------------------------------------------------------------------------
(* How it is read.                                                         *)

\* The octets of a length give the length.
LEMMA BytesGive ==
  ASSUME NEW n \in Nat, NEW k \in 1 .. 4, Fits(n, k)
  PROVE  LET b == BytesOf(n, k)
         IN  n = CASE k = 1 -> b[1]
                   [] k = 2 -> 256 * b[1] + b[2]
                   [] k = 3 -> 256 * (256 * b[1] + b[2]) + b[3]
                   [] k = 4 -> 256 * (256 * (256 * b[1] + b[2]) + b[3]) + b[4]
<1> DEFINE b == BytesOf(n, k)
           n1 == Upper(n)
           n2 == Upper(n1)
           n3 == Upper(n2)
<1>1. n1 \in Nat /\ n2 \in Nat /\ n3 \in Nat
  BY UpperType, Zenon
<1>0. IsUpper(n, n1) /\ IsUpper(n1, n2) /\ IsUpper(n2, n3) /\ IsUpper(n3, Upper(n3))
  BY <1>1, Division, Zenon
<1> HIDE DEF n1, n2, n3
<1>2. n = 256 * n1 + (n % 256) /\ n1 \in Nat /\ n % 256 \in Nat
  BY <1>0, SMT DEF IsUpper
<1>3. n1 = 256 * n2 + (n1 % 256) /\ n2 \in Nat /\ n1 % 256 \in Nat
  BY <1>0, SMT DEF IsUpper
<1>4. n2 = 256 * n3 + (n2 % 256) /\ n3 \in Nat /\ n2 % 256 \in Nat
  BY <1>0, SMT DEF IsUpper
<1>5. n3 < 256 => n3 % 256 = n3
  BY <1>0, SMT DEF IsUpper
<1>6. /\ k = 1 => n1 = 0
      /\ k = 2 => n2 = 0
      /\ k = 3 => n3 = 0
      /\ k = 4 => n3 < 256
  BY DEF Fits, n1, n2, n3
<1>7. /\ k = 1 => b[1] = n % 256
      /\ k = 2 => b[1] = n1 % 256 /\ b[2] = n % 256
      /\ k = 3 => b[1] = n2 % 256 /\ b[2] = n1 % 256 /\ b[3] = n % 256
      /\ k = 4 => b[1] = n3 % 256 /\ b[2] = n2 % 256 /\ b[3] = n1 % 256 /\ b[4] = n % 256
  <2> HIDE DEF n1, n2, n3
  <2>1. b = [i \in 1 .. k |-> CASE i = k     -> n % 256
                                [] i = k - 1 -> n1 % 256
                                [] i = k - 2 -> n2 % 256
                                [] i = k - 3 -> n3 % 256
                                [] OTHER     -> 0]
    BY Zenon DEF BytesOf, n1, n2, n3
  <2> HIDE DEF b
  <2> QED
    BY <2>1
<1> HIDE DEF b, n1, n2, n3
<1>8. CASE k = 1
  BY <1>2, <1>6, <1>7, <1>8 DEF b
<1>9. CASE k = 2
  BY <1>2, <1>3, <1>6, <1>7, <1>9 DEF b
<1>10. CASE k = 3
  BY <1>2, <1>3, <1>4, <1>6, <1>7, <1>10 DEF b
<1>11. CASE k = 4
  BY <1>2, <1>3, <1>4, <1>5, <1>6, <1>7, <1>11 DEF b
<1> QED
  BY <1>8, <1>9, <1>10, <1>11

\* c and w agree as far as both go.
Agree(c, w) == \A i \in 1 .. Len(w) : i <= Len(c) => c[i] = w[i]

\* The first two octets of an element tell its tag and the form of its length.
LEMMA FirstOctets ==
  ASSUME NEW e, IsSpelled(e), NEW c \in Seq(Octet), Agree(c, Tlv(e)), Len(c) >= 2
  PROVE  /\ Tag(c) = e.tag
         /\ IsLong(c) <=> e.size # 0
         /\ e.size = 0 => c[2] = Len(e.value)
         /\ e.size # 0 => LengthOctets(c) = e.size
<1> DEFINE w == Tlv(e)
           n == Len(e.value)
           k == e.size
<1>1. /\ n \in Nat /\ Len(w) = HeadLen(e) + n /\ w[1] = e.tag
      /\ w[2] = IF k = 0 THEN n ELSE 128 + k
  BY TlvIs
<1>2. k \in Nat /\ k < 128 /\ (k = 0 => n < 128) /\ HeadLen(e) = 2 + k /\ Len(c) \in Nat
  BY DEF IsSpelled, HeadLen
<1> HIDE DEF w, n, k
<1>3. 1 \in 1 .. Len(w) /\ 2 \in 1 .. Len(w) /\ 1 <= Len(c) /\ 2 <= Len(c)
  BY <1>1, <1>2
<1>4. c[1] = w[1] /\ c[2] = w[2]
  BY <1>3, Zenon DEF Agree, w
<1>5. c[1] = e.tag
  BY <1>1, <1>4, Zenon
<1>6. CASE k = 0
  <2>1. c[2] = n /\ n < 128
    BY <1>1, <1>2, <1>4, <1>6
  <2> QED
    BY <1>1, <1>2, <1>5, <1>6, <2>1 DEF Tag, IsLong, k, n
<1>7. CASE k # 0
  <2>1. c[2] = 128 + k
    BY <1>1, <1>4, <1>7
  <2>2. 128 + k >= 128 /\ (128 + k) % 128 = k
    BY <1>2
  <2> QED
    BY <1>5, <1>7, <2>1, <2>2 DEF Tag, IsLong, LengthOctets, k
<1> QED
  BY <1>6, <1>7

\* The header of an element is read as it was written, whatever the length form.
LEMMA ReadsHeader ==
  ASSUME NEW e, IsElement(e), NEW c \in Seq(Octet), Agree(c, Tlv(e)), Len(c) >= HeadLen(e)
  PROVE  /\ HeaderReadable(c)
         /\ HeaderLen(c) = HeadLen(e)
         /\ ValueLen(c) = Len(e.value)
         /\ Tag(c) = e.tag
<1> DEFINE w == Tlv(e)
           n == Len(e.value)
           k == e.size
           b == BytesOf(n, k)
<1>1. IsSpelled(e) /\ k \in 0 .. 4 /\ k \in Nat /\ Fits(n, k) /\ HeadLen(e) = 2 + k
  BY DEF IsElement, IsSpelled, HeadLen, Fits
<1>2. /\ n \in Nat /\ Len(w) = HeadLen(e) + n
      /\ \A i \in 1 .. k : w[2 + i] = b[i]
  BY <1>1, TlvIs
<1>3. Len(c) >= 2 /\ Len(c) \in Nat
  BY <1>1
<1>4. /\ Tag(c) = e.tag
      /\ IsLong(c) <=> k # 0
      /\ k = 0 => c[2] = n
      /\ k # 0 => LengthOctets(c) = k
  BY <1>1, <1>3, FirstOctets, Zenon
<1> HIDE DEF w, n, k, b
<1>5. CASE k = 0
  BY <1>1, <1>3, <1>4, <1>5 DEF HeaderReadable, HeaderLen, ValueLen, n
<1>6. CASE k # 0
  <2>1. k \in 1 .. 4 /\ Len(c) >= 2 + k
    BY <1>1, <1>6
  <2>2. HeaderReadable(c) /\ HeaderLen(c) = 2 + k
    BY <1>3, <1>4, <1>6, <2>1 DEF HeaderReadable, HeaderLen
  <2>3. \A i \in 1 .. k : 2 + i \in 1 .. Len(w) /\ 2 + i <= Len(c)
    BY <1>1, <1>2, <1>3, <2>1
  <2>4. \A i \in 1 .. k : c[2 + i] = b[i]
    BY <1>2, <2>3, Zenon DEF Agree, w
  <2>5. n = CASE k = 1 -> b[1]
              [] k = 2 -> 256 * b[1] + b[2]
              [] k = 3 -> 256 * (256 * b[1] + b[2]) + b[3]
              [] k = 4 -> 256 * (256 * (256 * b[1] + b[2]) + b[3]) + b[4]
    BY <1>1, <1>2, <2>1, BytesGive DEF b
  <2>6. ValueLen(c) = CASE k = 1 -> c[3]
                        [] k = 2 -> 256 * c[3] + c[4]
                        [] k = 3 -> 256 * (256 * c[3] + c[4]) + c[5]
                        [] k = 4 -> 256 * (256 * (256 * c[3] + c[4]) + c[5]) + c[6]
    BY <1>4, <1>6 DEF ValueLen
  <2>7. ValueLen(c) = n
    <3>1. CASE k = 1
      <4>1. c[3] = b[1]
        BY <2>4, <3>1
      <4> QED
        BY <2>5, <2>6, <3>1, <4>1
    <3>2. CASE k = 2
      <4>1. c[3] = b[1] /\ c[4] = b[2]
        BY <2>4, <3>2
      <4> QED
        BY <2>5, <2>6, <3>2, <4>1
    <3>3. CASE k = 3
      <4>1. c[3] = b[1] /\ c[4] = b[2] /\ c[5] = b[3]
        BY <2>4, <3>3
      <4> QED
        BY <2>5, <2>6, <3>3, <4>1
    <3>4. CASE k = 4
      <4>1. c[3] = b[1] /\ c[4] = b[2] /\ c[5] = b[3] /\ c[6] = b[4]
        BY <2>4, <3>4
      <4> QED
        BY <2>5, <2>6, <3>4, <4>1
    <3> QED
      BY <2>1, <3>1, <3>2, <3>3, <3>4
  <2> QED
    BY <1>1, <1>4, <2>2, <2>7 DEF n
<1> QED
  BY <1>5, <1>6

\* Behind an element its value and what follows it are found again.
LEMMA ReadsElement ==
  ASSUME NEW e, IsElement(e), NEW rest \in Seq(Octet)
  PROVE  LET c == Tlv(e) \o rest
         IN  /\ c \in Seq(Octet) /\ Readable(c) /\ Tag(c) = e.tag
             /\ Value(c) = e.value /\ Rest(c) = rest
<1> DEFINE w == Tlv(e)
           c == w \o rest
           h == HeadLen(e)
           n == Len(e.value)
           v == e.value
<1>1. IsSpelled(e) /\ v \in Seq(Octet)
  BY DEF IsElement, IsSpelled, Fits
<1>2. /\ w \in Seq(Octet) /\ n \in Nat /\ Len(w) = h + n /\ h \in Nat
      /\ \A i \in 1 .. n : w[h + i] = v[i]
  BY <1>1, TlvIs
<1>3. IsJoined(w, rest, c)
  <2> HIDE DEF w
  <2> QED
    BY <1>2, Joined, Zenon
<1> HIDE DEF w, h, n, v, c
<1>4. /\ c \in Seq(Octet) /\ Len(c) = h + n + Len(rest) /\ Len(rest) \in Nat
      /\ \A i \in 1 .. h + n : c[i] = w[i]
      /\ \A i \in 1 .. Len(rest) : c[h + n + i] = rest[i]
  BY <1>2, <1>3 DEF IsJoined
<1>5. Agree(c, w) /\ Len(c) >= h
  BY <1>2, <1>4 DEF Agree
<1>6. HeaderReadable(c) /\ HeaderLen(c) = h /\ ValueLen(c) = n /\ Tag(c) = e.tag
  BY <1>4, <1>5, ReadsHeader, Zenon DEF w, h, n
<1>7. Readable(c)
  BY <1>2, <1>4, <1>6 DEF Readable
<1>8. \A i \in 1 .. Len(c) : c[i] \in Octet
  BY <1>4
<1>9. Value(c) = v
  <2> DEFINE s == SubSeq(c, h + 1, h + n)
  <2>1. Value(c) = s
    BY <1>6, Zenon DEF Value
  <2>2. \A i \in h + 1 .. h + n : c[i] \in Octet
    BY <1>2, <1>4, <1>8
  <2>3. h + 1 \in Int /\ h + n \in Int
    BY <1>2
  <2>4. /\ s \in Seq(Octet) /\ Len(s) = IF h + 1 <= h + n THEN (h + n) - (h + 1) + 1 ELSE 0
        /\ \A i \in 1 .. (h + n) - (h + 1) + 1 : s[i] = c[(h + 1) + i - 1]
    BY <2>2, <2>3, SubSeqProperties
  <2> HIDE DEF s
  <2>5. Len(s) = n /\ Len(v) = n
    BY <1>2, <2>4 DEF n, v
  <2>6. ASSUME NEW i \in 1 .. n PROVE s[i] = v[i]
    <3>1. i \in 1 .. (h + n) - (h + 1) + 1 /\ (h + 1) + i - 1 = h + i /\ h + i \in 1 .. h + n
      BY <1>2
    <3> QED
      BY <1>2, <1>4, <2>4, <3>1, Zenon
  <2> QED
    BY <1>1, <2>1, <2>4, <2>5, <2>6, SeqEqual
<1>10. Rest(c) = rest
  <2> DEFINE m == h + n
             s == SubSeq(c, m + 1, Len(c))
  <2>1. Rest(c) = s
    BY <1>6, Zenon DEF Rest
  <2>2. m \in Nat /\ Len(c) = m + Len(rest)
    BY <1>2, <1>4
  <2> HIDE DEF m
  <2>3. \A i \in m + 1 .. Len(c) : c[i] \in Octet
    BY <1>8, <2>2
  <2>4. m + 1 \in Int /\ Len(c) \in Int
    BY <1>4, <2>2
  <2>5. /\ s \in Seq(Octet) /\ Len(s) = IF m + 1 <= Len(c) THEN Len(c) - (m + 1) + 1 ELSE 0
        /\ \A i \in 1 .. Len(c) - (m + 1) + 1 : s[i] = c[(m + 1) + i - 1]
    BY <2>3, <2>4, SubSeqProperties
  <2> HIDE DEF s
  <2>6. Len(s) = Len(rest)
    BY <1>4, <2>2, <2>5
  <2>7. ASSUME NEW i \in 1 .. Len(rest) PROVE s[i] = rest[i]
    <3>1. i \in 1 .. Len(c) - (m + 1) + 1 /\ (m + 1) + i - 1 = m + i
      BY <1>4, <2>2
    <3>2. c[m + i] = rest[i]
      BY <1>4, Zenon DEF m
    <3> QED
      BY <2>5, <3>1, <3>2, Zenon
  <2> QED
    BY <2>1, <2>5, <2>6, <2>7, SeqEqual
<1> QED
  BY <1>4, <1>6, <1>7, <1>9, <1>10, Zenon DEF c, w, v

\* An element alone.
LEMMA ReadsAlone ==
  ASSUME NEW e, IsElement(e)
  PROVE  LET c == Tlv(e)
         IN  c \in Seq(Octet) /\ Readable(c) /\ Tag(c) = e.tag /\ Value(c) = e.value
<1>1. Tlv(e) \in Seq(Octet)
  BY TlvIs DEF IsElement, IsSpelled, Fits
<1> DEFINE w == Tlv(e)
<1>2. w \o << >> = w /\ << >> \in Seq(Octet)
  <2> HIDE DEF w
  <2> QED
    BY <1>1
<1>3. /\ Readable(w \o << >>) /\ Tag(w \o << >>) = e.tag /\ Value(w \o << >>) = e.value
  BY <1>2, ReadsElement, Zenon
<1> HIDE DEF w
<1> QED
  BY <1>1, <1>2, <1>3, Zenon DEF w

\* One that was cut short does not read as an element.
LEMMA CutShort ==
  ASSUME NEW e, IsElement(e), NEW c \in Seq(Octet), Agree(c, Tlv(e)), Len(c) < Len(Tlv(e))
  PROVE  ~ Readable(c)
<1> SUFFICES ASSUME Readable(c) PROVE FALSE
  OBVIOUS
<1>1. IsSpelled(e) /\ e.size \in Nat /\ e.size \in 0 .. 4 /\ HeadLen(e) = 2 + e.size
  BY DEF IsElement, IsSpelled, HeadLen, Fits
<1>2. Len(e.value) \in Nat /\ Len(Tlv(e)) = HeadLen(e) + Len(e.value)
  BY <1>1, TlvIs
<1>3. Len(c) \in Nat /\ Len(c) >= 2
  BY DEF Readable, HeaderReadable
<1>4. (IsLong(c) <=> e.size # 0) /\ (e.size # 0 => LengthOctets(c) = e.size)
  BY <1>1, <1>3, FirstOctets, Zenon
<1>5. Len(c) >= HeadLen(e)
  BY <1>1, <1>3, <1>4 DEF Readable, HeaderReadable
<1>6. HeaderLen(c) = HeadLen(e) /\ ValueLen(c) = Len(e.value)
  BY <1>5, ReadsHeader, Zenon
<1> QED
  BY <1>1, <1>2, <1>3, <1>6 DEF Readable

\* A length of more than four octets is not read.
LEMMA TooLong ==
  ASSUME NEW e, IsSpelled(e), e.size > 4, NEW c \in Seq(Octet), Agree(c, Tlv(e))
  PROVE  ~ Readable(c)
<1> SUFFICES ASSUME Readable(c) PROVE FALSE
  OBVIOUS
<1>1. Len(c) \in Nat /\ Len(c) >= 2
  BY DEF Readable, HeaderReadable
<1>2. e.size \in Nat /\ e.size # 0
  BY DEF IsSpelled
<1>3. IsLong(c) /\ LengthOctets(c) = e.size
  BY <1>1, <1>2, FirstOctets, Zenon
<1> QED
  BY <1>2, <1>3 DEF Readable, HeaderReadable

LEMMA NothingToRead == ~ Readable(<< >>)
  BY DEF Readable, HeaderReadable

-----------------------------------------------------------------------------
(* What is defined by recursion over a list.                               *)

\* A set of natural numbers that holds 0 and the successor of each of its
\* members holds them all.
LEMMA Induction ==
  ASSUME NEW S, 0 \in S, \A n \in Nat : n \in S => n + 1 \in S
  PROVE  Nat \subseteq S
<1> DEFINE Others == Nat \ S
           Less   == OpToRel(<, Nat)
<1> SUFFICES ASSUME Others # {} PROVE FALSE
  OBVIOUS
<1>1. IsWellFoundedOn(Less, Nat)
  BY NatLessThanWellFounded
<1>2. Others \subseteq Nat
  OBVIOUS
<1> HIDE DEF Others, Less
<1>3. PICK x \in Others : \A y \in Others : << y, x >> \notin Less
  BY <1>1, <1>2, WFMin
<1>4. x - 1 \in Nat /\ x - 1 < x /\ (x - 1) + 1 = x
  BY DEF Others
<1>5. \A y \in Others : ~ (y < x)
  BY <1>3 DEF Others, Less, OpToRel
<1> QED
  BY <1>4, <1>5 DEF Others

\* g takes the steps one after the other, from b on.
Steps(g, len, b, step) == g = [n \in 0 .. len |-> IF n = 0 THEN b ELSE step[n][g[n - 1]]]

LEMMA StepsExist ==
  ASSUME NEW S, NEW b \in S, NEW len \in Nat, NEW step \in [1 .. len -> [S -> S]]
  PROVE  \E g \in [0 .. len -> S] : Steps(g, len, b, step)
<1> DEFINE T == {n \in Nat : n <= len => \E g \in [0 .. n -> S] : Steps(g, n, b, step)}
<1>1. 0 \in T
  <2> DEFINE g == [n \in 0 .. 0 |-> b]
  <2>1. g = [n \in 0 .. 0 |-> IF n = 0 THEN b ELSE step[n][g[n - 1]]]
    OBVIOUS
  <2>2. g \in [0 .. 0 -> S]
    OBVIOUS
  <2> HIDE DEF g
  <2>3. Steps(g, 0, b, step)
    BY <2>1, Zenon DEF Steps
  <2> QED
    BY <2>2, <2>3
<1>2. ASSUME NEW n \in Nat, n \in T PROVE n + 1 \in T
  <2> SUFFICES ASSUME n + 1 <= len
               PROVE  \E g \in [0 .. n + 1 -> S] : Steps(g, n + 1, b, step)
    OBVIOUS
  <2>1. PICK f \in [0 .. n -> S] : Steps(f, n, b, step)
    <3>1. n <= len
      OBVIOUS
    <3> QED
      BY <1>2, <3>1
  <2> DEFINE last == step[n + 1][f[n]]
             g    == [i \in 0 .. n + 1 |-> IF i = n + 1 THEN last ELSE f[i]]
  <2>2. last \in S
    <3>1. n + 1 \in 1 .. len /\ n \in 0 .. n
      OBVIOUS
    <3>2. step[n + 1] \in [S -> S] /\ f[n] \in S
      BY <3>1
    <3> QED
      BY <3>2
  <2> HIDE DEF last
  <2>3. g \in [0 .. n + 1 -> S]
    <3>1. \A i \in 0 .. n + 1 : i # n + 1 => i \in 0 .. n
      OBVIOUS
    <3> QED
      BY <2>2, <3>1
  <2>4. /\ \A i \in 0 .. n : g[i] = f[i]
        /\ g[n + 1] = last
    <3>1. n + 1 \in 0 .. n + 1 /\ \A i \in 0 .. n : i \in 0 .. n + 1 /\ i # n + 1
      OBVIOUS
    <3> QED
      BY <3>1
  <2>5. g = [i \in 0 .. n + 1 |-> g[i]]
    OBVIOUS
  <2> HIDE DEF g
  <2>6. ASSUME NEW i \in 0 .. n + 1
        PROVE  g[i] = IF i = 0 THEN b ELSE step[i][g[i - 1]]
    <3>1. CASE i = n + 1
      <4>1. i # 0 /\ i - 1 = n /\ n \in 0 .. n
        BY <3>1
      <4> QED
        BY <2>4, <3>1, <4>1, Zenon DEF last
    <3>2. CASE i # n + 1
      <4>1. i \in 0 .. n /\ (i # 0 => i - 1 \in 0 .. n)
        BY <3>2
      <4>2. f[i] = IF i = 0 THEN b ELSE step[i][f[i - 1]]
        BY <2>1, <4>1 DEF Steps
      <4> QED
        BY <2>4, <4>1, <4>2, Zenon
    <3> QED
      BY <3>1, <3>2
  <2>7. Steps(g, n + 1, b, step)
    BY <2>5, <2>6 DEF Steps
  <2> QED
    BY <2>3, <2>7
<1> HIDE DEF T
<1>3. Nat \subseteq T
  BY <1>1, <1>2, Induction
<1>4. len \in T
  BY <1>3
<1> QED
  BY <1>4 DEF T

\* The octets behind the first n elements: the next element, and the octets
\* behind that.
LEMMA BehindIs ==
  ASSUME NEW list, Len(list) \in Nat, \A i \in 1 .. Len(list) : Tlv(list[i]) \in Seq(Octet)
  PROVE  /\ Behind(list)[Len(list)] = << >>
         /\ \A n \in 0 .. Len(list) - 1 : Behind(list)[n] = Tlv(list[n + 1]) \o Behind(list)[n + 1]
         /\ \A n \in 0 .. Len(list) : Behind(list)[n] \in Seq(Octet)
<1> DEFINE len == Len(list)
           IsIt(f) == f = [n \in 0 .. len |->
                             IF n = len THEN << >> ELSE Tlv(list[n + 1]) \o f[n + 1]]
           S == Seq(Octet)
           step == [i \in 1 .. len |-> [s \in S |-> Tlv(list[len - i + 1]) \o s]]
<1>1. len \in Nat /\ << >> \in S
  OBVIOUS
<1>2. ASSUME NEW i \in 1 .. len, NEW s \in S
      PROVE  Tlv(list[len - i + 1]) \o s \in S
  <2>1. len - i + 1 \in 1 .. len
    BY <1>1
  <2> DEFINE w == Tlv(list[len - i + 1])
  <2>2. w \in S
    BY <2>1
  <2> HIDE DEF w
  <2> QED
    BY <2>2
<1> HIDE DEF len
<1>3. step \in [1 .. len -> [S -> S]]
  <2> HIDE DEF S
  <2> QED
    BY <1>2
<1>4. PICK g \in [0 .. len -> S] : Steps(g, len, << >>, step)
  <2> HIDE DEF S, step
  <2> QED
    BY <1>1, <1>3, StepsExist
<1> DEFINE f == [n \in 0 .. len |-> g[len - n]]
<1>5. IsIt(f)
  <2> SUFFICES ASSUME NEW n \in 0 .. len
               PROVE  f[n] = IF n = len THEN << >> ELSE Tlv(list[n + 1]) \o f[n + 1]
    BY Zenon
  <2>1. f[n] = g[len - n] /\ len - n \in 0 .. len
    BY <1>1
  <2>2. CASE n = len
    <3>1. len - n = 0 /\ 0 \in 0 .. len
      BY <1>1, <2>2
    <3>2. g[0] = << >>
      BY <1>4, <3>1, Zenon DEF Steps
    <3> QED
      BY <2>1, <2>2, <3>1, <3>2
  <2>3. CASE n # len
    <3> DEFINE m == len - n
    <3>1. /\ m \in 1 .. len /\ m \in 0 .. len /\ m # 0 /\ m - 1 \in 0 .. len
          /\ len - m + 1 = n + 1 /\ n + 1 \in 0 .. len /\ len - (n + 1) = m - 1
      BY <1>1, <2>3
    <3>2. f[n + 1] = g[m - 1]
      BY <3>1
    <3> HIDE DEF m, f
    <3>3. g[m] = step[m][g[m - 1]]
      <4> HIDE DEF step
      <4> QED
        BY <1>4, <3>1, Zenon DEF Steps
    <3>4. g[m - 1] \in S
      BY <3>1
    <3> HIDE DEF S
    <3>5. step[m][g[m - 1]] = Tlv(list[n + 1]) \o g[m - 1]
      BY <3>1, <3>4, Zenon
    <3> QED
      BY <2>1, <2>3, <3>2, <3>3, <3>5, Zenon DEF m
  <2> QED
    BY <2>2, <2>3
<1> HIDE DEF f
<1>6. Behind(list) = CHOOSE h : IsIt(h)
  BY Zenon DEF Behind, len
<1>7. IsIt(Behind(list))
  <2> HIDE DEF IsIt
  <2> QED
    BY <1>5, <1>6, Zenon
<1> DEFINE h == Behind(list)
<1> HIDE DEF h
<1>8. \A n \in 0 .. len : h[n] = IF n = len THEN << >> ELSE Tlv(list[n + 1]) \o h[n + 1]
  BY <1>7, Zenon DEF h
<1> HIDE DEF IsIt, step
<1>9. h[len] = << >>
  <2>1. len \in 0 .. len
    BY <1>1
  <2> QED
    BY <1>8, <2>1, Zenon
<1>10. ASSUME NEW n \in 0 .. len - 1 PROVE h[n] = Tlv(list[n + 1]) \o h[n + 1]
  <2>1. n \in 0 .. len /\ n # len
    BY <1>1
  <2> QED
    BY <1>8, <2>1, Zenon
<1>11. \A n \in 0 .. len : h[n] \in S
  <2> DEFINE T == {k \in Nat : k <= len => h[len - k] \in S}
  <2>1. 0 \in T
    <3>1. h[len] \in S
      BY <1>1, <1>9, Zenon
    <3>2. len - 0 = len
      BY <1>1
    <3> HIDE DEF S
    <3> QED
      BY <3>1, <3>2
  <2>2. ASSUME NEW k \in Nat, k \in T PROVE k + 1 \in T
    <3> SUFFICES ASSUME k + 1 <= len PROVE h[len - (k + 1)] \in S
      OBVIOUS
    <3> DEFINE m == len - (k + 1)
    <3>1. /\ m \in 0 .. len - 1 /\ m + 1 = len - k /\ k <= len
          /\ k + 1 \in 1 .. len /\ len - (k + 1) + 1 = m + 1
      BY <1>1
    <3>2. h[m + 1] \in S
      BY <2>2, <3>1
    <3> HIDE DEF m
    <3>3. Tlv(list[m + 1]) \o h[m + 1] \in S
      BY <1>2, <3>1, <3>2
    <3>4. h[m] = Tlv(list[m + 1]) \o h[m + 1]
      BY <1>10, <3>1
    <3>5. h[m] \in S
      BY <3>3, <3>4, Zenon
    <3> QED
      BY <3>5 DEF m
  <2> HIDE DEF T, S
  <2>3. Nat \subseteq T
    BY <2>1, <2>2, Induction
  <2>4. ASSUME NEW n \in 0 .. len PROVE h[n] \in S
    <3>1. len - n \in Nat /\ len - n <= len /\ len - (len - n) = n
      BY <1>1
    <3> QED
      BY <2>3, <3>1 DEF T
  <2> QED
    BY <2>4
<1> QED
  BY <1>9, <1>10, <1>11, Zenon DEF h, len

\* The DNS names of a list, one element after the other.
LEMMA DnsNamesIs ==
  ASSUME NEW list, Len(list) \in Nat,
         \A i \in 1 .. Len(list) : list[i].value \in Seq(Octet)
  PROVE  /\ DnsNames(list)[0] = << >>
         /\ \A n \in 1 .. Len(list) : DnsNames(list)[n] = WithName(DnsNames(list)[n - 1], list[n])
         /\ \A n \in 0 .. Len(list) : DnsNames(list)[n] \in Seq(Seq(Octet))
<1> DEFINE len == Len(list)
           S == Seq(Seq(Octet))
           IsIt(f) == f = [n \in 0 .. len |->
                             IF n = 0 THEN << >> ELSE WithName(f[n - 1], list[n])]
           step == [n \in 1 .. len |-> [s \in S |-> WithName(s, list[n])]]
<1>1. len \in Nat /\ << >> \in S
  OBVIOUS
<1> HIDE DEF len
<1>2. ASSUME NEW n \in 1 .. len, NEW s \in S
      PROVE  (WithName(s, list[n])) \in S
  <2>1. list[n].value \in Seq(Octet)
    BY DEF len
  <2> DEFINE v == list[n].value
  <2>2. Append(s, v) \in S
    <3> HIDE DEF v
    <3> QED
      BY <2>1 DEF v
  <2> HIDE DEF v, S
  <2> QED
    BY <2>2, Zenon DEF v, WithName
<1>3. step \in [1 .. len -> [S -> S]]
  <2> HIDE DEF S
  <2> QED
    BY <1>2
<1>4. PICK g \in [0 .. len -> S] : Steps(g, len, << >>, step)
  <2> HIDE DEF S, step
  <2> QED
    BY <1>1, <1>3, StepsExist
<1>5. IsIt(g)
  <2> SUFFICES ASSUME NEW n \in 0 .. len
               PROVE  g[n] = IF n = 0 THEN << >> ELSE WithName(g[n - 1], list[n])
    BY <1>4, Zenon DEF Steps
  <2>1. n # 0 => n \in 1 .. len /\ n - 1 \in 0 .. len
    BY <1>1
  <2>2. g[n] = IF n = 0 THEN << >> ELSE step[n][g[n - 1]]
    <3> HIDE DEF step
    <3> QED
      BY <1>4, Zenon DEF Steps
  <2>3. n # 0 => g[n - 1] \in S
    <3> HIDE DEF S
    <3> QED
      BY <2>1
  <2> HIDE DEF S
  <2>4. n # 0 => step[n][g[n - 1]] = WithName(g[n - 1], list[n])
    BY <2>1, <2>3, Zenon
  <2> HIDE DEF step
  <2> QED
    BY <2>2, <2>4, Zenon
<1>6. DnsNames(list) = CHOOSE h : IsIt(h)
  BY Zenon DEF DnsNames, len
<1>7. IsIt(DnsNames(list))
  <2> HIDE DEF IsIt
  <2> QED
    BY <1>5, <1>6, Zenon
<1> DEFINE h == DnsNames(list)
<1> HIDE DEF h
<1>8. \A n \in 0 .. len : h[n] = IF n = 0 THEN << >> ELSE WithName(h[n - 1], list[n])
  BY <1>7, Zenon DEF h
<1> HIDE DEF IsIt, step
<1>9. h[0] = << >>
  <2>1. 0 \in 0 .. len
    BY <1>1
  <2> QED
    BY <1>8, <2>1, Zenon
<1>10. ASSUME NEW n \in 1 .. len PROVE h[n] = WithName(h[n - 1], list[n])
  <2>1. n \in 0 .. len /\ n # 0
    BY <1>1
  <2> QED
    BY <1>8, <2>1, Zenon
<1>11. \A n \in 0 .. len : h[n] \in S
  <2> DEFINE T == {k \in Nat : k <= len => h[k] \in S}
  <2>1. 0 \in T
    <3>1. h[0] \in S
      BY <1>1, <1>9, Zenon
    <3> HIDE DEF S
    <3> QED
      BY <3>1
  <2>2. ASSUME NEW k \in Nat, k \in T PROVE k + 1 \in T
    <3> SUFFICES ASSUME k + 1 <= len PROVE h[k + 1] \in S
      OBVIOUS
    <3> DEFINE m == k + 1
    <3>1. m \in 1 .. len /\ m - 1 = k /\ k <= len
      BY <1>1
    <3> HIDE DEF m, S
    <3>2. h[m - 1] \in S
      BY <2>2, <3>1
    <3>3. h[m] \in S
      BY <1>2, <1>10, <3>1, <3>2, Zenon
    <3> QED
      BY <3>3 DEF m
  <2> HIDE DEF T, S
  <2>3. Nat \subseteq T
    BY <2>1, <2>2, Induction
  <2> QED
    BY <1>1, <2>3 DEF T
<1> QED
  BY <1>9, <1>10, <1>11, Zenon DEF h, len

\* The DNS names of the extensions, one after the other.
LEMMA SanNamesIs ==
  ASSUME NEW list, Len(list) \in Nat,
         \A i \in 1 .. Len(list) : NamesIn(list[i]) \in Seq(Seq(Octet))
  PROVE  /\ SanNames(list)[0] = << >>
         /\ \A n \in 1 .. Len(list) : SanNames(list)[n] = WithNames(SanNames(list)[n - 1], list[n])
         /\ \A n \in 0 .. Len(list) : SanNames(list)[n] \in Seq(Seq(Octet))
<1> DEFINE len == Len(list)
           S == Seq(Seq(Octet))
           IsIt(f) == f = [n \in 0 .. len |->
                             IF n = 0 THEN << >> ELSE WithNames(f[n - 1], list[n])]
           step == [n \in 1 .. len |-> [s \in S |-> WithNames(s, list[n])]]
<1>1. len \in Nat /\ << >> \in S
  OBVIOUS
<1> HIDE DEF len
<1>2. ASSUME NEW n \in 1 .. len, NEW s \in S
      PROVE  (WithNames(s, list[n])) \in S
  <2> DEFINE v == NamesIn(list[n])
  <2>1. v \in S
    BY DEF len
  <2>2. s \o v \in S
    <3> HIDE DEF v
    <3> QED
      BY <2>1
  <2> HIDE DEF v, S
  <2> QED
    BY <2>2, Zenon DEF v, WithNames
<1>3. step \in [1 .. len -> [S -> S]]
  <2> HIDE DEF S
  <2> QED
    BY <1>2
<1>4. PICK g \in [0 .. len -> S] : Steps(g, len, << >>, step)
  <2> HIDE DEF S, step
  <2> QED
    BY <1>1, <1>3, StepsExist
<1>5. IsIt(g)
  <2> SUFFICES ASSUME NEW n \in 0 .. len
               PROVE  g[n] = IF n = 0 THEN << >> ELSE WithNames(g[n - 1], list[n])
    BY <1>4, Zenon DEF Steps
  <2>1. n # 0 => n \in 1 .. len /\ n - 1 \in 0 .. len
    BY <1>1
  <2>2. g[n] = IF n = 0 THEN << >> ELSE step[n][g[n - 1]]
    <3> HIDE DEF step
    <3> QED
      BY <1>4, Zenon DEF Steps
  <2>3. n # 0 => g[n - 1] \in S
    <3> HIDE DEF S
    <3> QED
      BY <2>1
  <2> HIDE DEF S
  <2>4. n # 0 => step[n][g[n - 1]] = WithNames(g[n - 1], list[n])
    BY <2>1, <2>3, Zenon
  <2> HIDE DEF step
  <2> QED
    BY <2>2, <2>4, Zenon
<1>6. SanNames(list) = CHOOSE h : IsIt(h)
  BY Zenon DEF SanNames, len
<1>7. IsIt(SanNames(list))
  <2> HIDE DEF IsIt
  <2> QED
    BY <1>5, <1>6, Zenon
<1> DEFINE h == SanNames(list)
<1> HIDE DEF h
<1>8. \A n \in 0 .. len : h[n] = IF n = 0 THEN << >> ELSE WithNames(h[n - 1], list[n])
  BY <1>7, Zenon DEF h
<1> HIDE DEF IsIt, step
<1>9. h[0] = << >>
  <2>1. 0 \in 0 .. len
    BY <1>1
  <2> QED
    BY <1>8, <2>1, Zenon
<1>10. ASSUME NEW n \in 1 .. len PROVE h[n] = WithNames(h[n - 1], list[n])
  <2>1. n \in 0 .. len /\ n # 0
    BY <1>1
  <2> QED
    BY <1>8, <2>1, Zenon
<1>11. \A n \in 0 .. len : h[n] \in S
  <2> DEFINE T == {k \in Nat : k <= len => h[k] \in S}
  <2>1. 0 \in T
    <3>1. h[0] \in S
      BY <1>1, <1>9, Zenon
    <3> HIDE DEF S
    <3> QED
      BY <3>1
  <2>2. ASSUME NEW k \in Nat, k \in T PROVE k + 1 \in T
    <3> SUFFICES ASSUME k + 1 <= len PROVE h[k + 1] \in S
      OBVIOUS
    <3> DEFINE m == k + 1
    <3>1. m \in 1 .. len /\ m - 1 = k /\ k <= len
      BY <1>1
    <3> HIDE DEF m, S
    <3>2. h[m - 1] \in S
      BY <2>2, <3>1
    <3>3. h[m] \in S
      BY <1>2, <1>10, <3>1, <3>2, Zenon
    <3> QED
      BY <3>3 DEF m
  <2> HIDE DEF T, S
  <2>3. Nat \subseteq T
    BY <2>1, <2>2, Induction
  <2> QED
    BY <1>1, <2>3 DEF T
<1> QED
  BY <1>9, <1>10, <1>11, Zenon DEF h, len

-----------------------------------------------------------------------------
(* What read_tlv finds in a list of elements, an extension, a certificate.  *)

IsList(list) == Len(list) \in Nat /\ \A i \in 1 .. Len(list) : IsElement(list[i])

\* read_tlv finds e in front of c, and rest behind it.
Finds(c, e, rest) ==
  c \in Seq(Octet) /\ Readable(c) /\ Tag(c) = e.tag /\ Value(c) = e.value /\ Rest(c) = rest

\* data is one element with one element in it; contents is what that holds.
Holds(data, tag, contents) ==
  HasTag(data, tag) /\ HasTag(Value(data), SEQUENCE) /\ Value(Value(data)) = contents

LEMMA ElementIsSpelled ==
  ASSUME NEW e, IsElement(e)
  PROVE  IsSpelled(e) /\ Tlv(e) \in Seq(Octet)
<1>1. IsSpelled(e)
  BY DEF IsElement, IsSpelled, Fits
<1> QED
  BY <1>1, TlvIs

LEMMA FrontFound ==
  ASSUME NEW e, IsElement(e), NEW rest \in Seq(Octet)
  PROVE  Finds(Tlv(e) \o rest, e, rest)
  BY ReadsElement, Zenon DEF Finds

\* A list of elements is read one after the other.
LEMMA ReadsBehind ==
  ASSUME NEW list, IsList(list), NEW n \in 0 .. Len(list)
  PROVE  /\ Behind(list)[n] \in Seq(Octet)
         /\ n < Len(list) => Finds(Behind(list)[n], list[n + 1], Behind(list)[n + 1])
         /\ n = Len(list) => ~ Readable(Behind(list)[n])
<1> DEFINE b == Behind(list)
           len == Len(list)
<1>1. len \in Nat /\ \A i \in 1 .. len : IsElement(list[i])
  BY DEF IsList
<1>2. \A i \in 1 .. len : Tlv(list[i]) \in Seq(Octet)
  BY <1>1, ElementIsSpelled
<1>3. /\ b[len] = << >>
      /\ \A i \in 0 .. len - 1 : b[i] = Tlv(list[i + 1]) \o b[i + 1]
      /\ \A i \in 0 .. len : b[i] \in Seq(Octet)
  BY <1>1, <1>2, BehindIs
<1> HIDE DEF b, len
<1>4. CASE n < len
  <2>1. n \in 0 .. len - 1 /\ n + 1 \in 0 .. len /\ n + 1 \in 1 .. len /\ n # len
    BY <1>1, <1>4 DEF len
  <2>2. b[n] = Tlv(list[n + 1]) \o b[n + 1] /\ b[n + 1] \in Seq(Octet) /\ IsElement(list[n + 1])
    BY <1>1, <1>3, <2>1, Zenon
  <2>3. Finds(Tlv(list[n + 1]) \o b[n + 1], list[n + 1], b[n + 1])
    BY <2>2, FrontFound, Zenon
  <2>4. Finds(b[n], list[n + 1], b[n + 1])
    BY <2>2, <2>3, Zenon
  <2> QED
    BY <1>3, <2>1, <2>4, Zenon DEF b, len
<1>5. CASE n = len
  <2>1. ~ (n < len)
    BY <1>1, <1>5
  <2>2. ~ Readable(b[n])
    BY <1>3, <1>5, NothingToRead, Zenon
  <2> QED
    BY <1>3, <2>1, <2>2, Zenon DEF b, len
<1>6. n < len \/ n = len
  BY <1>1 DEF len
<1> QED
  BY <1>4, <1>5, <1>6

\* An element in an element.
LEMMA HoldsOne ==
  ASSUME NEW data, NEW e, NEW rest, Finds(data, e, rest),
         NEW inner, IsElement(inner), e.value = Tlv(inner), inner.tag = SEQUENCE
  PROVE  Holds(data, e.tag, inner.value)
<1>1. Readable(data) /\ Tag(data) = e.tag /\ Value(data) = Tlv(inner)
  BY Zenon DEF Finds
<1>2. Readable(Tlv(inner)) /\ Tag(Tlv(inner)) = SEQUENCE /\ Value(Tlv(inner)) = inner.value
  BY ReadsAlone, Zenon
<1> QED
  BY <1>1, <1>2, Zenon DEF Holds, HasTag

-----------------------------------------------------------------------------
(* Extensions.                                                             *)

\* The parts that IsSan asks for, found in the octets of an extension.
PayloadOf(data) ==
  IF HasTag(Rest(data), BOOLEAN_TAG) THEN Rest(Rest(data)) ELSE Rest(data)

LEMMA FlagIsElement == IsElement(Flag) /\ Flag.tag = BOOLEAN_TAG
<1>1. << 255 >> \in Seq(Octet) /\ Len(<< 255 >>) = 1
  BY DEF Octet
<1> DEFINE v == << 255 >>
<1>2. Flag.tag = 1 /\ Flag.size = 0 /\ Flag.value = v
  BY DEF Flag, Element, BOOLEAN_TAG
<1> HIDE DEF v
<1>3. Fits(Len(v), 0)
  BY <1>1 DEF Fits, v
<1>4. 1 \in Octet /\ 0 \in 0 .. 4
  BY DEF Octet
<1>5. v \in Seq(Octet)
  BY <1>1 DEF v
<1> QED
  BY <1>2, <1>3, <1>4, <1>5, Zenon DEF IsElement, BOOLEAN_TAG

\* q is s and x behind it.
IsWith(s, x, q) ==
  /\ Len(q) = Len(s) + 1 /\ q[Len(s) + 1] = x
  /\ \A i \in 1 .. Len(s) : q[i] = s[i]

LEMMA OneBehind ==
  ASSUME NEW S, NEW s \in Seq(S), NEW x \in S
  PROVE  s \o << x >> \in Seq(S) /\ IsWith(s, x, s \o << x >>)
<1>1. << x >> \in Seq(S) /\ Len(<< x >>) = 1 /\ << x >>[1] = x
  OBVIOUS
<1> DEFINE t == << x >>
<1> HIDE DEF t
<1>2. /\ s \o t \in Seq(S) /\ Len(s \o t) = Len(s) + 1 /\ (s \o t)[Len(s) + 1] = t[1]
      /\ \A i \in 1 .. Len(s) : (s \o t)[i] = s[i]
  BY <1>1 DEF t
<1> QED
  BY <1>1, <1>2, Zenon DEF IsWith, t

LEMMA TagsDiffer ==
  /\ OCTET_STRING # BOOLEAN_TAG /\ SEQUENCE \in Octet /\ EXTENSIONS \in Octet
  BY DEF OCTET_STRING, BOOLEAN_TAG, SEQUENCE, EXTENSIONS, Octet

LEMMA ReadsExtension ==
  ASSUME NEW x, IsExt(x)
  PROVE  LET c == Written(Parts(x))
         IN  /\ HasTag(c, OID) /\ Value(c) = x.oid
             /\ Holds(PayloadOf(c), OCTET_STRING, Written(x.list))
<1> DEFINE p == Parts(x)
           b == Behind(p)
<1>1. IsElement(Oid(x)) /\ IsElement(Wrapper(x)) /\ IsElement(List(x)) /\ x.critical \in BOOLEAN
  BY Zenon DEF IsExt
<1>2. /\ Oid(x).tag = OID /\ Oid(x).value = x.oid
      /\ Wrapper(x).tag = OCTET_STRING /\ Wrapper(x).value = Tlv(List(x))
      /\ List(x).tag = SEQUENCE /\ List(x).value = Written(x.list)
  BY DEF Oid, Wrapper, List, Element
<1>3. CASE x.critical
  <2> DEFINE o == Oid(x)
             w == Wrapper(x)
             g == Flag
  <2> HIDE DEF o, w, g
  <2>1. p = << o >> \o << g >> \o << w >>
    BY <1>3 DEF Parts, o, w, g
  <2> DEFINE S == {o, g, w}
             q == << o >> \o << g >>
  <2>2. << o >> \in Seq(S) /\ Len(<< o >>) = 1 /\ << o >>[1] = o /\ g \in S /\ w \in S
    OBVIOUS
  <2> HIDE DEF S
  <2>3. q \in Seq(S) /\ IsWith(<< o >>, g, q)
    BY <2>2, OneBehind
  <2> HIDE DEF q
  <2>4. IsWith(q, w, p)
    BY <2>1, <2>2, <2>3, OneBehind DEF q
  <2> HIDE DEF p
  <2>5. Len(p) = 3 /\ p[1] = o /\ p[2] = g /\ p[3] = w
    <3>1. Len(q) = 2 /\ q[1] = o /\ q[2] = g
      BY <2>2, <2>3 DEF IsWith
    <3> QED
      BY <2>4, <3>1 DEF IsWith
  <2>6. IsList(p)
    BY <1>1, <2>5, FlagIsElement DEF IsList, o, w, g
  <2>7. Finds(b[0], o, b[1]) /\ Finds(b[1], g, b[2]) /\ Finds(b[2], w, b[3])
    <3>1. /\ 0 \in 0 .. Len(p) /\ 0 < Len(p) /\ 0 + 1 = 1
          /\ 1 \in 0 .. Len(p) /\ 1 < Len(p) /\ 1 + 1 = 2
          /\ 2 \in 0 .. Len(p) /\ 2 < Len(p) /\ 2 + 1 = 3
      BY <2>5
    <3>2. /\ Finds(b[0], p[0 + 1], b[0 + 1])
          /\ Finds(b[1], p[1 + 1], b[1 + 1])
          /\ Finds(b[2], p[2 + 1], b[2 + 1])
      BY <2>6, <3>1, ReadsBehind, Zenon
    <3> QED
      BY <2>5, <3>1, <3>2, Zenon
  <2> HIDE DEF b
  <2>8. PayloadOf(b[0]) = b[2]
    BY <2>7, FlagIsElement, Zenon DEF PayloadOf, Finds, HasTag, g
  <2>9. HasTag(b[0], OID) /\ Value(b[0]) = x.oid
    BY <1>2, <2>7, Zenon DEF Finds, HasTag, o
  <2>10. Holds(b[2], OCTET_STRING, Written(x.list))
    <3>1. Holds(b[2], w.tag, List(x).value)
      BY <1>1, <1>2, <2>7, HoldsOne, Zenon DEF w
    <3> QED
      BY <1>2, <3>1, Zenon DEF w
  <2> QED
    BY <2>8, <2>9, <2>10, Zenon DEF Written, b, p
<1>4. CASE ~ x.critical
  <2> DEFINE o == Oid(x)
             w == Wrapper(x)
  <2> HIDE DEF o, w
  <2>1. p = << o >> \o << >> \o << w >>
    BY <1>4 DEF Parts, o, w
  <2> DEFINE S == {o, w}
             q == << o >> \o << >>
  <2>2. q \in Seq(S) /\ Len(q) = 1 /\ q[1] = o /\ w \in S
    OBVIOUS
  <2> HIDE DEF S, q
  <2>3. IsWith(q, w, p)
    BY <2>1, <2>2, OneBehind DEF q
  <2> HIDE DEF p
  <2>4. Len(p) = 2 /\ p[1] = o /\ p[2] = w
    BY <2>2, <2>3 DEF IsWith
  <2>5. IsList(p)
    BY <1>1, <2>4 DEF IsList, o, w
  <2>6. Finds(b[0], o, b[1]) /\ Finds(b[1], w, b[2])
    <3>1. /\ 0 \in 0 .. Len(p) /\ 0 < Len(p) /\ 0 + 1 = 1
          /\ 1 \in 0 .. Len(p) /\ 1 < Len(p) /\ 1 + 1 = 2
      BY <2>4
    <3>2. /\ Finds(b[0], p[0 + 1], b[0 + 1])
          /\ Finds(b[1], p[1 + 1], b[1 + 1])
      BY <2>5, <3>1, ReadsBehind, Zenon
    <3> QED
      BY <2>4, <3>1, <3>2, Zenon
  <2> HIDE DEF b
  <2>7. PayloadOf(b[0]) = b[1]
    BY <1>2, <2>6, TagsDiffer, Zenon DEF PayloadOf, Finds, HasTag, w
  <2>8. HasTag(b[0], OID) /\ Value(b[0]) = x.oid
    BY <1>2, <2>6, Zenon DEF Finds, HasTag, o
  <2>9. Holds(b[1], OCTET_STRING, Written(x.list))
    <3>1. Holds(b[1], w.tag, List(x).value)
      BY <1>1, <1>2, <2>6, HoldsOne, Zenon DEF w
    <3> QED
      BY <1>2, <3>1, Zenon DEF w
  <2> QED
    BY <2>7, <2>8, <2>9, Zenon DEF Written, b, p
<1> QED
  BY <1>1, <1>3, <1>4

-----------------------------------------------------------------------------
(* Certificates.                                                           *)

\* A sequence of the members of its range.
LEMMA SequenceOfRange ==
  ASSUME NEW q, q \in Seq(Range(q))
  PROVE  Len(q) \in Nat /\ DOMAIN q = 1 .. Len(q)
<1> DEFINE R == Range(q)
<1>1. q \in Seq(R)
  OBVIOUS
<1> HIDE DEF R
<1> QED
  BY <1>1

LEMMA ExtsAre ==
  ASSUME NEW f \in Forms
  PROVE  /\ IsList(Exts(f)) /\ Len(Exts(f)) = Len(f.exts) /\ Len(f.exts) \in Nat
         /\ \A k \in 1 .. Len(f.exts) :
              IsExt(f.exts[k]) /\ Exts(f)[k] = Ext(f.exts[k])
<1>1. f.exts \in Seq(Range(f.exts)) /\ \A k \in DOMAIN f.exts : IsExt(f.exts[k])
  BY FormsAssumption, Zenon DEF IsForm
<1>2. Len(f.exts) \in Nat /\ DOMAIN f.exts = 1 .. Len(f.exts)
  BY <1>1, SequenceOfRange, Zenon
<1> DEFINE n == Len(f.exts)
<1>3. Exts(f) = [k \in 1 .. n |-> Ext(f.exts[k])]
  BY <1>2, Zenon DEF Exts
<1>4. n \in Nat
  BY <1>2
<1> HIDE DEF n
<1>5. Len(Exts(f)) = n /\ \A k \in 1 .. n : Exts(f)[k] = Ext(f.exts[k])
  BY <1>3, <1>4
<1>6. \A k \in 1 .. n : IsExt(f.exts[k]) /\ IsElement(Ext(f.exts[k]))
  BY <1>1, <1>2, Zenon DEF n, IsExt
<1>7. IsList(Exts(f))
  BY <1>4, <1>5, <1>6, Zenon DEF IsList
<1> QED
  BY <1>4, <1>5, <1>6, <1>7, Zenon DEF n

\* The lengths around the fields are all written in the same way.
LEMMA Around ==
  ASSUME NEW f \in Forms, NEW e \in {Inner(f), Outer(f), Body(f), Whole(f)}, e.value \in Seq(Octet)
  PROVE  IsSpelled(e) /\ e.size = f.size /\ (f.size <= 4 => IsElement(e))
<1>1. f.size \in Nat /\ f.size < 128 /\ Fits(Len(e.value), f.size)
  BY FormsAssumption, Zenon DEF IsForm
<1>2. e.size = f.size /\ e.tag \in {SEQUENCE, EXTENSIONS}
  BY DEF Inner, Outer, Body, Whole, Element
<1>3. e.tag \in Octet
  BY <1>2, TagsDiffer
<1> DEFINE k == f.size
<1>4. k \in Nat /\ k < 128 /\ (k <= 4 => k \in 0 .. 4)
  BY <1>1
<1>5. k = 0 => Len(e.value) < 128
  BY <1>1 DEF Fits
<1> HIDE DEF k
<1> QED
  BY <1>1, <1>2, <1>3, <1>4, <1>5, Zenon DEF IsSpelled, IsElement, k

LEMMA FieldsAre ==
  ASSUME NEW f \in Forms
  PROVE  /\ Len(f.front) \in Nat /\ Len(Fields(f)) = Len(f.front) + 1
         /\ \A i \in 1 .. Len(f.front) :
              IsElement(Fields(f)[i]) /\ Fields(f)[i].tag # EXTENSIONS
         /\ Fields(f)[Len(f.front) + 1] = Outer(f)
<1>1. /\ f.front \in Seq(Range(f.front)) /\ AreElements(f.front)
      /\ \A i \in DOMAIN f.front : f.front[i].tag # EXTENSIONS
  BY FormsAssumption, Zenon DEF IsForm
<1>2. Len(f.front) \in Nat /\ DOMAIN f.front = 1 .. Len(f.front)
  BY <1>1, SequenceOfRange, Zenon
<1> DEFINE q == f.front
           o == Outer(f)
           r == Append(q, o)
           X == Range(q) \cup {o}
<1>3. q \in Seq(X) /\ o \in X
  <2>1. q \in Seq(Range(q)) /\ Range(q) \subseteq X
    BY <1>1
  <2> DEFINE R == Range(q)
  <2> HIDE DEF R, X
  <2>2. q \in Seq(R) /\ R \subseteq X
    BY <2>1 DEF R
  <2>3. o \in X
    BY DEF X
  <2> QED
    BY <2>2, <2>3
<1> HIDE DEF q, o, X
<1>4. Len(r) = Len(q) + 1 /\ r[Len(q) + 1] = o /\ \A i \in 1 .. Len(q) : r[i] = q[i]
  BY <1>3
<1> HIDE DEF r
<1>5. Fields(f) = r
  BY Zenon DEF Fields, r, q, o
<1>6. \A i \in 1 .. Len(q) : IsElement(q[i]) /\ q[i].tag # EXTENSIONS
  BY <1>1, <1>2, Zenon DEF AreElements, q
<1> QED
  BY <1>2, <1>4, <1>5, <1>6, Zenon DEF q, o

\* Everything in a form can be written down, and what is written reads as
\* an element if its length has no more than four octets.
LEMMA FormIs ==
  ASSUME NEW f \in Forms
  PROVE  /\ IsSpelled(Whole(f)) /\ Whole(f).size = f.size
         /\ f.size <= 4 => /\ IsElement(Whole(f)) /\ IsElement(Body(f)) /\ IsElement(Inner(f))
                           /\ IsList(Fields(f))
<1>1. Inner(f).value \in Seq(Octet)
  <2>1. Written(Exts(f)) \in Seq(Octet)
    <3>1. IsList(Exts(f)) /\ 0 \in 0 .. Len(Exts(f))
      BY ExtsAre
    <3> QED
      BY <3>1, ReadsBehind, Zenon DEF Written
  <2> QED
    BY <2>1 DEF Inner, Element
<1>2. IsSpelled(Inner(f)) /\ (f.size <= 4 => IsElement(Inner(f)))
  BY <1>1, Around
<1>3. Outer(f).value \in Seq(Octet)
  <2>1. Tlv(Inner(f)) \in Seq(Octet)
    BY <1>2, TlvIs
  <2> QED
    BY <2>1 DEF Outer, Element
<1>4. IsSpelled(Outer(f)) /\ (f.size <= 4 => IsElement(Outer(f)))
  BY <1>3, Around
<1>5. Body(f).value \in Seq(Octet)
  <2> DEFINE q == Fields(f)
             n == Len(f.front)
  <2>1. /\ n \in Nat /\ Len(q) = n + 1 /\ q[n + 1] = Outer(f)
        /\ \A i \in 1 .. n : IsElement(q[i])
    BY FieldsAre, Zenon
  <2>2. Tlv(Outer(f)) \in Seq(Octet)
    BY <1>4, TlvIs
  <2> HIDE DEF q, n
  <2>3. ASSUME NEW i \in 1 .. Len(q) PROVE Tlv(q[i]) \in Seq(Octet)
    <3>1. i \in 1 .. n \/ i = n + 1
      BY <2>1
    <3>2. CASE i \in 1 .. n
      BY <2>1, <3>2, ElementIsSpelled, Zenon
    <3>3. CASE i = n + 1
      BY <2>1, <2>2, <3>3, Zenon
    <3> QED
      BY <3>1, <3>2, <3>3
  <2>4. Len(q) \in Nat /\ 0 \in 0 .. Len(q)
    BY <2>1
  <2>5. \A m \in 0 .. Len(q) : Behind(q)[m] \in Seq(Octet)
    BY <2>3, <2>4, BehindIs
  <2>6. Written(Fields(f)) \in Seq(Octet)
    BY <2>4, <2>5, Zenon DEF Written, q
  <2> QED
    BY <2>6 DEF Body, Element
<1>6. IsSpelled(Body(f)) /\ (f.size <= 4 => IsElement(Body(f)))
  BY <1>5, Around
<1>7. Whole(f).value \in Seq(Octet)
  <2>1. Tlv(Body(f)) \in Seq(Octet)
    BY <1>6, TlvIs
  <2> QED
    BY <2>1 DEF Whole, Element
<1>8. IsSpelled(Whole(f)) /\ Whole(f).size = f.size /\ (f.size <= 4 => IsElement(Whole(f)))
  BY <1>7, Around
<1>9. f.size <= 4 => IsList(Fields(f))
  <2> DEFINE q == Fields(f)
             n == Len(f.front)
  <2>1. /\ n \in Nat /\ Len(q) = n + 1 /\ q[n + 1] = Outer(f)
        /\ \A i \in 1 .. n : IsElement(q[i])
    BY FieldsAre, Zenon
  <2> HIDE DEF q, n
  <2>2. \A i \in 1 .. Len(q) : i \in 1 .. n \/ i = n + 1
    BY <2>1
  <2>3. Len(q) \in Nat
    BY <2>1
  <2> QED
    BY <1>4, <2>1, <2>2, <2>3, Zenon DEF IsList, q
<1> QED
  BY <1>2, <1>6, <1>8, <1>9

\* A certificate is the octets of a form with others behind, if there are any.
LEMMA FormInFront ==
  ASSUME NEW w \in Seq(Octet), NEW c \in Seq(Octet), IsPrefix(w, c)
  PROVE  \E rest \in Seq(Octet) : c = w \o rest
<1> DEFINE n == Len(w)
           rest == SubSeq(c, n + 1, Len(c))
<1>1. n \in Nat /\ Len(c) \in Nat /\ n <= Len(c)
  BY DEF IsPrefix
<1>2. SubSeq(w, 1, n) = SubSeq(c, 1, n)
  BY DEF IsPrefix
<1> HIDE DEF n
<1>3. rest \in Seq(Octet)
  BY <1>1
<1>4. Len(rest) = Len(c) - n /\ \A i \in 1 .. Len(c) - n : rest[i] = c[n + i]
  BY <1>1
<1>5. \A i \in 1 .. n : w[i] = c[i]
  <2>1. SubSeq(w, 1, n) = w
    BY SubSeqFull DEF n
  <2>2. \A i \in 1 .. n : SubSeq(c, 1, n)[i] = c[i]
    BY <1>1
  <2> QED
    BY <1>2, <2>1, <2>2, Zenon
<1> HIDE DEF rest
<1>6. IsJoined(w, rest, w \o rest)
  BY <1>3, Joined, Zenon
<1>7. w \o rest \in Seq(Octet) /\ Len(w \o rest) = Len(c)
  BY <1>1, <1>4, <1>6 DEF IsJoined, n
<1>8. ASSUME NEW i \in 1 .. Len(c) PROVE c[i] = (w \o rest)[i]
  <2>1. CASE i \in 1 .. n
    BY <1>5, <1>6, <2>1, Zenon DEF IsJoined, n
  <2>2. CASE i \notin 1 .. n
    <3>1. i - n \in 1 .. Len(c) - n /\ n + (i - n) = i
      BY <1>1, <2>2
    <3>2. (w \o rest)[n + (i - n)] = rest[i - n]
      BY <1>4, <1>6, <3>1, Zenon DEF IsJoined, n
    <3>3. rest[i - n] = c[n + (i - n)]
      BY <1>4, <3>1, Zenon
    <3> QED
      BY <3>1, <3>2, <3>3, Zenon
  <2> QED
    BY <2>1, <2>2
<1>9. c = w \o rest
  BY <1>7, <1>8, SeqEqual
<1> QED
  BY <1>3, <1>9

\* The octets up to the end of the shorter of the two are the same.
LEMMA PrefixAgrees ==
  ASSUME NEW w \in Seq(Octet), NEW c \in Seq(Octet)
  PROVE  /\ IsPrefix(w, c) => Agree(c, w)
         /\ IsStrictPrefix(c, w) => Agree(c, w) /\ Len(c) < Len(w)
<1>1. Len(w) \in Nat /\ Len(c) \in Nat
  OBVIOUS
<1>2. ASSUME IsPrefix(w, c) PROVE Agree(c, w)
  <2>1. Len(w) <= Len(c) /\ SubSeq(w, 1, Len(w)) = SubSeq(c, 1, Len(w))
    BY <1>2 DEF IsPrefix
  <2>2. SubSeq(w, 1, Len(w)) = w
    BY SubSeqFull
  <2>3. \A i \in 1 .. Len(w) : SubSeq(c, 1, Len(w))[i] = c[i]
    BY <1>1, <2>1
  <2> QED
    BY <2>1, <2>2, <2>3, Zenon DEF Agree
<1>3. ASSUME IsStrictPrefix(c, w) PROVE Agree(c, w) /\ Len(c) < Len(w)
  <2>1. Len(c) <= Len(w) /\ SubSeq(c, 1, Len(c)) = SubSeq(w, 1, Len(c)) /\ c # w
    BY <1>3 DEF IsPrefix, IsStrictPrefix
  <2>2. SubSeq(c, 1, Len(c)) = c
    BY SubSeqFull
  <2>3. \A i \in 1 .. Len(c) : SubSeq(w, 1, Len(c))[i] = w[i]
    BY <1>1, <2>1
  <2>4. \A i \in 1 .. Len(c) : c[i] = w[i]
    BY <2>1, <2>2, <2>3, Zenon
  <2>5. Agree(c, w)
    BY <1>1, <2>4 DEF Agree
  <2>6. Len(c) # Len(w)
    BY <2>1, <2>4, SeqEqual
  <2> QED
    BY <1>1, <2>1, <2>5, <2>6
<1> QED
  BY <1>2, <1>3

\* A certificate opens on its fields, unless its length is too long to read.
LEMMA OpensForm ==
  ASSUME NEW f \in Forms, NEW c \in Seq(Octet), IsPrefix(Encoded[f], c)
  PROVE  /\ f.size <= 4 => Holds(c, SEQUENCE, Behind(Fields(f))[0])
         /\ f.size > 4 => ~ Readable(c)
<1> DEFINE w == Tlv(Whole(f))
<1>1. Encoded[f] = w
  BY DEF Encoded
<1>2. IsSpelled(Whole(f)) /\ Whole(f).size = f.size
      /\ (f.size <= 4 => IsElement(Whole(f)) /\ IsElement(Body(f)))
  BY FormIs, Zenon
<1>3. w \in Seq(Octet) /\ IsPrefix(w, c)
  BY <1>1, <1>2, TlvIs
<1>4. ASSUME f.size <= 4 PROVE Holds(c, SEQUENCE, Behind(Fields(f))[0])
  <2>1. PICK rest \in Seq(Octet) : c = w \o rest
    BY <1>3, FormInFront, Zenon
  <2>2. Finds(c, Whole(f), rest)
    BY <1>2, <1>4, <2>1, FrontFound, Zenon
  <2>3. /\ Whole(f).tag = SEQUENCE /\ Whole(f).value = Tlv(Body(f))
        /\ Body(f).tag = SEQUENCE /\ Body(f).value = Written(Fields(f))
    BY DEF Whole, Body, Element
  <2>4. Holds(c, Whole(f).tag, Body(f).value)
    BY <1>2, <1>4, <2>2, <2>3, HoldsOne, Zenon
  <2> QED
    BY <2>3, <2>4, Zenon DEF Written
<1>5. ASSUME f.size > 4 PROVE ~ Readable(c)
  <2>1. Agree(c, w)
    BY <1>3, PrefixAgrees, Zenon
  <2>2. Whole(f).size > 4
    BY <1>2, <1>5, Zenon
  <2> QED
    BY <1>2, <2>1, <2>2, TooLong, Zenon
<1> QED
  BY <1>4, <1>5

\* One that was cut short does not open.
LEMMA ShortFormIsUnreadable ==
  ASSUME NEW f \in Forms, NEW c \in Seq(Octet), IsStrictPrefix(c, Encoded[f])
  PROVE  ~ Readable(c)
<1> DEFINE w == Tlv(Whole(f))
<1>1. Encoded[f] = w
  BY DEF Encoded
<1>2. IsSpelled(Whole(f)) /\ Whole(f).size = f.size /\ f.size \in Nat
      /\ (f.size <= 4 => IsElement(Whole(f)))
  BY FormIs, FormsAssumption, Zenon DEF IsForm
<1>3. w \in Seq(Octet) /\ IsStrictPrefix(c, w)
  BY <1>1, <1>2, TlvIs
<1>4. Agree(c, w) /\ Len(c) < Len(w)
  BY <1>3, PrefixAgrees, Zenon
<1>5. CASE f.size <= 4
  BY <1>2, <1>4, <1>5, CutShort, Zenon
<1>6. CASE ~ (f.size <= 4)
  <2>1. Whole(f).size > 4
    BY <1>2, <1>6
  <2> QED
    BY <1>2, <1>4, <2>1, TooLong, Zenon
<1> QED
  BY <1>5, <1>6

\* The fields are skipped up to the extensions.
LEMMA ReadsFields ==
  ASSUME NEW f \in Forms, f.size <= 4, NEW n \in 0 .. Len(f.front)
  PROVE  LET c == Behind(Fields(f))[n]
         IN  /\ c \in Seq(Octet) /\ Readable(c)
             /\ n < Len(f.front) => Tag(c) # EXTENSIONS /\ Rest(c) = Behind(Fields(f))[n + 1]
             /\ n = Len(f.front) => Holds(c, EXTENSIONS, Behind(Exts(f))[0])
<1> DEFINE q == Fields(f)
           b == Behind(q)
           m == Len(f.front)
<1>1. IsList(q)
  BY FormIs, Zenon
<1>2. /\ m \in Nat /\ Len(q) = m + 1 /\ q[m + 1] = Outer(f)
      /\ \A i \in 1 .. m : q[i].tag # EXTENSIONS
  BY FieldsAre, Zenon
<1> HIDE DEF q, m
<1>3. n \in 0 .. Len(q) /\ n < Len(q) /\ n + 1 \in 1 .. m + 1 /\ n <= m /\ n \in Nat
  BY <1>2 DEF m
<1>4. b[n] \in Seq(Octet) /\ Finds(b[n], q[n + 1], b[n + 1])
  BY <1>1, <1>3, ReadsBehind, Zenon
<1> HIDE DEF b
<1>5. ASSUME n < m PROVE Tag(b[n]) # EXTENSIONS /\ Rest(b[n]) = b[n + 1]
  <2>1. n + 1 \in 1 .. m
    BY <1>2, <1>3, <1>5
  <2> QED
    BY <1>2, <1>4, <2>1, Zenon DEF Finds
<1>6. ASSUME n = m PROVE Holds(b[n], EXTENSIONS, Behind(Exts(f))[0])
  <2>1. Finds(b[n], Outer(f), b[n + 1])
    BY <1>2, <1>4, <1>6, Zenon
  <2>2. /\ Outer(f).tag = EXTENSIONS /\ Outer(f).value = Tlv(Inner(f))
        /\ Inner(f).tag = SEQUENCE /\ Inner(f).value = Written(Exts(f))
    BY DEF Outer, Inner, Element
  <2>3. IsElement(Inner(f))
    BY FormIs, Zenon
  <2>4. Holds(b[n], Outer(f).tag, Inner(f).value)
    BY <2>1, <2>2, <2>3, HoldsOne, Zenon
  <2> QED
    BY <2>2, <2>4, Zenon DEF Written
<1>7. Readable(b[n])
  BY <1>4, Zenon DEF Finds
<1> QED
  BY <1>4, <1>5, <1>6, <1>7, Zenon DEF b, q, m

\* The extensions are read one after the other.
LEMMA ReadsExts ==
  ASSUME NEW f \in Forms, NEW n \in 0 .. Len(f.exts)
  PROVE  LET c == Behind(Exts(f))[n]
         IN  /\ n = Len(f.exts) => ~ Readable(c)
             /\ n < Len(f.exts) =>
                  /\ n + 1 \in 1 .. Len(f.exts) /\ IsExt(f.exts[n + 1])
                  /\ Readable(c) /\ Tag(c) = SEQUENCE
                  /\ Value(c) = Written(Parts(f.exts[n + 1]))
                  /\ Rest(c) = Behind(Exts(f))[n + 1]
<1> DEFINE q == Exts(f)
           b == Behind(q)
           m == Len(f.exts)
<1>1. /\ IsList(q) /\ Len(q) = m /\ m \in Nat
      /\ \A k \in 1 .. m : IsExt(f.exts[k]) /\ q[k] = Ext(f.exts[k])
  BY ExtsAre, Zenon
<1> HIDE DEF q, m
<1>2. n \in 0 .. Len(q)
  BY <1>1 DEF m
<1>3. /\ n < Len(q) => Finds(b[n], q[n + 1], b[n + 1])
      /\ n = Len(q) => ~ Readable(b[n])
  BY <1>1, <1>2, ReadsBehind, Zenon
<1> HIDE DEF b
<1>4. ASSUME n < m
      PROVE  /\ n + 1 \in 1 .. m /\ IsExt(f.exts[n + 1])
             /\ Readable(b[n]) /\ Tag(b[n]) = SEQUENCE
             /\ Value(b[n]) = Written(Parts(f.exts[n + 1]))
             /\ Rest(b[n]) = b[n + 1]
  <2>1. n + 1 \in 1 .. m
    BY <1>1, <1>4 DEF m
  <2>2. Finds(b[n], Ext(f.exts[n + 1]), b[n + 1])
    BY <1>1, <1>3, <1>4, <2>1, Zenon
  <2>3. /\ Ext(f.exts[n + 1]).tag = SEQUENCE
        /\ Ext(f.exts[n + 1]).value = Written(Parts(f.exts[n + 1]))
    BY DEF Ext, Element
  <2> QED
    BY <1>1, <2>1, <2>2, <2>3, Zenon DEF Finds
<1> QED
  BY <1>1, <1>3, <1>4, Zenon DEF b, q, m

\* The names in an extension are read one after the other.
LEMMA ReadsNames ==
  ASSUME NEW x, IsExt(x)
  PROVE  /\ IsList(x.list) /\ NamesIn(x) \in Seq(Seq(Octet))
         /\ DnsNames(x.list)[0] = << >>
         /\ \A n \in 0 .. Len(x.list) : DnsNames(x.list)[n] \in Seq(Seq(Octet))
         /\ \A n \in 1 .. Len(x.list) :
              DnsNames(x.list)[n] = WithName(DnsNames(x.list)[n - 1], x.list[n])
<1>1. x.list \in Seq(Range(x.list)) /\ AreElements(x.list)
  BY Zenon DEF IsExt
<1>2. Len(x.list) \in Nat /\ DOMAIN x.list = 1 .. Len(x.list)
  BY <1>1, SequenceOfRange, Zenon
<1>3. IsList(x.list)
  BY <1>1, <1>2, Zenon DEF AreElements, IsList
<1>4. \A i \in 1 .. Len(x.list) : x.list[i].value \in Seq(Octet)
  BY <1>3, Zenon DEF IsList, IsElement
<1> DEFINE q == x.list
<1> HIDE DEF q
<1>5. /\ DnsNames(q)[0] = << >>
      /\ \A n \in 1 .. Len(q) : DnsNames(q)[n] = WithName(DnsNames(q)[n - 1], q[n])
      /\ \A n \in 0 .. Len(q) : DnsNames(q)[n] \in Seq(Seq(Octet))
  BY <1>2, <1>4, DnsNamesIs DEF q
<1>6. Len(q) \in 0 .. Len(q)
  BY <1>2 DEF q
<1>7. NamesIn(x) \in Seq(Seq(Octet))
  BY <1>5, <1>6, Zenon DEF NamesIn, q
<1> QED
  BY <1>3, <1>5, <1>7, Zenon DEF q

LEMMA NamesOfForm ==
  ASSUME NEW f \in Forms
  PROVE  /\ SanNames(f.exts)[0] = << >>
         /\ \A n \in 0 .. Len(f.exts) : SanNames(f.exts)[n] \in Seq(Seq(Octet))
         /\ \A n \in 1 .. Len(f.exts) :
              SanNames(f.exts)[n] = WithNames(SanNames(f.exts)[n - 1], f.exts[n])
<1>1. Len(f.exts) \in Nat /\ \A k \in 1 .. Len(f.exts) : IsExt(f.exts[k])
  BY ExtsAre, Zenon
<1>2. \A k \in 1 .. Len(f.exts) : NamesIn(f.exts[k]) \in Seq(Seq(Octet))
  BY <1>1, ReadsNames, Zenon
<1> DEFINE q == f.exts
<1> HIDE DEF q
<1>3. /\ SanNames(q)[0] = << >>
      /\ \A n \in 1 .. Len(q) : SanNames(q)[n] = WithNames(SanNames(q)[n - 1], q[n])
      /\ \A n \in 0 .. Len(q) : SanNames(q)[n] \in Seq(Seq(Octet))
  BY <1>1, <1>2, SanNamesIs DEF q
<1> QED
  BY <1>3, Zenon DEF q

-----------------------------------------------------------------------------
(* The walk along a certificate that is written as it should be.           *)

InFields(f) ==
  \E n \in 0 .. Len(f.front) : fields = Behind(Fields(f))[n]

InExts(f) ==
  \E k \in 0 .. Len(f.exts) : exts = Behind(Exts(f))[k] /\ names = SanNames(f.exts)[k]

InNames(f) ==
  \E k \in 1 .. Len(f.exts) :
    /\ f.exts[k].oid = SAN_OID
    /\ exts = Behind(Exts(f))[k]
    /\ \E j \in 0 .. Len(f.exts[k].list) :
         /\ alts = Behind(f.exts[k].list)[j]
         /\ names = SanNames(f.exts)[k - 1] \o DnsNames(f.exts[k].list)[j]

\* How far the walk has come, and the names up to there.
Along(f) ==
  /\ pc \in {"fields", "exts", "names"} => f.size <= 4
  /\ pc = "fields" => InFields(f)
  /\ pc = "exts"   => InExts(f)
  /\ pc = "names"  => InNames(f)
  /\ pc = "done"   => names = Meant(f)

\* The inductive invariant about what certificates say (x509.rs,
\* extract_san_dns_names).
CInv ==
  /\ XInv
  /\ \A f \in Forms :
       /\ IsPrefix(Encoded[f], cert) => Along(f)
       /\ IsStrictPrefix(cert, Encoded[f]) => pc \in {"open", "done"} /\ names = << >>

LEMMA InitCInv == Init => CInv
<1> SUFFICES ASSUME Init PROVE CInv
  OBVIOUS
<1>1. XInv
  BY InitXInv
<1>2. pc = "open" /\ names = << >>
  BY Zenon DEF Init
<1>3. \A f \in Forms : Along(f)
  BY <1>2 DEF Along
<1> QED
  BY <1>1, <1>2, <1>3, Zenon DEF CInv

\* Steps along a form.
LEMMA OpenAlong ==
  ASSUME XInv, Open, NEW f \in Forms, IsPrefix(Encoded[f], cert)
  PROVE  Along(f)'
<1>1. /\ pc = "open" /\ Opens /\ fields' = Value(Value(cert)) /\ pc' = "fields"
  BY Zenon DEF Open
<1>2. PICK c \in Seq(Octet) : c = cert
  BY Zenon DEF XInv, TypeOK
<1>3. Readable(c)
  BY <1>1, <1>2, Zenon DEF Opens, HasTag
<1>4. /\ f.size <= 4 => Holds(c, SEQUENCE, Behind(Fields(f))[0])
      /\ f.size > 4 => ~ Readable(c)
  BY <1>2, OpensForm, Zenon
<1>5. f.size \in Nat
  BY FormsAssumption, Zenon DEF IsForm
<1>6. f.size <= 4
  BY <1>3, <1>4, <1>5
<1>7. fields' = Behind(Fields(f))[0]
  BY <1>1, <1>2, <1>4, <1>6, Zenon DEF Holds
<1>8. 0 \in 0 .. Len(f.front)
  BY FieldsAre
<1>9. InFields(f)'
  BY <1>7, <1>8, Zenon DEF InFields
<1> QED
  BY <1>1, <1>6, <1>9 DEF Along

LEMMA NotACertificateAlong ==
  ASSUME XInv, NotACertificate, NEW f \in Forms, IsPrefix(Encoded[f], cert)
  PROVE  Along(f)'
<1>1. pc = "open" /\ ~ Opens /\ pc' = "done" /\ names' = names /\ names = << >>
  BY Zenon DEF NotACertificate, Return, XInv
<1>2. PICK c \in Seq(Octet) : c = cert
  BY Zenon DEF XInv, TypeOK
<1>3. f.size <= 4 => Holds(c, SEQUENCE, Behind(Fields(f))[0])
  BY <1>2, OpensForm, Zenon
<1>4. ~ Holds(c, SEQUENCE, Behind(Fields(f))[0])
  BY <1>1, <1>2, Zenon DEF Opens, Holds
<1>5. f.size \in Nat
  BY FormsAssumption, Zenon DEF IsForm
<1>6. f.size > 4
  BY <1>3, <1>4, <1>5
<1>7. Meant(f) = << >>
  BY <1>6 DEF Meant
<1> QED
  BY <1>1, <1>7 DEF Along

LEMMA SkipFieldAlong ==
  ASSUME SkipField, NEW f \in Forms, Along(f)
  PROVE  Along(f)'
<1>1. /\ pc = "fields" /\ Tag(fields) # EXTENSIONS
      /\ fields' = Rest(fields) /\ pc' = "fields"
  BY Zenon DEF SkipField
<1>2. f.size <= 4 /\ InFields(f)
  BY <1>1 DEF Along
<1>3. PICK n \in 0 .. Len(f.front) : fields = Behind(Fields(f))[n]
  BY <1>2, Zenon DEF InFields
<1> DEFINE c == Behind(Fields(f))[n]
<1>4. /\ n < Len(f.front) => Rest(c) = Behind(Fields(f))[n + 1]
      /\ n = Len(f.front) => Holds(c, EXTENSIONS, Behind(Exts(f))[0])
  BY <1>2, ReadsFields, Zenon
<1>5. n # Len(f.front)
  BY <1>1, <1>3, <1>4, Zenon DEF Holds, HasTag
<1>6. Len(f.front) \in Nat
  BY FieldsAre, Zenon
<1>7. n < Len(f.front) /\ n + 1 \in 0 .. Len(f.front)
  BY <1>5, <1>6
<1>8. fields' = Behind(Fields(f))[n + 1]
  BY <1>1, <1>3, <1>4, <1>7, Zenon
<1>9. InFields(f)'
  BY <1>7, <1>8, Zenon DEF InFields
<1> QED
  BY <1>1, <1>2, <1>9 DEF Along

LEMMA EnterExtensionsAlong ==
  ASSUME XInv, EnterExtensions, NEW f \in Forms, Along(f)
  PROVE  Along(f)'
<1>1. /\ pc = "fields" /\ HasTag(fields, EXTENSIONS)
      /\ exts' = Value(Value(fields)) /\ pc' = "exts" /\ names' = names /\ names = << >>
  BY Zenon DEF EnterExtensions, XInv
<1>2. f.size <= 4 /\ InFields(f)
  BY <1>1 DEF Along
<1>3. PICK n \in 0 .. Len(f.front) : fields = Behind(Fields(f))[n]
  BY <1>2, Zenon DEF InFields
<1> DEFINE c == Behind(Fields(f))[n]
<1>4. /\ n < Len(f.front) => Tag(c) # EXTENSIONS
      /\ n = Len(f.front) => Holds(c, EXTENSIONS, Behind(Exts(f))[0])
  BY <1>2, ReadsFields, Zenon
<1>5. ~ (n < Len(f.front))
  BY <1>1, <1>3, <1>4, Zenon DEF HasTag
<1>6. Len(f.front) \in Nat
  BY FieldsAre, Zenon
<1>7. n = Len(f.front)
  BY <1>5, <1>6
<1>8. exts' = Behind(Exts(f))[0]
  BY <1>1, <1>3, <1>4, <1>7, Zenon DEF Holds
<1>9. names' = SanNames(f.exts)[0]
  BY <1>1, NamesOfForm, Zenon
<1>10. 0 \in 0 .. Len(f.exts)
  BY ExtsAre
<1>11. InExts(f)'
  BY <1>8, <1>9, <1>10, Zenon DEF InExts
<1> QED
  BY <1>1, <1>2, <1>11 DEF Along

\* The extensions are always found.
LEMMA NoExtensionsAlong ==
  ASSUME NoExtensions, NEW f \in Forms, Along(f)
  PROVE  FALSE
<1>1. /\ pc = "fields"
      /\ Readable(fields) => Tag(fields) = EXTENSIONS /\ ~ HasTag(Value(fields), SEQUENCE)
  BY Zenon DEF NoExtensions
<1>2. f.size <= 4 /\ InFields(f)
  BY <1>1 DEF Along
<1>3. PICK n \in 0 .. Len(f.front) : fields = Behind(Fields(f))[n]
  BY <1>2, Zenon DEF InFields
<1> DEFINE c == Behind(Fields(f))[n]
<1>4. /\ Readable(c)
      /\ n < Len(f.front) => Tag(c) # EXTENSIONS
      /\ n = Len(f.front) => Holds(c, EXTENSIONS, Behind(Exts(f))[0])
  BY <1>2, ReadsFields, Zenon
<1>5. Len(f.front) \in Nat
  BY FieldsAre, Zenon
<1>6. n < Len(f.front) \/ n = Len(f.front)
  BY <1>5
<1> QED
  BY <1>1, <1>3, <1>4, <1>6, Zenon DEF Holds

\* An extension at the front is a subjectAltName if it was made as one, and
\* then the names in it are found.
LEMMA SanIsFound ==
  ASSUME NEW x, IsExt(x), Tag(exts) = SEQUENCE, Value(exts) = Written(Parts(x))
  PROVE  /\ IsSan <=> x.oid = SAN_OID
         /\ Value(Value(Payload)) = Behind(x.list)[0]
<1> DEFINE c == Written(Parts(x))
<1>1. /\ HasTag(c, OID) /\ Value(c) = x.oid
      /\ Holds(PayloadOf(c), OCTET_STRING, Written(x.list))
  BY ReadsExtension, Zenon
<1>2. Extension = c /\ Payload = PayloadOf(c)
  BY Zenon DEF Extension, BehindOid, Payload, PayloadOf
<1> HIDE DEF c
<1>3. Value(Value(Payload)) = Behind(x.list)[0]
  BY <1>1, <1>2, Zenon DEF Holds, Written
<1>4. IsSan <=> x.oid = SAN_OID
  BY <1>1, <1>2, Zenon DEF Holds, IsSan
<1> QED
  BY <1>3, <1>4

LEMMA EnterNamesAlong ==
  ASSUME XInv, EnterNames, NEW f \in Forms, Along(f)
  PROVE  Along(f)'
<1>1. /\ pc = "exts" /\ Readable(exts) /\ IsSan
      /\ alts' = Value(Value(Payload)) /\ exts' = Rest(exts) /\ pc' = "names" /\ names' = names
  BY Zenon DEF EnterNames
<1>2. f.size <= 4 /\ InExts(f)
  BY <1>1 DEF Along
<1>3. PICK n \in 0 .. Len(f.exts) : exts = Behind(Exts(f))[n] /\ names = SanNames(f.exts)[n]
  BY <1>2, Zenon DEF InExts
<1> DEFINE c == Behind(Exts(f))[n]
           x == f.exts[n + 1]
<1>4. /\ n = Len(f.exts) => ~ Readable(c)
      /\ n < Len(f.exts) =>
           /\ n + 1 \in 1 .. Len(f.exts) /\ IsExt(x)
           /\ Readable(c) /\ Tag(c) = SEQUENCE
           /\ Value(c) = Written(Parts(x))
           /\ Rest(c) = Behind(Exts(f))[n + 1]
  BY ReadsExts, Zenon
<1> HIDE DEF c, x
<1>5. exts = c
  BY <1>3, Zenon DEF c
<1>6. n < Len(f.exts) /\ (n + 1) - 1 = n
  <2>1. n # Len(f.exts)
    BY <1>1, <1>4, <1>5, Zenon
  <2>2. Len(f.exts) \in Nat
    BY ExtsAre, Zenon
  <2> QED
    BY <2>1, <2>2
<1>7. IsExt(x) /\ Tag(exts) = SEQUENCE /\ Value(exts) = Written(Parts(x))
  BY <1>4, <1>5, <1>6, Zenon
<1>8. x.oid = SAN_OID /\ alts' = Behind(x.list)[0]
  BY <1>1, <1>7, SanIsFound, Zenon
<1>9. exts' = Behind(Exts(f))[n + 1]
  BY <1>1, <1>4, <1>5, <1>6, Zenon
<1>10. names' = SanNames(f.exts)[n] \o DnsNames(x.list)[0] /\ 0 \in 0 .. Len(x.list)
  <2>1. DnsNames(x.list)[0] = << >> /\ Len(x.list) \in Nat
    BY <1>7, ReadsNames, Zenon DEF IsList
  <2>2. SanNames(f.exts)[n] \in Seq(Seq(Octet))
    BY NamesOfForm, Zenon
  <2> DEFINE s == SanNames(f.exts)[n]
             X == Seq(Octet)
  <2>3. s \o << >> = s
    <3> HIDE DEF s, X
    <3> QED
      BY <2>2 DEF s, X
  <2>4. names' = s
    BY <1>1, <1>3, Zenon
  <2> HIDE DEF s
  <2>5. names' = s \o DnsNames(x.list)[0]
    BY <2>1, <2>3, <2>4, Zenon
  <2> QED
    BY <2>1, <2>5 DEF s
<1>11. InNames(f)'
  <2>1. n + 1 \in 1 .. Len(f.exts)
    BY <1>4, <1>6, Zenon
  <2> DEFINE k == n + 1
  <2>2. k \in 1 .. Len(f.exts) /\ k - 1 = n /\ x = f.exts[k]
    BY <1>6, <2>1 DEF x
  <2>3. exts' = Behind(Exts(f))[k]
    BY <1>9, Zenon
  <2> HIDE DEF k
  <2>4. f.exts[k].oid = SAN_OID /\ alts' = Behind(f.exts[k].list)[0]
    BY <1>8, <2>2, Zenon
  <2>5. /\ names' = SanNames(f.exts)[k - 1] \o DnsNames(f.exts[k].list)[0]
        /\ 0 \in 0 .. Len(f.exts[k].list)
    BY <1>10, <2>2, Zenon
  <2> QED
    BY <2>2, <2>3, <2>4, <2>5, Zenon DEF InNames
<1> QED
  BY <1>1, <1>2, <1>11 DEF Along

LEMMA SkipExtensionAlong ==
  ASSUME SkipExtension, NEW f \in Forms, Along(f)
  PROVE  Along(f)'
<1>1. /\ pc = "exts" /\ Readable(exts) /\ ~ IsSan
      /\ exts' = Rest(exts) /\ pc' = "exts" /\ names' = names
  BY Zenon DEF SkipExtension
<1>2. f.size <= 4 /\ InExts(f)
  BY <1>1 DEF Along
<1>3. PICK n \in 0 .. Len(f.exts) : exts = Behind(Exts(f))[n] /\ names = SanNames(f.exts)[n]
  BY <1>2, Zenon DEF InExts
<1> DEFINE c == Behind(Exts(f))[n]
           x == f.exts[n + 1]
<1>4. /\ n = Len(f.exts) => ~ Readable(c)
      /\ n < Len(f.exts) =>
           /\ n + 1 \in 1 .. Len(f.exts) /\ IsExt(x)
           /\ Readable(c) /\ Tag(c) = SEQUENCE
           /\ Value(c) = Written(Parts(x))
           /\ Rest(c) = Behind(Exts(f))[n + 1]
  BY ReadsExts, Zenon
<1> HIDE DEF c, x
<1>5. exts = c
  BY <1>3, Zenon DEF c
<1>6. n < Len(f.exts) /\ (n + 1) - 1 = n
  <2>1. n # Len(f.exts)
    BY <1>1, <1>4, <1>5, Zenon
  <2>2. Len(f.exts) \in Nat
    BY ExtsAre, Zenon
  <2> QED
    BY <2>1, <2>2
<1>7. IsExt(x) /\ Tag(exts) = SEQUENCE /\ Value(exts) = Written(Parts(x))
  BY <1>4, <1>5, <1>6, Zenon
<1>8. x.oid # SAN_OID
  BY <1>1, <1>7, SanIsFound, Zenon
<1>9. exts' = Behind(Exts(f))[n + 1]
  BY <1>1, <1>4, <1>5, <1>6, Zenon
<1>10. n + 1 \in 1 .. Len(f.exts) /\ n + 1 \in 0 .. Len(f.exts)
  <2>1. n + 1 \in 1 .. Len(f.exts)
    BY <1>4, <1>6, Zenon
  <2> QED
    BY <2>1
<1>11. SanNames(f.exts)[n + 1] = SanNames(f.exts)[n]
  <2> DEFINE k == n + 1
  <2>1. k \in 1 .. Len(f.exts) /\ k - 1 = n /\ x = f.exts[k]
    BY <1>6, <1>10 DEF x
  <2> HIDE DEF k
  <2>2. SanNames(f.exts)[k] = WithNames(SanNames(f.exts)[k - 1], f.exts[k])
    BY <2>1, NamesOfForm, Zenon
  <2>3. SanNames(f.exts)[k] = SanNames(f.exts)[n]
    BY <1>8, <2>1, <2>2, Zenon DEF WithNames
  <2> QED
    BY <2>3 DEF k
<1>12. InExts(f)'
  BY <1>1, <1>3, <1>9, <1>10, <1>11, Zenon DEF InExts
<1> QED
  BY <1>1, <1>2, <1>12 DEF Along

LEMMA LastExtensionAlong ==
  ASSUME LastExtension, NEW f \in Forms, Along(f)
  PROVE  Along(f)'
<1>1. pc = "exts" /\ ~ Readable(exts) /\ pc' = "done" /\ names' = names
  BY Zenon DEF LastExtension, Return
<1>2. f.size <= 4 /\ InExts(f)
  BY <1>1 DEF Along
<1>3. PICK n \in 0 .. Len(f.exts) : exts = Behind(Exts(f))[n] /\ names = SanNames(f.exts)[n]
  BY <1>2, Zenon DEF InExts
<1>4. n < Len(f.exts) => Readable(Behind(Exts(f))[n])
  BY ReadsExts, Zenon
<1>5. ~ (n < Len(f.exts))
  BY <1>1, <1>3, <1>4, Zenon
<1>6. Len(f.exts) \in Nat
  BY ExtsAre, Zenon
<1>7. n = Len(f.exts)
  BY <1>5, <1>6
<1>8. f.size \in Nat
  BY FormsAssumption, Zenon DEF IsForm
<1>9. ~ (f.size > 4)
  BY <1>2, <1>8
<1>10. names' = Meant(f)
  BY <1>1, <1>3, <1>7, <1>9, Zenon DEF Meant
<1> QED
  BY <1>1, <1>10 DEF Along

\* A name behind two lists of names.
LEMMA NameBehind ==
  ASSUME NEW s \in Seq(Seq(Octet)), NEW t \in Seq(Seq(Octet)), NEW e, e.value \in Seq(Octet)
  PROVE  WithName(s \o t, e) = s \o WithName(t, e)
<1> DEFINE X == Seq(Octet)
           v == e.value
<1>1. s \in Seq(X) /\ t \in Seq(X) /\ v \in X
  OBVIOUS
<1> HIDE DEF X, v
<1>2. Append(s \o t, v) = s \o Append(t, v)
  <2>1. s \o t \in Seq(X)
    BY <1>1
  <2>2. Append(s \o t, v) = (s \o t) \o << v >> /\ Append(t, v) = t \o << v >>
    BY <1>1, <2>1, AppendIsConcat
  <2>3. << v >> \in Seq(X)
    BY <1>1
  <2>4. (s \o t) \o << v >> = s \o (t \o << v >>)
    BY <1>1, <2>3, ConcatAssociative
  <2> QED
    BY <2>2, <2>4, Zenon
<1> QED
  BY <1>2, Zenon DEF WithName, v

LEMMA NextNameAlong ==
  ASSUME NextName, NEW f \in Forms, Along(f)
  PROVE  Along(f)'
<1>1. /\ pc = "names" /\ Readable(alts) /\ alts' = Rest(alts)
      /\ names' = (IF Tag(alts) = DNS_NAME /\ IsUtf8(Value(alts))
                   THEN Append(names, Value(alts)) ELSE names)
      /\ pc' = "names" /\ exts' = exts
  BY Zenon DEF NextName
<1>2. f.size <= 4 /\ InNames(f)
  BY <1>1 DEF Along
<1>3. PICK k \in 1 .. Len(f.exts) :
        /\ f.exts[k].oid = SAN_OID
        /\ exts = Behind(Exts(f))[k]
        /\ \E j \in 0 .. Len(f.exts[k].list) :
             /\ alts = Behind(f.exts[k].list)[j]
             /\ names = SanNames(f.exts)[k - 1] \o DnsNames(f.exts[k].list)[j]
  BY <1>2, Zenon DEF InNames
<1> DEFINE x == f.exts[k]
           q == x.list
           s == SanNames(f.exts)[k - 1]
           t == DnsNames(q)
           b == Behind(q)
<1>4. PICK j \in 0 .. Len(q) : alts = b[j] /\ names = s \o t[j]
  BY <1>3, Zenon
<1>5. IsExt(x)
  BY ExtsAre, Zenon
<1>6. /\ IsList(q)
      /\ \A n \in 0 .. Len(q) : t[n] \in Seq(Seq(Octet))
      /\ \A n \in 1 .. Len(q) : t[n] = WithName(t[n - 1], q[n])
  BY <1>5, ReadsNames, Zenon
<1>7. s \in Seq(Seq(Octet))
  <2>1. k - 1 \in 0 .. Len(f.exts)
    OBVIOUS
  <2> QED
    BY <2>1, NamesOfForm, Zenon
<1>8. /\ j < Len(q) => Finds(b[j], q[j + 1], b[j + 1])
      /\ j = Len(q) => ~ Readable(b[j])
  BY <1>6, ReadsBehind, Zenon
<1> HIDE DEF x, q, s, t, b
<1> DEFINE m == j + 1
<1>9. j < Len(q) /\ m \in 0 .. Len(q) /\ m \in 1 .. Len(q) /\ m - 1 = j
  <2>1. j # Len(q)
    BY <1>1, <1>4, <1>8, Zenon
  <2>2. Len(q) \in Nat
    BY <1>6, Zenon DEF IsList
  <2> QED
    BY <2>1, <2>2
<1>10. Finds(b[j], q[m], b[m])
  BY <1>8, <1>9, Zenon
<1> HIDE DEF m
<1>11. Tag(alts) = q[m].tag /\ Value(alts) = q[m].value /\ alts' = b[m]
  BY <1>1, <1>4, <1>10, Zenon DEF Finds
<1>12. names' = WithName(s \o t[j], q[m])
  BY <1>1, <1>4, <1>11, Zenon DEF WithName
<1>13. WithName(s \o t[j], q[m]) = s \o WithName(t[j], q[m])
  <2>1. q[m].value \in Seq(Octet)
    BY <1>6, <1>9, Zenon DEF IsList, IsElement
  <2> QED
    BY <1>6, <1>7, <2>1, NameBehind, Zenon
<1>14. t[m] = WithName(t[j], q[m])
  <2>1. t[m] = WithName(t[m - 1], q[m])
    BY <1>6, <1>9, Zenon
  <2> QED
    BY <1>9, <2>1, Zenon
<1>15. names' = s \o t[m]
  BY <1>12, <1>13, <1>14, Zenon
<1>16. InNames(f)'
  BY <1>1, <1>3, <1>9, <1>11, <1>15, Zenon DEF InNames, x, q, s, t, b
<1> QED
  BY <1>1, <1>2, <1>16 DEF Along

LEMMA LastNameAlong ==
  ASSUME LastName, NEW f \in Forms, Along(f)
  PROVE  Along(f)'
<1>1. pc = "names" /\ ~ Readable(alts) /\ pc' = "exts" /\ names' = names /\ exts' = exts
  BY Zenon DEF LastName
<1>2. f.size <= 4 /\ InNames(f)
  BY <1>1 DEF Along
<1>3. PICK k \in 1 .. Len(f.exts) :
        /\ f.exts[k].oid = SAN_OID
        /\ exts = Behind(Exts(f))[k]
        /\ \E j \in 0 .. Len(f.exts[k].list) :
             /\ alts = Behind(f.exts[k].list)[j]
             /\ names = SanNames(f.exts)[k - 1] \o DnsNames(f.exts[k].list)[j]
  BY <1>2, Zenon DEF InNames
<1> DEFINE x == f.exts[k]
           q == x.list
           s == SanNames(f.exts)[k - 1]
           t == DnsNames(q)
           b == Behind(q)
<1>4. PICK j \in 0 .. Len(q) : alts = b[j] /\ names = s \o t[j]
  BY <1>3, Zenon
<1>5. IsExt(x)
  BY ExtsAre, Zenon
<1>6. IsList(q)
  BY <1>5, ReadsNames, Zenon
<1>7. j < Len(q) => Finds(b[j], q[j + 1], b[j + 1])
  BY <1>6, ReadsBehind, Zenon
<1> HIDE DEF x, q, s, t, b
<1>8. j = Len(q)
  <2>1. ~ (j < Len(q))
    BY <1>1, <1>4, <1>7, Zenon DEF Finds
  <2>2. Len(q) \in Nat
    BY <1>6, Zenon DEF IsList
  <2> QED
    BY <2>1, <2>2
<1>9. t[j] = NamesIn(x)
  BY <1>8, Zenon DEF NamesIn, t, q
<1>10. SanNames(f.exts)[k] = WithNames(s, x)
  BY NamesOfForm, Zenon DEF s, x
<1>11. names' = SanNames(f.exts)[k]
  BY <1>1, <1>3, <1>4, <1>9, <1>10, Zenon DEF WithNames, x
<1>12. k \in 0 .. Len(f.exts)
  OBVIOUS
<1>13. InExts(f)'
  BY <1>1, <1>3, <1>11, <1>12, Zenon DEF InExts
<1> QED
  BY <1>1, <1>2, <1>13 DEF Along

\* A certificate that was cut short does not open.
LEMMA CutShortDoesNotOpen ==
  ASSUME XInv, NEW f \in Forms, IsStrictPrefix(cert, Encoded[f])
  PROVE  ~ Opens
<1>1. PICK c \in Seq(Octet) : c = cert
  BY Zenon DEF XInv, TypeOK
<1>2. ~ Readable(c)
  BY <1>1, ShortFormIsUnreadable, Zenon
<1> QED
  BY <1>1, <1>2, Zenon DEF Opens, HasTag

LEMMA StepCInv == CInv /\ [Next]_vars => CInv'
<1> SUFFICES ASSUME CInv, [Next]_vars PROVE CInv'
  OBVIOUS
<1>1. XInv /\ XInv'
  <2>1. XInv
    BY Zenon DEF CInv
  <2>2. CASE Next
    BY <2>1, <2>2, StepXInv
  <2>3. CASE UNCHANGED vars
    BY <2>1, <2>3 DEF vars, XInv, TypeOK, StaysInside, NamesTakeSpace
  <2> QED
    BY <2>1, <2>2, <2>3
<1>2. cert' = cert
  BY DEF Next, vars, Open, NotACertificate, SkipField, EnterExtensions, NoExtensions, EnterNames,
     SkipExtension, LastExtension, NextName, LastName, Returned, Return
<1>3. ASSUME NEW f \in Forms, IsPrefix(Encoded[f], cert) PROVE Along(f)'
  <2>1. Along(f)
    BY <1>3, Zenon DEF CInv
  <2>2. CASE Open
    BY <1>1, <1>3, <2>2, OpenAlong, Zenon
  <2>3. CASE NotACertificate
    BY <1>1, <1>3, <2>3, NotACertificateAlong, Zenon
  <2>4. CASE SkipField
    BY <2>1, <2>4, SkipFieldAlong, Zenon
  <2>5. CASE EnterExtensions
    BY <1>1, <2>1, <2>5, EnterExtensionsAlong, Zenon
  <2>6. CASE NoExtensions
    BY <2>1, <2>6, NoExtensionsAlong, Zenon
  <2>7. CASE EnterNames
    BY <1>1, <2>1, <2>7, EnterNamesAlong, Zenon
  <2>8. CASE SkipExtension
    BY <2>1, <2>8, SkipExtensionAlong, Zenon
  <2>9. CASE LastExtension
    BY <2>1, <2>9, LastExtensionAlong, Zenon
  <2>10. CASE NextName
    BY <2>1, <2>10, NextNameAlong, Zenon
  <2>11. CASE LastName
    BY <2>1, <2>11, LastNameAlong, Zenon
  <2>12. CASE UNCHANGED vars
    BY <2>1, <2>12 DEF vars, Along, InFields, InExts, InNames
  <2> QED
    BY <2>2, <2>3, <2>4, <2>5, <2>6, <2>7, <2>8, <2>9, <2>10, <2>11, <2>12, Zenon
       DEF Next, Returned
<1>4. ASSUME NEW f \in Forms, IsStrictPrefix(cert, Encoded[f])
      PROVE  pc' \in {"open", "done"} /\ names' = << >>
  <2>1. pc \in {"open", "done"} /\ names = << >>
    BY <1>4, Zenon DEF CInv
  <2>2. ~ Opens
    BY <1>1, <1>4, CutShortDoesNotOpen, Zenon
  <2> QED
    BY <2>1, <2>2 DEF Next, vars, Open, NotACertificate, SkipField, EnterExtensions, NoExtensions,
       EnterNames, SkipExtension, LastExtension, NextName, LastName, Returned, Return
<1> QED
  BY <1>1, <1>2, <1>3, <1>4, Zenon DEF CInv

\* For every form of certificate, however its lengths are written and
\* whatever follows it, extract_san_dns_names returns the DNS names of its
\* subjectAltNames in their order, and of one that was cut short nothing.
THEOREM CertificatesReadAsMeant == Spec => []NamesAsMeant
<1>1. Init => CInv
  BY InitCInv
<1>2. CInv /\ [Next]_vars => CInv'
  BY StepCInv
<1>3. CInv => NamesAsMeant
  BY Zenon DEF CInv, NamesAsMeant, Along
<1> QED
  BY <1>1, <1>2, <1>3, PTL DEF Spec

=============================================================================
