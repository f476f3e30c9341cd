----------------------------- MODULE Certificate -----------------------------
(***************************************************************************)
(* What the certificates of X509 say.  A form has any fields before its    *)
(* extensions, any extensions, and any general names in those that are     *)
(* subjectAltNames; it is written in DER, or with longer lengths than DER  *)
(* allows, which read_tlv takes as well.  The property compares the names  *)
(* that extract_san_dns_names finds with those that were put in.           *)
(***************************************************************************)
EXTENDS X509, SequencesExt

CONSTANT Forms    \* certificates, before they are written

\* An element, and how many octets of length follow the first; 0 for the
\* short form.
Element(tag, size, value) == [tag |-> tag, size |-> size, value |-> value]

Upper(n) == n \div 256

\* The last k octets of n < 2^32, highest first.
BytesOf(n, k) ==
  [i \in 1 .. k |-> CASE i = k     -> n % 256
                      [] i = k - 1 -> Upper(n) % 256
                      [] i = k - 2 -> Upper(Upper(n)) % 256
                      [] i = k - 3 -> Upper(Upper(Upper(n))) % 256
                      [] OTHER     -> 0]

\* n can be written with k further octets.
Fits(n, k) ==
  CASE k = 0 -> n < 128
    [] k = 1 -> Upper(n) = 0
    [] k = 2 -> Upper(Upper(n)) = 0
    [] k = 3 -> Upper(Upper(Upper(n))) = 0
    [] OTHER -> Upper(Upper(Upper(n))) < 256

Length(n, k) == IF k = 0 THEN << n >> ELSE << 128 + k >> \o BytesOf(n, k)

Tlv(e) == << e.tag >> \o Length(Len(e.value), e.size) \o e.value

\* The octets of a list of elements behind the first n.
Behind(list) ==
  LET behind[n \in 0 .. Len(list)] ==
        IF n = Len(list) THEN << >> ELSE Tlv(list[n + 1]) \o behind[n + 1]
  IN  behind

Written(list) == Behind(list)[0]

\* An extension: its OID, the flag if it is critical, and its general names.
List(x)    == Element(SEQUENCE, x.size, Written(x.list))
Wrapper(x) == Element(OCTET_STRING, x.size, Tlv(List(x)))
Flag       == Element(BOOLEAN_TAG, 0, << 255 >>)
Oid(x)     == Element(OID, 0, x.oid)

Parts(x) == << Oid(x) >> \o (IF x.critical THEN << Flag >> ELSE << >>) \o << Wrapper(x) >>
Ext(x)   == Element(SEQUENCE, x.size, Written(Parts(x)))

\* A certificate: the fields in front of its extensions, and those.
Exts(f)   == [k \in DOMAIN f.exts |-> Ext(f.exts[k])]
Inner(f)  == Element(SEQUENCE, f.size, Written(Exts(f)))
Outer(f)  == Element(EXTENSIONS, f.size, Tlv(Inner(f)))
Fields(f) == Append(f.front, Outer(f))
Body(f)   == Element(SEQUENCE, f.size, Written(Fields(f)))
Whole(f)  == Element(SEQUENCE, f.size, Tlv(Body(f)))

-----------------------------------------------------------------------------

IsElement(e) ==
  /\ e.tag \in Octet
  /\ e.size \in 0 .. 4
  /\ e.value \in Seq(Octet)
  /\ Fits(Len(e.value), e.size)

AreElements(list) == \A i \in DOMAIN list : IsElement(list[i])

IsExt(x) ==
  /\ x.list \in Seq(Range(x.list)) /\ AreElements(x.list)
  /\ x.critical \in BOOLEAN
  /\ IsElement(Oid(x)) /\ IsElement(List(x)) /\ IsElement(Wrapper(x)) /\ IsElement(Ext(x))

\* Of the lengths around the fields it is only asked that they can be
\* written: in more than four octets read_tlv does not understand them.
IsForm(f) ==
  /\ f.front \in Seq(Range(f.front)) /\ AreElements(f.front)
  /\ \A i \in DOMAIN f.front : f.front[i].tag # EXTENSIONS
  /\ f.exts \in Seq(Range(f.exts)) /\ \A k \in DOMAIN f.exts : IsExt(f.exts[k])
  /\ f.size \in Nat /\ f.size < 128
  /\ \A e \in {Inner(f), Outer(f), Body(f), Whole(f)} : Fits(Len(e.value), f.size)

ASSUME FormsAssumption == \A f \in Forms : IsForm(f)

\* Written out once.
Encoded == [f \in Forms |-> Tlv(Whole(f))]

\* The names seen so far, and an element behind them if it is a DNS name.
WithName(seen, e) ==
  IF e.tag = DNS_NAME /\ IsUtf8(e.value) THEN Append(seen, e.value) ELSE seen

\* The DNS names among the first n elements of a list.
DnsNames(list) ==
  LET among[n \in 0 .. Len(list)] == IF n = 0 THEN << >> ELSE WithName(among[n - 1], list[n])
  IN  among

NamesIn(x) == DnsNames(x.list)[Len(x.list)]

\* The names seen so far, and those of a subjectAltName behind them.
WithNames(seen, x) == IF x.oid = SAN_OID THEN seen \o NamesIn(x) ELSE seen

\* The names in the first n extensions.
SanNames(list) ==
  LET among[n \in 0 .. Len(list)] == IF n = 0 THEN << >> ELSE WithNames(among[n - 1], list[n])
  IN  among

\* What extract_san_dns_names should find in a certificate.
Meant(f) == IF f.size > 4 THEN << >> ELSE SanNames(f.exts)[Len(f.exts)]

\* The walk reports the names that a certificate was made with, in their
\* order, however the lengths are written, whatever else the certificate
\* holds and whatever follows it; one that was cut short has no names.
NamesAsMeant ==
  pc = "done" =>
    \A f \in Forms :
      /\ IsPrefix(Encoded[f], cert) => names = Meant(f)
      /\ IsStrictPrefix(cert, Encoded[f]) => names = << >>

=============================================================================
