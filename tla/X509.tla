-------------------------------- MODULE X509 --------------------------------
(***************************************************************************)
(* extract_san_dns_names (explorator-plugins/src/x509.rs): the walk of     *)
(* certsh from a certificate in DER to the host names of its               *)
(* subjectAltName extension, one action per iteration of its loops.        *)
(*                                                                         *)
(* A certificate is a sequence of octets.  Where the code goes on with the *)
(* rest of a slice, so does the model.  Whether the octets of a name are   *)
(* UTF-8 is asked of the constant IsUtf8.                                  *)
(***************************************************************************)
EXTENDS Integers, Sequences

CONSTANTS
  Certificates,  \* what a server may present
  IsUtf8(_)      \* what from_utf8 accepts

Octet == 0 .. 255

ASSUME CertificatesAssumption == Certificates \subseteq Seq(Octet)

SEQUENCE     == 48    \* 0x30
OID          == 6
BOOLEAN_TAG  == 1
OCTET_STRING == 4
EXTENSIONS   == 163   \* 0xA3
DNS_NAME     == 130   \* 0x82
SAN_OID      == << 85, 29, 17 >>

-----------------------------------------------------------------------------
(* read_tlv.                                                               *)

IsLong(data) == data[2] >= 128

\* The octets of a long-form length.
LengthOctets(data) == data[2] % 128

\* Tag and length are there; the indefinite form and more than four length
\* octets are refused.
HeaderReadable(data) ==
  /\ Len(data) >= 2
  /\ IsLong(data) => LengthOctets(data) \in 1 .. 4 /\ Len(data) >= 2 + LengthOctets(data)

HeaderLen(data) == IF IsLong(data) THEN 2 + LengthOctets(data) ELSE 2

\* The length, highest octet first.
ValueLen(data) ==
  IF ~ IsLong(data) THEN data[2]
  ELSE CASE LengthOctets(data) = 1 -> data[3]
         [] LengthOctets(data) = 2 -> 256 * data[3] + data[4]
         [] LengthOctets(data) = 3 -> 256 * (256 * data[3] + data[4]) + data[5]
         [] LengthOctets(data) = 4 ->
              256 * (256 * (256 * data[3] + data[4]) + data[5]) + data[6]

\* read_tlv finds a whole element at the front of data.
Readable(data) == HeaderReadable(data) /\ ValueLen(data) <= Len(data) - HeaderLen(data)

Tag(data)   == data[1]
Value(data) == SubSeq(data, HeaderLen(data) + 1, HeaderLen(data) + ValueLen(data))
Rest(data)  == SubSeq(data, HeaderLen(data) + ValueLen(data) + 1, Len(data))

HasTag(data, tag) == Readable(data) /\ Tag(data) = tag

-----------------------------------------------------------------------------

VARIABLES
  cert,    \* the certificate
  pc,      \* the loop that is running; "done" when the names are returned
  fields,  \* what is left of the fields of TBSCertificate
  exts,    \* what is left of the extensions
  alts,    \* what is left of the general names of an extension
  names    \* the names so far

vars == << cert, pc, fields, exts, alts, names >>

Init ==
  /\ cert \in Certificates
  /\ pc = "open"
  /\ fields = << >>
  /\ exts = << >>
  /\ alts = << >>
  /\ names = << >>

\* return names
Return ==
  /\ pc' = "done"
  /\ UNCHANGED << cert, fields, exts, alts, names >>

\* Certificate and TBSCertificate are two sequences, one in the other.
Opens == HasTag(cert, SEQUENCE) /\ HasTag(Value(cert), SEQUENCE)

Open ==
  /\ pc = "open"
  /\ Opens
  /\ fields' = Value(Value(cert))
  /\ pc' = "fields"
  /\ UNCHANGED << cert, exts, alts, names >>

NotACertificate == pc = "open" /\ ~ Opens /\ Return

\* find the first field with the tag of the extensions.
SkipField ==
  /\ pc = "fields"
  /\ Readable(fields)
  /\ Tag(fields) # EXTENSIONS
  /\ fields' = Rest(fields)
  /\ UNCHANGED << cert, pc, exts, alts, names >>

EnterExtensions ==
  /\ pc = "fields"
  /\ HasTag(fields, EXTENSIONS)
  /\ HasTag(Value(fields), SEQUENCE)
  /\ exts' = Value(Value(fields))
  /\ pc' = "exts"
  /\ UNCHANGED << cert, fields, alts, names >>

NoExtensions ==
  /\ pc = "fields"
  /\ Readable(fields) => Tag(fields) = EXTENSIONS /\ ~ HasTag(Value(fields), SEQUENCE)
  /\ Return

-----------------------------------------------------------------------------

\* The parts of an extension: its OID, then a flag that may be missing.
Extension     == Value(exts)
BehindOid     == Rest(Extension)
Payload       == IF HasTag(BehindOid, BOOLEAN_TAG) THEN Rest(BehindOid) ELSE BehindOid

\* The extension at the front is a subjectAltName with a list of names.
IsSan ==
  /\ Tag(exts) = SEQUENCE
  /\ HasTag(Extension, OID)
  /\ Value(Extension) = SAN_OID
  /\ HasTag(Payload, OCTET_STRING)
  /\ HasTag(Value(Payload), SEQUENCE)

EnterNames ==
  /\ pc = "exts"
  /\ Readable(exts)
  /\ IsSan
  /\ alts' = Value(Value(Payload))
  /\ exts' = Rest(exts)
  /\ pc' = "names"
  /\ UNCHANGED << cert, fields, names >>

\* Mutant of SkipExtension: one that is not understood ends the walk.
StopAtExtension ==
  /\ pc = "exts"
  /\ Readable(exts)
  /\ ~ IsSan
  /\ exts' = << >>
  /\ UNCHANGED << cert, pc, fields, alts, names >>

\* continue: any other extension, and one that is not as expected.
SkipExtension ==
  /\ pc = "exts"
  /\ Readable(exts)
  /\ ~ IsSan
  /\ exts' = Rest(exts)
  /\ UNCHANGED << cert, pc, fields, alts, names >>

\* What does not read as an element ends a loop like the end of the data.
LastExtension == pc = "exts" /\ ~ Readable(exts) /\ Return

\* Mutant of NextName: the iterator stays where it is.
SameNameAgain ==
  /\ pc = "names"
  /\ Readable(alts)
  /\ names' = IF Tag(alts) = DNS_NAME /\ IsUtf8(Value(alts))
              THEN Append(names, Value(alts)) ELSE names
  /\ UNCHANGED << cert, pc, fields, exts, alts >>

NextName ==
  /\ pc = "names"
  /\ Readable(alts)
  /\ names' = IF Tag(alts) = DNS_NAME /\ IsUtf8(Value(alts))
              THEN Append(names, Value(alts)) ELSE names
  /\ alts' = Rest(alts)
  /\ UNCHANGED << cert, pc, fields, exts >>

LastName ==
  /\ pc = "names"
  /\ ~ Readable(alts)
  /\ pc' = "exts"
  /\ UNCHANGED << cert, fields, exts, alts, names >>

Returned == pc = "done" /\ UNCHANGED vars

Next ==
  \/ Open \/ NotACertificate
  \/ SkipField \/ EnterExtensions \/ NoExtensions
  \/ EnterNames \/ SkipExtension \/ LastExtension
  \/ NextName \/ LastName
  \/ Returned

Spec == Init /\ [][Next]_vars

-----------------------------------------------------------------------------
(* Properties.                                                             *)

\* s is a part of data.
PartOf(s, data) ==
  \E start \in 0 .. Len(data) - Len(s) : s = SubSeq(data, start + 1, start + Len(s))

TypeOK ==
  /\ cert \in Seq(Octet)
  /\ pc \in {"open", "fields", "exts", "names", "done"}
  /\ fields \in Seq(Octet)
  /\ exts \in Seq(Octet)
  /\ alts \in Seq(Octet)
  /\ names \in Seq(Seq(Octet))

\* Whatever the lengths say, the walk stays inside the certificate: what it
\* still has to read and every name it reports are parts of it (x509.rs:26-44).
StaysInside ==
  /\ PartOf(fields, cert) /\ PartOf(exts, cert) /\ PartOf(alts, cert)
  /\ \A n \in DOMAIN names : PartOf(names[n], cert)

\* No octets are read for two names: each name takes at least a header out of
\* the certificate, so there are at most half as many as octets.
NamesTakeSpace ==
  2 * Len(names) + (CASE pc = "exts"  -> Len(exts)
                      [] pc = "names" -> Len(exts) + Len(alts)
                      [] OTHER        -> 0) <= Len(cert)

\* The inductive invariant of the walk (x509.rs, extract_san_dns_names).
XInv ==
  /\ TypeOK
  /\ StaysInside
  /\ NamesTakeSpace
  /\ pc \in {"open", "fields"} => names = << >>

\* What is left to do, in the order of the loops.
Left ==
  CASE pc = "open"   -> 2 * Len(cert) + 1
    [] pc = "fields" -> 2 * Len(fields) + 1
    [] pc = "exts"   -> 2 * Len(exts) + 1
    [] pc = "names"  -> 2 * (Len(exts) + Len(alts)) + 2
    [] OTHER         -> 0

\* The walk ends for every certificate, and in a number of steps that its
\* length bounds: no nesting or length makes it read the same octets again.
WalkDescends == [][Left' \in Nat /\ Left' < Left]_vars

=============================================================================
