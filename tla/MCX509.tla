------------------------------- MODULE MCX509 -------------------------------
(***************************************************************************)
(* Certificates for X509: forms that differ in how lengths are written, in *)
(* their fields and in their extensions, whole, cut short, followed by     *)
(* other data, or with one octet changed.                                  *)
(***************************************************************************)
EXTENDS Certificate

MCIsUtf8(s) == \A i \in DOMAIN s : s[i] < 128

A      == << 97 >>
B      == << 98, 98 >>
Empty  == << >>
Long   == [i \in 1 .. 300 |-> 99]
Binary == << 255 >>      \* not UTF-8
Seen   == << 48, 3, 130, 1, 97 >>   \* octets that look like a list of names

\* How an extension is written is settled with the form.
Dns(name)             == [tag |-> DNS_NAME, value |-> name]
Email(name)           == [tag |-> 129, value |-> name]
San(critical, list)   == [oid |-> SAN_OID, critical |-> critical, list |-> list]
Other(critical, list) == [oid |-> << 85, 29, 15 >>, critical |-> critical, list |-> list]

Sized(x, size) ==
  [oid |-> x.oid, critical |-> x.critical, size |-> size,
   list |-> [i \in DOMAIN x.list |-> Element(x.list[i].tag, size, x.list[i].value)]]

Form(outer, inner, front, extensions) ==
  [size |-> outer, front |-> front,
   exts |-> [k \in DOMAIN extensions |-> Sized(extensions[k], inner)]]

Serial  == Element(2, 0, << 1 >>)
Version == Element(160, 0, Seen)

MCForms ==
  {Form(outer, inner, front, extensions) :
     outer \in {0, 1, 4}, inner \in {0, 1, 2}, front \in {<< >>, << Serial, Version >>},
     extensions \in {<< >>,
               << San(FALSE, << Dns(A) >>) >>,
               << Other(TRUE, << Dns(A) >>), San(TRUE, << Dns(B), Email(A), Dns(A) >>) >>,
               << San(FALSE, << Dns(Empty), Dns(Binary) >>), Other(FALSE, << >>),
                  San(TRUE, << Dns(Seen) >>) >>}}
  \cup {Form(2, 2, << Serial >>, << San(FALSE, << Dns(Long), Dns(A) >>) >>),
        Form(3, 4, << Serial >>, << San(TRUE, << Dns(A) >>) >>),
        Form(5, 0, << Serial >>, << San(FALSE, << Dns(A) >>) >>)}

Cut(c)  == {SubSeq(c, 1, n) : n \in 0 .. Len(c) - 1}
Mangled(c) == {[c EXCEPT ![i] = b] : i \in DOMAIN c, b \in {0, 1, 4, 48, 127, 128, 129, 130, 163}}
\* One octet more or less than an element holds.
Shifted(c) == {[c EXCEPT ![i] = (@ + d) % 256] : i \in DOMAIN c, d \in {1, 255}}

Small ==
  {Encoded[f] : f \in {f \in Forms : f.size < 2 /\ f.front # << >> /\ Len(f.exts) > 1}}

MCCertificates ==
  LET whole == {Encoded[f] : f \in Forms}
  IN  whole \cup {c \o Tlv(Serial) : c \in whole}
        \cup UNION {Cut(c) \cup Mangled(c) \cup Shifted(c) : c \in Small}

=============================================================================
