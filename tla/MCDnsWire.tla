------------------------------ MODULE MCDnsWire ------------------------------
(***************************************************************************)
(* Datagrams for DnsWire: messages with up to two answers of seven kinds,  *)
(* whole and cut anywhere; queries of the plugin, sent back by a resolver; *)
(* and datagrams nobody should send.                                       *)
(***************************************************************************)
EXTENDS DnsMessage

MCId == 258

MCAsked == << << 97 >>, << 97, 98 >> >>
Mail    == << << 109 >> >>
Sixteen == [i \in 1 .. 16 |-> i]

Answer(rtype, preference, strings, compressed) ==
  [rtype |-> rtype, preference |-> preference, parts |-> strings, compressed |-> compressed]

\* The kinds of answers.
Kinds ==
  {Answer(TYPE_A, 0, << << 10, 0, 0, 1 >> >>, FALSE),
   Answer(TYPE_AAAA, 0, << Sixteen >>, FALSE),
   Answer(TYPE_CNAME, 0, Mail, TRUE),
   Answer(TYPE_NS, 0, Mail, FALSE),
   Answer(TYPE_MX, 300, Mail, TRUE),
   Answer(TYPE_TXT, 0, << << 118, 61 >>, << >>, << 49 >> >>, FALSE),
   Answer(6, 0, << << 0, 1, 192 >> >>, FALSE)}

MCMessages == {<< >>} \cup [1 .. 1 -> Kinds] \cup [1 .. 2 -> Kinds]

\* Names as the plugin may be asked for them: with empty labels, from a
\* doubled dot; the root; and labels of the 63 octets DNS allows, and of as
\* many as are not taken for a pointer.
MCNames ==
  {MCAsked, << << 97 >>, << >>, << 98 >> >>, << << >> >>}
    \cup {<< [i \in 1 .. n |-> 120], << 121 >> >> : n \in {63, 191}}

\* Datagrams nobody should send: any four octets for a name, in a question
\* or an answer (pointers to themselves and to each other among them) ...
Bodies == UNION {[1 .. n -> {0, 1, 12, 14, 192}] : n \in 0 .. 4}
Tail10 == << 0, 16, 0, 1, 0, 0, 0, 0, 0, 2, 1, 97 >>

Names4 == {Header(MCId, Response, 1, 0) \o b : b \in Bodies}
            \cup {Header(MCId, Response, 0, 1) \o b \o Tail10 : b \in Bodies}

\* ... and answers whose data has the wrong length or shape, or another id
\* or an rcode in the header.
Shape(rtype, len, data) ==
  Header(MCId, Response, 0, 2) \o << 0 >> \o Octets16(rtype) \o Octets16(CLASS_IN)
  \o << 0, 0, 0, 0 >> \o Octets16(len) \o data

Shapes ==
  {Shape(t, len, d) :
     t \in {TYPE_A, TYPE_NS, TYPE_MX, TYPE_TXT, TYPE_AAAA}, len \in {0, 1, 2, 3, 4, 5, 65535},
     d \in {<< >>, << 1 >>, << 3, 97, 98 >>, << 0, 192, 25, 0 >>, << 1, 97, 3, 98, 99 >>}}
  \cup {Header(MCId + 1, Response, 1, 0), Header(MCId, Response + 3, 1, 0)}

MCDatagrams ==
  UNION {{SubSeq(Encoded[m], 1, n) : n \in 0 .. Len(Encoded[m])} : m \in Messages}
    \cup {Queries[n] : n \in Names} \cup Names4 \cup Shapes

=============================================================================
