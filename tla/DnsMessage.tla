----------------------------- MODULE DnsMessage -----------------------------
(***************************************************************************)
(* What the datagrams of DnsWire mean.  A message has one question and any *)
(* number of answers; it is written as RFC 1035 says, the names of answers *)
(* compressed, and arrives whole or cut anywhere, as recv does with what   *)
(* is beyond its 512 octets.  A query is written by build_query and sent   *)
(* back by a resolver.  The properties compare what parse_response makes   *)
(* of either with what it stands for.                                      *)
(***************************************************************************)
EXTENDS DnsWire

CONSTANTS
  Asked,      \* the name in the question of the messages
  Messages,   \* sequences of answers
  Names       \* the names the plugin asks for

\* A label of a name has 1 to 63 octets, the string of a text up to 255.
IsStrings(strings, least, most) ==
  /\ strings \in Seq(Seq(Octet))
  /\ \A i \in DOMAIN strings : Len(strings[i]) \in least .. most

TargetTypes == {TYPE_CNAME, TYPE_NS, TYPE_MX}

\* An answer: a type, the preference of an exchange, the labels of a target,
\* the strings of a text or else the octets of the data, and whether a
\* pointer to the question ends the target.
IsAnswer(a) ==
  /\ a.rtype \in Word
  /\ a.preference \in Word
  /\ a.compressed \in BOOLEAN
  /\ a.rtype \in TargetTypes => IsStrings(a.parts, 1, 63)
  /\ a.rtype = TYPE_TXT => IsStrings(a.parts, 0, 255)
  /\ a.rtype \notin TargetTypes \cup {TYPE_TXT} =>
        a.parts \in Seq(Seq(Octet)) /\ Len(a.parts) = 1

\* The octets of strings, each behind its length, and of names.
EncodeStrings(strings) ==
  FlattenSeq([i \in DOMAIN strings |-> << Len(strings[i]) >> \o strings[i]])

ToQuestion == << 192, 12 >>

Closing(compressed) == IF compressed THEN ToQuestion ELSE << 0 >>

Question(labels) == EncodeStrings(labels) \o << 0 >> \o Octets16(TYPE_A) \o Octets16(CLASS_IN)

Target(a) == EncodeStrings(a.parts) \o Closing(a.compressed)

Data(a) ==
  CASE a.rtype \in {TYPE_CNAME, TYPE_NS} -> Target(a)
    [] a.rtype = TYPE_MX                 -> Octets16(a.preference) \o Target(a)
    [] a.rtype = TYPE_TXT                -> EncodeStrings(a.parts)
    [] OTHER                             -> a.parts[1]

\* An answer is owned by the name of the question, and lives for 300 seconds.
EncodeAnswer(a) ==
  ToQuestion \o Octets16(a.rtype) \o Octets16(CLASS_IN) \o << 0, 0, 1, 44 >>
  \o Octets16(Len(Data(a))) \o Data(a)

Header(id, flags, questions, answers) ==
  Octets16(id) \o Octets16(flags) \o Octets16(questions) \o Octets16(answers)
  \o Octets16(0) \o Octets16(0)

Response == 33152      \* 0x8180, as in the code's own tests

Preamble(m) == Header(ExpectedId, Response, 1, Len(m)) \o Question(Asked)

EncodeMessage(m) == Preamble(m) \o FlattenSeq([i \in DOMAIN m |-> EncodeAnswer(m[i])])

\* What an answer stands for: the target written out, and nothing at all for
\* a type the plugin does not know or an address of the wrong length.
Kind(a) ==
  CASE a.rtype = TYPE_CNAME -> "Cname"
    [] a.rtype = TYPE_NS    -> "Ns"
    [] a.rtype = TYPE_MX    -> "Mx"
    [] a.rtype = TYPE_TXT   -> "Txt"
    [] a.rtype = TYPE_A /\ Len(a.parts[1]) = 4     -> "A"
    [] a.rtype = TYPE_AAAA /\ Len(a.parts[1]) = 16 -> "Aaaa"
    [] OTHER -> "Other"

MeaningOf(a) ==
  [rtype      |-> a.rtype,
   kind       |-> Kind(a),
   preference |-> IF a.rtype = TYPE_MX THEN a.preference ELSE 0,
   parts      |-> CASE a.rtype \in TargetTypes -> IF a.compressed THEN a.parts \o Asked
                                                  ELSE a.parts
                    [] Kind(a) = "Other" -> << >>
                    [] OTHER             -> a.parts]

Meaning(m) == [i \in DOMAIN m |-> MeaningOf(m[i])]

-----------------------------------------------------------------------------

ASSUME AskedAssumption == IsStrings(Asked, 1, 63)

\* The number of answers and the length of their data have 16 bits.
ASSUME MessagesAssumption ==
  \A m \in Messages :
    /\ m \in Seq(Range(m))
    /\ Len(m) \in Word
    /\ \A i \in DOMAIN m : IsAnswer(m[i]) /\ Len(Data(m[i])) \in Word

\* A name may have empty labels, from a doubled dot.  DNS allows 63 octets;
\* nothing in the code checks, and from 192 on a length is taken for a pointer.
ASSUME NamesAssumption == \A n \in Names : IsStrings(n, 0, 191)

\* Written out once.
Encoded == [m \in Messages |-> EncodeMessage(m)]
Meant   == [m \in Messages |-> Meaning(m)]
Queries == [n \in Names |-> BuildQuery(ExpectedId, n, TYPE_MX)]

NonEmpty(labels) ==
  FlattenSeq([i \in DOMAIN labels |-> IF labels[i] = << >> THEN << >> ELSE << labels[i] >>])

\* A message that arrives whole is read as what it means.  One that was cut
\* is refused, or gives the answers before the cut: never an answer that is
\* not in the message, so that a long answer loses records but makes none up.
AnswersAsMeant ==
  pc \in {"some", "none"} =>
    \A m \in Messages :
      /\ buf = Encoded[m] => pc = "some" /\ records = Meant[m]
      /\ IsPrefix(buf, Encoded[m]) => IsPrefix(records, Meant[m])

\* The question of a query built by build_query reads back as the labels of
\* the name, the empty ones left out, and is all that follows the header.
QuestionReadsBack ==
  pc = "reading" /\ AtRoot =>
    \A n \in Names :
      buf = Queries[n] => /\ parts = NonEmpty(n)
                          /\ EndAfter(cursor + 1) + 4 = Len(buf)

=============================================================================
