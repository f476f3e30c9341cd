------------------------------- MODULE DnsWire -------------------------------
(***************************************************************************)
(* build_query, parse_response and read_name (explorator-plugins/src/      *)
(* dns_wire.rs): the query that dnsx sends, and the reader of what comes   *)
(* back, octet by octet as far as positions are concerned.                 *)
(*                                                                         *)
(* A datagram is a sequence of octets.  Positions count from 0, as in the  *)
(* code.  A name is the sequence of its labels, a text that of its         *)
(* strings, each given by the octets it is made of.                        *)
(***************************************************************************)
EXTENDS Integers, Sequences, SequencesExt

CONSTANTS
  Datagrams,   \* what recv may return
  ExpectedId   \* the id of the query

Octet == 0 .. 255
MaxU16 == 65535
Word  == 0 .. MaxU16

ASSUME DatagramsAssumption == Datagrams \subseteq Seq(Octet)
ASSUME IdAssumption        == ExpectedId \in Word

TYPE_A     == 1
TYPE_NS    == 2
TYPE_CNAME == 5
TYPE_MX    == 15
TYPE_TXT   == 16
TYPE_AAAA  == 28
CLASS_IN   == 1

\* What read_name allows before it takes the pointers for a loop.
MaxJumps == 20

VARIABLES
  buf,       \* the datagram
  pc,        \* where parse_response is; "some" and "none" when it has returned
  pos,       \* its position
  qleft,     \* questions still to be skipped
  aleft,     \* answers still to be read
  rr,        \* the answer being read: type, start and length of its data
  records,   \* the records read so far
  caller,    \* what read_name was called for
  cursor,    \* its position, or that in a text
  end,       \* end_pos of read_name, 0 for None
  jumps,     \* the pointers it has followed
  parts      \* the labels of the name, or the strings of the text

vars == << buf, pc, pos, qleft, aleft, rr, records, caller, cursor, end, jumps, parts >>

-----------------------------------------------------------------------------

\* Mutant of LabelsSent: empty labels are sent too.
AllLabels(labels) == labels

\* The labels of a name that end up in the query.
LabelsSent(labels) ==
  FlattenSeq([i \in DOMAIN labels |-> IF labels[i] = << >> THEN << >> ELSE << labels[i] >>])

Octets16(n) == << n \div 256, n % 256 >>

\* A label is sent behind its length, of which `as u8` keeps the low octet.
BuildQuery(id, labels, qtype) ==
  Octets16(id) \o Octets16(256) \o Octets16(1) \o Octets16(0) \o Octets16(0) \o Octets16(0)
  \o FlattenSeq([i \in DOMAIN LabelsSent(labels) |->
       << Len(LabelsSent(labels)[i]) % 256 >> \o LabelsSent(labels)[i]])
  \o << 0 >> \o Octets16(qtype) \o Octets16(CLASS_IN)

-----------------------------------------------------------------------------

At(i)         == buf[i + 1]
U16(i)        == 256 * At(i) + At(i + 1)
Slice(i, len) == SubSeq(buf, i + 1, i + len)

Init ==
  /\ buf \in Datagrams
  /\ pc = "header"
  /\ pos = 0
  /\ qleft = 0
  /\ aleft = 0
  /\ rr = [rtype |-> 0, start |-> 0, len |-> 0]
  /\ records = << >>
  /\ caller = "question"
  /\ cursor = 0
  /\ end = 0
  /\ jumps = 0
  /\ parts = << >>

Return(outcome) ==
  /\ pc' = outcome
  /\ UNCHANGED << buf, pos, qleft, aleft, rr, records, caller, cursor, end, jumps, parts >>

Wellformed == Len(buf) >= 12 /\ U16(0) = ExpectedId
Rcode      == At(3) % 16

RefuseHeader == pc = "header" /\ ~ Wellformed /\ Return("none")

\* An answer with an rcode is one without records.
AcceptRcode == pc = "header" /\ Wellformed /\ Rcode # 0 /\ Return("some")

AcceptHeader ==
  /\ pc = "header"
  /\ Wellformed
  /\ Rcode = 0
  /\ pos' = 12
  /\ qleft' = U16(4)
  /\ aleft' = U16(6)
  /\ pc' = "next"
  /\ UNCHANGED << buf, rr, records, caller, cursor, end, jumps, parts >>

\* A call of read_name.
ReadName(what, at) ==
  /\ pc' = "reading"
  /\ caller' = what
  /\ cursor' = at
  /\ end' = 0
  /\ jumps' = 0
  /\ parts' = << >>

\* The heads of the two loops.
NextQuestion ==
  /\ pc = "next"
  /\ qleft > 0
  /\ ReadName("question", pos)
  /\ UNCHANGED << buf, pos, qleft, aleft, rr, records >>

NextAnswer ==
  /\ pc = "next"
  /\ qleft = 0
  /\ aleft > 0
  /\ ReadName("owner", pos)
  /\ UNCHANGED << buf, pos, qleft, aleft, rr, records >>

AllRead == pc = "next" /\ qleft = 0 /\ aleft = 0 /\ Return("some")

-----------------------------------------------------------------------------
(* The loop of read_name.                                                  *)

\* Both upper bits set.
IsPointer(octet) == octet >= 192

\* Mutant of MayJump: the guard against loops is left out.
JumpAlways == TRUE

MayJump == jumps < MaxJumps

\* Mutant of EndAfter: the end moves along with every pointer.
LastEnd(at) == at

\* The end of the name where it was asked for: set once.
EndAfter(at) == IF end = 0 THEN at ELSE end

\* The loop goes on or ends well: the position is inside, no label and no
\* pointer is cut, and there were not too many pointers.
Readable ==
  /\ cursor < Len(buf)
  /\ IF IsPointer(At(cursor))
     THEN cursor + 1 < Len(buf) /\ MayJump
     ELSE cursor + 1 + At(cursor) <= Len(buf)

Reading    == pc = "reading" /\ Readable
Unreadable == pc = "reading" /\ ~ Readable

ReadLabel ==
  /\ Reading
  /\ At(cursor) # 0
  /\ ~ IsPointer(At(cursor))
  /\ parts' = Append(parts, Slice(cursor + 1, At(cursor)))
  /\ cursor' = cursor + 1 + At(cursor)
  /\ UNCHANGED << buf, pc, pos, qleft, aleft, rr, records, caller, end, jumps >>

FollowPointer ==
  /\ Reading
  /\ IsPointer(At(cursor))
  /\ end' = EndAfter(cursor + 2)
  /\ jumps' = jumps + 1
  /\ cursor' = 256 * (At(cursor) % 64) + At(cursor + 1)
  /\ UNCHANGED << buf, pc, pos, qleft, aleft, rr, records, caller, parts >>

AtRoot == Reading /\ At(cursor) = 0

-----------------------------------------------------------------------------
(* What parse_response does with the result.                               *)

\* Without the name of a question or of an answer there is no telling where
\* the next one begins.
NameMissing ==
  /\ Unreadable
  /\ caller \in {"question", "owner"}
  /\ Return("none")

SkipQuestion ==
  /\ AtRoot
  /\ caller = "question"
  /\ EndAfter(cursor + 1) + 4 <= Len(buf)
  /\ pos' = EndAfter(cursor + 1) + 4
  /\ qleft' = qleft - 1
  /\ pc' = "next"
  /\ UNCHANGED << buf, aleft, rr, records, caller, cursor, end, jumps, parts >>

QuestionCut ==
  /\ AtRoot
  /\ caller = "question"
  /\ EndAfter(cursor + 1) + 4 > Len(buf)
  /\ Return("none")

\* Mutant of DataFits: only the fixed part is checked.
HeadFits(at) == at + 10 <= Len(buf)

\* The fixed part of an answer at `at`, and its data, are in the datagram.
DataFits(at) ==
  /\ at + 10 <= Len(buf)
  /\ at + 10 + U16(at + 8) <= Len(buf)

ReadHead ==
  /\ AtRoot
  /\ caller = "owner"
  /\ LET at == EndAfter(cursor + 1)
     IN /\ DataFits(at)
        /\ rr' = [rtype |-> U16(at), start |-> at + 10, len |-> U16(at + 8)]
        /\ pos' = at + 10
  /\ pc' = "rdata"
  /\ UNCHANGED << buf, qleft, aleft, records, caller, cursor, end, jumps, parts >>

\* A cut answer ends the loop; what was read before it counts.
AnswerCut ==
  /\ AtRoot
  /\ caller = "owner"
  /\ ~ DataFits(EndAfter(cursor + 1))
  /\ Return("some")

Record(kind, preference, content) ==
  [rtype |-> rr.rtype, kind |-> kind, preference |-> preference, parts |-> content]

Other == Record("Other", 0, << >>)

Push(record) ==
  /\ records' = Append(records, record)
  /\ aleft' = aleft - 1
  /\ pos' = rr.start + rr.len
  /\ pc' = "next"
  /\ UNCHANGED << buf, qleft, rr, caller, cursor, end, jumps, parts >>

IsAddress   == << rr.rtype, rr.len >> \in {<< TYPE_A, 4 >>, << TYPE_AAAA, 16 >>}
IsExchange  == rr.rtype = TYPE_MX /\ rr.len >= 2
HasTarget   == rr.rtype \in {TYPE_CNAME, TYPE_NS} \/ IsExchange

ReadAddress ==
  /\ pc = "rdata"
  /\ IsAddress
  /\ Push(Record(IF rr.rtype = TYPE_A THEN "A" ELSE "Aaaa", 0, << Slice(rr.start, rr.len) >>))

\* The name in the data of a CNAME, NS or MX record.
ReadTarget ==
  /\ pc = "rdata"
  /\ HasTarget
  /\ ReadName("target", IF rr.rtype = TYPE_MX THEN rr.start + 2 ELSE rr.start)
  /\ UNCHANGED << buf, pos, qleft, aleft, rr, records >>

ReadText ==
  /\ pc = "rdata"
  /\ rr.rtype = TYPE_TXT
  /\ pc' = "text"
  /\ cursor' = rr.start
  /\ parts' = << >>
  /\ UNCHANGED << buf, pos, qleft, aleft, rr, records, caller, end, jumps >>

ReadOther ==
  /\ pc = "rdata"
  /\ ~ IsAddress
  /\ ~ HasTarget
  /\ rr.rtype # TYPE_TXT
  /\ Push(Other)

TargetRead ==
  /\ AtRoot
  /\ caller = "target"
  /\ Push(CASE rr.rtype = TYPE_CNAME -> Record("Cname", 0, parts)
            [] rr.rtype = TYPE_NS    -> Record("Ns", 0, parts)
            [] rr.rtype = TYPE_MX    -> Record("Mx", U16(rr.start), parts))

TargetMissing ==
  /\ Unreadable
  /\ caller = "target"
  /\ Push(Other)

TextEnd == rr.start + rr.len

\* The next string of a text is all there.
StringFits == cursor < TextEnd /\ cursor + 1 + At(cursor) <= TextEnd

ReadString ==
  /\ pc = "text"
  /\ StringFits
  /\ parts' = Append(parts, Slice(cursor + 1, At(cursor)))
  /\ cursor' = cursor + 1 + At(cursor)
  /\ UNCHANGED << buf, pc, pos, qleft, aleft, rr, records, caller, end, jumps >>

TextRead ==
  /\ pc = "text"
  /\ ~ StringFits
  /\ Push(Record("Txt", 0, parts))

Returned == pc \in {"some", "none"} /\ UNCHANGED vars

Step ==
  \/ RefuseHeader \/ AcceptRcode \/ AcceptHeader
  \/ NextQuestion \/ NextAnswer \/ AllRead
  \/ ReadLabel \/ FollowPointer
  \/ NameMissing \/ SkipQuestion \/ QuestionCut
  \/ ReadHead \/ AnswerCut
  \/ ReadAddress \/ ReadTarget \/ ReadText \/ ReadOther
  \/ TargetRead \/ TargetMissing
  \/ ReadString \/ TextRead

Next == Step \/ Returned

Spec == Init /\ [][Next]_vars

-----------------------------------------------------------------------------
(* Properties.                                                             *)

Pcs == {"header", "next", "reading", "rdata", "text", "some", "none"}

TypeOK ==
  /\ buf \in Seq(Octet)
  /\ pc \in Pcs
  /\ pos \in Nat
  /\ qleft \in Nat
  /\ aleft \in Nat
  /\ rr \in [rtype : Nat, start : Nat, len : Nat]
  /\ caller \in {"question", "owner", "target"}
  /\ cursor \in Nat
  /\ end \in Nat
  /\ jumps \in 0 .. MaxJumps

\* What the position of parse_response says about its counters.
LoopInv ==
  /\ pc = "reading" /\ caller = "question" => qleft > 0
  /\ pc \in {"rdata", "text"} \/ (pc = "reading" /\ caller \in {"owner", "target"})
        => qleft = 0 /\ aleft > 0
  /\ pc = "reading" /\ caller = "target" => HasTarget
  /\ pc = "text" => rr.rtype = TYPE_TXT

\* parse_response, whatever the datagram, indexes only octets that are in it
\* (an index outside would panic and take the whole run down with it): when
\* the data of an answer is read its length has been checked, and the walk
\* through a text does not leave it.
ReadsInside ==
  /\ pc \in {"rdata", "text"} \/ (pc = "reading" /\ caller = "target")
        => rr.start + rr.len <= Len(buf)
  /\ pc = "text" => cursor <= rr.start + rr.len
  /\ pc = "next" => pos <= Len(buf)
  /\ pc = "reading" => end <= Len(buf)

WInv == TypeOK /\ LoopInv /\ ReadsInside

\* What is left to do of the message, in steps of parse_response.
Remaining ==
  5 * (qleft + aleft)
  + CASE pc = "next" -> 4
      [] pc = "reading" /\ caller \in {"question", "owner"} -> 3
      [] pc = "rdata" -> 2
      [] pc = "text" \/ (pc = "reading" /\ caller = "target") -> 1
      [] OTHER -> 0

\* Reading ends whatever the datagram, loops of compression pointers
\* included: every step behind the header leaves less of the message to do,
\* or follows one of at most 20 pointers, or moves on within the datagram.
Descends ==
  [][\/ pc = "header"
     \/ Remaining' < Remaining
     \/ /\ Remaining' = Remaining
        /\ \/ jumps' > jumps /\ jumps' <= MaxJumps
           \/ jumps' = jumps /\ cursor' > cursor /\ cursor' <= Len(buf)]_vars

=============================================================================
